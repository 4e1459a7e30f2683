# Ghostr: a verification development

Ghostr keeps a person's notes in one encrypted SQLite vault, seals them day by
day into a hash chain (*memoria*), asks the person questions whose answers score
a model of them (*quests*), distils that model from the corpus (*persona*), backs
the sealed days up to nostr relays and rebuilds a vault from them, and publishes a
little of it on purpose (*ghost*). This directory holds TLA+ specifications of
those parts, the TLC instances that check them and proofs for TLAPS. Paths below
are relative to `crates/` of the repository.

Run things from this directory: `tlc -config memoria.cfg MCMemoria`,
`tlapm MemoriaProofs.tla`.

## 1. The system

One vault is one directory: a keystore file, a configuration file and a SQLite
file in WAL mode. `ghostr serve` has the vault open for weeks behind a mutex; any
`ghostr` command opens the same file beside it. Nothing locks one process against
another except SQLite, so **only one SQL statement, or an explicit transaction, is
atomic**, and `seal_footage` and `put_memory` are nearly the only explicit
transactions. A process may die, or a statement fail and the error propagate,
between any two of them. Most of what is hard in this code follows from that one
fact; the rest comes from relays, calendars, models and the wall clock.

| component | state | operations | talks to | hard because | correct when |
|---|---|---|---|---|---|
| sealing: `ghostr-engine/src/ops.rs`, `ghostr-store/src/sqlite.rs`, `ghostr-anchor/src/chain.rs` | tables `memory`, `footage`, `footage_memory`; commitment columns of `quest` | ingest, shred, memoria | quests (issued and answered lists), scheduler, backup | fourteen reads and writes of which one is a transaction; late notes; dates out of order | the days are one gapless append-only chain; each memory is in one day or amends it; `verify` re-derives every root |
| quest loop: `ops.rs`, `ghostr-quests` | table `quest` (a status column and a sealed body), correction memories, `persona_delta` | issue, answer, expire, score | persona (delta queue), sealing | check-then-insert; three commits per answer; the deadline passes while an answer is under way | a verdict is one-shot; what follows from it agrees with it; the deadline decides |
| persona: `ops.rs`, `ghostr-persona` | table `persona` with a head flag, delta queue | propose, adopt, drain | quests, corpus | a flag moved by two statements, a parent read long before | versions form one line and the newest leads |
| backup: `ghostr-engine/src/sync.rs`, `engine.rs` (role) | `footage`, `meta` (genesis link, chain id, device role), `egress_log` | sync, restore, role check | relays | partial and foreign answers, a restore that is many commits, two devices of one seed | a restored vault is a prefix of the chain and never forks it; a reported backup exists |
| feeds and files: `sources.rs`, `ghostr-ingest` | table `source` with a cursor, `memory` | add, sync, pull, ingest, journal | relays, the user's files | a limit that yields the newest first, late notes, a cursor written after the notes, a file the user goes on writing | nothing a source still offers is skipped for good, nothing is stored twice |
| scheduler: `ops::seal_due`, `serve::seal_loop`, `ghostr-memoria/src/cutoff.rs` | none of its own | seal what is over, oldest first, behind a grace window | sealing | the walk back, failures swallowed, clocks that show an hour twice or never, liveness | every day that is over is eventually sealed, whole |
| serve: `serve.rs`, `serve/` | a connection counter, the engine mutex | accept, handle, refuse | everything | a counter lowered by hand, a poisoned lock | whoever speaks is answered |
| anchoring: `ops::anchor`, `upgrade_anchors`, `ghostr-anchor/src/ots.rs` | table `anchor` | submit, upgrade, verify | calendar servers | an answer written over a newer record | what is confirmed is proved, and stays |
| ghost publishing: `ghost.rs` | `meta`, relays | manifest, revoke, attest, note | keystore, relays, egress log | two publishes that must both happen | a revocation is public before its notice and is not taken back |
| remote signer: `ghostr-nostr/src/nip46.rs` | a session: its requests, a pinned key | connect, sign | relays, a signer | late and repeated replies, sessions that share a client key, a signer that changes its own | a session is one identity, a signature answers the request it is taken for |
| LLM gate: `ghostr-llm` | egress log, entity table | admit, redact, record, send | providers | the row, the redaction, the second scan and the call are separate | nothing leaves without a row, and nothing forbidden does |
| entities and vectors: `sqlite.rs` | tables `entity`, `vector`, rebuild marks | resolve, mint, upsert, rebuild, search | memoria, LLM gate | check-then-insert, a rebuild cut short | a name is one entity, a search compares like with like |
| keystore, init, migrations: `ghostr-crypto/src/keystore.rs`, `engine.rs`, `sqlite.rs` | two files, schema version | init, unlock, re-key, migrate | the file system | several files, no transaction, a rename that is not durable yet | a vault that was created can be opened |
| functions of their input: composing, voice, distilling, generator, score, codecs, Merkle tree, prompts, parsers, commands, screens | | | | numeric edges, texts that imitate delimiters, answers that say anything | each agrees with its reference definition, or keeps its promise |

`PROJECT.json` lists every component with its status and the hazards with their
lines. Its map gives the lines of a definition with the documentation above them and, where
the definition is about a type, those of the type.

## 2. The modules

| module | models | composed in |
|---|---|---|
| `CommitmentChain` | what the chain promises whoever is handed its records: it only grows at the end, every record names the link before it, no date twice | implemented by `Memoria` |
| `Memoria` | ingest, shred, the statements of the quest table that sealing meets, and `memoria` statement by statement, by any number of processes | `MCMemoria` |
| `QuestLoop` | issue, answer and expire | `MCQuestLoop` |
| `Backup` | sync, restore and the device role, against relays | itself |
| `Feed`, `Sources`, `Wire` | a nostr feed: pull, screen, store, move the cursor; the files of the user: source add, ingest, journal add and import, source sync; the frames of a relay and the answers of a remote signer, and what the client takes of them | `MCFeed` |
| `SealLoop`, `Serve` | seal_due and the loop that calls it; acceptors, slots, threads and the engine mutex around it | `MCServe` |
| `Anchor`, `Ghost`, `Bunker`, `Gate` | what leaves the device: anchors, public statements, a remote signature, a question to a model | `MCOutbound` |
| `Persona`, `Vault`, `Index` | the vault's own tables and files: persona versions, keystore and schema, people and vectors | `MCVault` |
| `Composing` `Voice` `Distilling` `Questions` `Fidelity` `Reading` | a day's draft; the measured voice; a persona version; a batch of quests; the score; what is chosen for a prompt | `MCLibrary` |
| `Encodings` `Events` `Rows` `Attesting` | padding, records, canonical form and Merkle tree; keys, events and wraps; table rows and leaves; proofs and attestations | `MCLibrary`, with the filters and addresses of `Wire` |
| `Replies` `Redaction` `Requests` `Commands` `Showing` | what a model is asked and its reply taken for; detector, pseudonyms and delimiters; HTTP and routes; the command line and the configuration file; what a report says | `MCLibrary` |
| `Ranks` | a finite set put in an order, and the front of it: what `sort_by` and `truncate` leave | used by `Index`, `Sources`, `Gate` |
| `MC*` | constants and bounds for TLC | |
| `*Proofs` | theorems; those of `Ranks` are in it | |

**Conventions.** A process has a program counter named after what it does next and
the locals it has read; an action is one statement on shared state with everything
the code does in memory up to the next one. A crash drops the locals and keeps
the tables. Hashes and ciphertexts are free constructors: a link *is* its preimage.
Definitions commented "Slip" are plausible mistakes in one definition, used to show
that a property notices them; no behaviour of the specifications uses them. Names
follow the source where they can.

### Memoria

`memory`, `footage` and `quest` are the tables, `proc` the running operations.
`StampMemory`/`PutMemory` are ops::ingest (the instant is taken before the insert);
`Begin` … `CheckSeq` are the reads of `ops::memoria` in their order, `InsertFootage`
the transaction of `seal_footage` with its primary key and its unique date,
`StampQuest`/`StampVerdict` the calls of `mark_committed` after it. `ReadSealedThrough`,
`ReadArrivals` (whose query is `LateArrivals`) and one `FindDay` a note are the reads of
`late_arrival_amendments`, `Late` what they would give at one instant, `Root` what `build_root` hashes, `HeldRoot` what `verify`
re-derives. What a day says of its notes is `Composing`. Only a device whose role is
sealer is modelled; the role is in `Backup`.

### QuestLoop

A row has its state twice, as the code has it: the `status` column, which expiry
writes, and the sealed body. `issue_quests` is count, expire, read what is open,
draft, insert one by one; `answer_quest` is read, decide, and three commits. Held
out quests, decoys, verdicts with words of the user's own and verdicts that are
corrections are parameters; what is asked is `Questions`. Adopting a persona is an
environment step here.

### Backup

`days`, `genesis`, `chainId`, `role`, `egress` are one device's store; `relays` is
every event some relay has *stored at any time*, and a fetch returns any part of it
(`Answers`), which covers relays that are down, answer in part, have replaced or
lost an event; and with it events of strangers under our d tags. A publish may be
kept and its answer lost. `sync` asks once and then walks the days; each send is an
action, each egress row with its outcome another. `restore` is one store write per
action. One process per device; a machine that is being set up for a restore is not
sealed on before it holds a day.

### Feed and Sources

`cursor` is the column of one nostr source and `memory` the rows it gave, keyed by the
digest of the note. `BeginSync` is the read of the source, `Pull` the adapter: the
answer (`Answers`), what is thrown out of it (`Screen`), what is kept (`Pulled`).
`CheckHash` and `PutMemory` take the page one note at a time, `SetCursor` comes last
and computes the cursor from the memories (`CursorOf`), as `sources.rs` does; the
cursor the adapter returns is discarded there. Relays are external: asked with a
limit they give the newest events that match, and with `Full` they may add what was not
asked for; without it they answer with anything they hold. `InOrder` says whether
notes reach them in the order of their dates.

In `Sources` a command finds or inserts its source, scans a file (`Offers`) or reads a
page of a log (`NextPage`), and stores what it found one statement at a time. A line of
a file is what the three parsers look at; time is in hours. The user changes files
meanwhile (`Write`).

`Wire` is what a client makes of a conversation: in `MCFeed` relays add frames (`RelaySays`)
and the signer replies (`SignerSays`), each any of a set that holds the right answer and what
can be mistaken for it, and after each step every operation is asked of all that was said.

### SealLoop and Serve

The sealer wakes, walks back from yesterday to the first sealed day (`Walk`) and seals
what it found; beside it the clock moves, notes arrive late, the user seals by hand,
`auto_seal` is switched, a seal fails and the machine stops. An instant is a number of
units of UTC, the home zone its offset at each instant, so a wall clock may show a time
twice or never. Sealing one day is one step here; `Memoria` has its statements.
`Serve` puts the engine mutex around it: acceptors count a connection before they look
at the limit, each connection is a thread that reads its request *before* it takes the
mutex, a handler may panic, and then the mutex is recovered and the slot is not.

### Anchor, Ghost, Bunker, Gate

`Anchor`: one command asks the calendars about every pending proof and then submits the
tip, each row read before the question and written after the answer. A proof is the digest
it commits to and the attestations at its leaves, and a calendar answers with any of them
that parse: promises under any address, Bitcoin blocks that hold nothing of ours. Nothing in
the code compares one with a block, so `confirmed` means no more than that such a leaf is
there. How proofs are grafted and read is `Attesting`. `Ghost`: a publish asks the relays in turn; a relay keeps the newest
manifest by the second it was signed in, so one publish is one action. `Bunker`: sessions number
their requests under a prefix each was given and read the replies to one client key, those to
other sessions included; the signer echoes the id of the request it answers, but answers when
it likes, also twice, with any event under any key, and its user may change the key it holds. `Gate`: a
session snapshots its notes and the table of names, builds the prompt (`BySalience`,
`Trimmed` to the budget), and behind the gate decides, writes its row, redacts,
scans again and calls; names are learnt and the configuration changes meanwhile. A note
keeps its sensitivity: no command changes it.

### Persona, Vault, Index

`Persona`: `ReadHead`, `ReadCorpus`, `PeekDeltas` are `propose_persona`; `ClearHead` and
`InsertVersion` the two statements of `put_persona`; `DrainDeltas` the delete. A version's
content is the set of memories that move some facet; `Distilling` has the computation.
`Vault`: a command is one file operation or one statement after the other, and the machine
may lose power: what was not synced may be gone, a rename that was not synced may be
undone. A schema batch is its first statement and the rest. `Index`: `resolve_entity` is a
lookup, a count and an insert; a rebuild is two meta writes and a delete; a search is one
query whose scores are external.

### The library

These modules keep no state: they are operators, and a behaviour of `MCLibrary` is one
input: it picks a topic and then an input of it. Texts are sequences of words or glyphs that
carry only what the code looks at, numbers with a fraction are in thousandths, an operation
that may refuse returns `<<>>` or `<<its result>>`. Where the code recurses, so do they,
and are then out of reach of a proof; `Events` has no recursion and is proved about (section 5).

## 3. What TLC checks

`CHECK_DEADLOCK FALSE` everywhere: a behaviour ends when the dates, the clock, the
calls or the faults of the instance are used up. All sets and bounds are in the `.cfg`.

| run | instance | properties |
|---|---|---|
| `memoria` | one process seals three days in order, or two seal two days in any order; two notes, a thread, a quest; crashes at every statement | alone: `OnlyTornDaysFail`, `MemoryAccountedAlone`, `ThreadsContinueAlone`; both: `MemorySealedOnce`, `StampedIsCommitted`, the refinement `ImplementsChain` |
| `quests` | one process over two days and three quests (two of one claim, one held out), or two over one day; a clock that passes the deadline; crashes | `DaysAreAskedOnce` (alone), `CorrectionIsTheVerdict`, `DeltaIsEarned`, `ExpiredForGood` |
| `backup` | two devices, two days, every relay answer, crashes | `RestoredIsPrefix`, `ChainVerifies`, `ReportIsTrue`, `CleanSyncIsComplete` |
| `feed` | two processes and a feed of six notes (two of one second, one blank, one foreign), a batch of three; or two processes and three files of two drafts each; or a log read by pages of two; or two relays that send three frames between them, read two at a time; or a signer that answers three times | `NothingSkipped`, `PullAdvances`, `ShreddedForGood`, `FilesAreTakenOnce`, `StrangersAreNotBelieved` |
| `serve` | the seal loop alone from the first day on, over a day that is an hour longer; or catching up while three clients, one silent, share two slots and a handler panics | `DaysAreSealedWhole`, `EveryoneIsAnswered`, `DueIsSealed` |
| `outbound` | one anchor command and two calendars; two ghost commands and two relays; two sessions with a remote signer of two keys; two model sessions, two notes, a remote and a local provider | `ConfirmedIsKept`, `RevocationHolds`, `SessionIsOneIdentity`, `NothingLeavesUnseen` |
| `vault` | two processes and a machine that make, open and re-key a vault; or name four people; or embed three memories under two models; or propose and adopt | `RowsStayReadable`, `StoreOpens`, `PeopleAreToldApart`, `NeighboursAreComparable`, `OneHead` |
| `library` | every input of a small shape to every function of the library | nine promises, one a module or two: see `MCLibrary` |

Four more runs are expected to fail; they are in section 4.

**Bounds.** Components that share no row are checked side by side in one run, one
of them moving (`focus`), because their product would show nothing more. Two processes
suffice for every race in the tables: each conflict is between one read and one write of
one row. A process by itself gets larger bounds (`alone`, `Within`), since what two do at
most of them was already covered. Two dates give a day and its parent, three a parent
that is not the day before; two days in `backup` a chain with an inside, a gap and an
end. In `feed`, `Backlog` is one past the batch, the most that one answer can hold: a page
is truncated. A batch is longer than any run of notes that do not parse or share a second.
Three frames, read two at a time, let a relay answer for another event first, be cut off, or stay silent.
In `serve` a horizon of seven holds three whole days and a repeated hour; three clients on
two slots make one wait, refuse one and lose a slot to a panic. The proofs remove the
bounds for the properties of section 5.

**Preconditions.** `alone` is one: two sealers do lose notes and threads, and two
issuers do draw a day twice. `~together` in `PeopleAreToldApart`, `Overlap = FALSE`
(no two commands write the keystore at once), `Hasty = FALSE` (no two manifests in a
second), prefixes that differ (two sessions of a signer), `afresh` in `ConfirmedIsKept` (anchor
commands one at a time, on a tip that waits for no calendar), `Sealers` (one device seals) and `InOrder`, `Full`, `Backlog` (what relays do)
are the others. The code enforces none of them; section 4 says what happens without.

**Fairness** is assumed in `serve` only (`Serve.Fairness`). A thread that can go on does:
weak fairness of the sealer once it has the mutex or may take it, of each acceptor and of
each handler. The mutex of the standard library is not fair, so a handler that waits for it
gets strong fairness only: it is free again and again, since the sealer drops it between
passes and every other handler ends. Nothing makes a silent client speak, the user switch
the loop on, or the machine start.

## 4. Where the code and its documentation differ

Each is a run whose property states the documentation and which TLC refutes.

| run | property | what happens |
|---|---|---|
| `backup_fork` | `OneChain` | A restore that dies before its last write leaves days on a device that is still a sealer; sealing there forks the chain. |
| `anchor_lost` | `ConfirmedStays` | `ghostr anchor` confirms the tip and submits it again in the same command; the submission is written over the confirmed row. |
| `rows_lost` | `RowsAreKept` | A habit logged on two days with the same value is one memory: the second row counts as a repeat of the first. |
| `vault_upgrade` | `StoreOpens` | A death in the middle of a migration leaves a store that no later open gets through. |

More of the same kind. Take the run's `.cfg`, put the property in the place of its own
as `INVARIANT` (or `PROPERTY` where it says so), change the constants named, and TLC
shows it:

| run | property | constants | what happens |
|---|---|---|---|
| `memoria` | `RootsVerify` | | A death between the seal and the last commitment stamp leaves a day that never verifies again (SPEC: "partial seals must roll back cleanly"). |
| `memoria` | `MemoryAccounted` | | A note stored by another process between the window read and `sealed_at` is in no day and amends none (ops.rs:799: a gap "would drop every memory inside it"); so is a late note when an older date is sealed after a newer one. |
| `memoria` | `AmendmentsHashed` | | ops.rs:645 and sqlite.rs:691 say that amendments are hashed into the day's root; they are in no leaf. |
| `memoria` | `PredatingEntersWindow` | `MaxClock = 2`, `AnyOrder` and `MayCrash` `FALSE` | ops.rs:612 says that a note older than the first sealed day "still enters today's window"; it enters no window. |
| `memoria` | `LateMissedItsDay` | | A note ingested in the millisecond of the seal may be both a leaf and an amendment of the same day. |
| `memoria` | `ThreadsContinue` | | Two sealers: a thread opened by the day that won is not carried over by the next. |
| `vault` | `HeadSurvives` | `Part = {"persona"}` | `persona adopt` twice over one corpus: the head is cleared, the insert refused by UNIQUE(content_hash), and no persona is current any more. |
| `vault` | `NothingLost` | `Part = {"persona"}` | Deltas queued between proposing and adopting are drained by an adoption that never saw them. |
| `vault` | `TrainedOnce` | `Part = {"persona"}` | A death between adoption and drain hands the same correction to two versions. |
| `vault` | `ShreddedIsGone` | | vector.rs says that shred removes the embedding; shred empties the row and leaves the vector. |
| `vault` | `OneSpace` | | vector.rs says that a model change never mixes two vector spaces; the index compares widths and never models, and its model and its width are two writes. |
| `vault` | `PseudonymsDiffer` | | Two processes that name two people at once count the same number of rows, and both people become Person A to a remote model. |
| `vault` | `InitIsFinished` | | A death in `ghostr init` after the keystore was written: init refuses the vault, and no other command opens it. |
| `vault` | `RowsStayReadable` | `Overlap = TRUE` | Two commands that write the keystore at once use one temporary name; what is left may be neither's. |
| `quests` | `OneBatchADay` | | Two processes find the day empty and issue a batch each (ops.rs:1721 refuses "a day that already has quests"). |
| `quests` | `ExpiryIsCounted` | `Decoys = {q1}` | Expiry writes the column, `integrity` reads the sealed body: the expiry rate is always 0. |
| `quests` | `CorrectionKept` | | A death after the verdict loses the user's words: answering again is refused. |
| `backup` | `EgressLogged` | | A death between a publish and its row: something left the device and the log does not say so. |
| `backup` | `ManifestPossible` | | `ghostr restore` on the sealing vault drops the chain id before it is refused; a manifest, and so a revocation, is then impossible. |
| `backup` | `HomeStillSeals` | | `ghostr restore` on the sealing vault while the relays hold nothing makes it a replica, and no command undoes that. |
| `feed` | `NothingSkipped` | `Backlog = 5` | With more notes waiting than a fetch returns, as at the first sync of an established feed, the oldest are passed over for good; `has_more` is read by nothing. |
| `feed` | `NothingSkipped` | `InOrder = FALSE` | A note that reaches a relay after a newer one was read is behind the cursor and dropped as stale. |
| `feed` | `PullAdvances` | `Blank = {1, 2, 4}` | A batch that holds no new memory, because its notes do not parse, leaves the cursor where it was and is fetched again for ever; the adapter's own cursor would have passed it. |
| `feed` | `PullAdvances` | `At <- OneSecond` | So does one second with more notes than a batch. |
| `feed` | `PagesLeadOn` | | More rows of one instant than a page: the next page is the same page, and `has_more` stays true (structlog.rs: "a resumed import continues where it stopped"). |
| `feed` | `EmptyPullKeepsCursor` (`PROPERTY`) | `Full = FALSE` | An answer with no note resets the cursor to the start; a test of the adapter says that it does not move. |
| `serve` | `CountedOnce` | `Offset <- Gap`, `SPECIFICATION MCSafety` | cutoff.rs:79: a cutoff that the clock never shows becomes the epoch, and the day before and the day after share notes. |
| `serve` | `NoHole` | `SPECIFICATION MCSafety` | The walk of seal_due stops at the first sealed day: a day behind one that was sealed by hand is passed over ("every past day that is over"). |
| `serve` | `SlotsComeBack` | `MaxPanics = 2`, `SPECIFICATION MCSafety` | A handler that panics keeps its slot for ever; as many panics as slots and the server refuses everyone. |
| `outbound` | `CorpusStaysData` | | Behind the gate the redacted text, notes and all, becomes the system prompt ("never by corpus content"). |
| `outbound` | `CitesWhatItRead` | `Notes <- Crowded` | A citation is a position in the prompt, which is sorted and trimmed, and is looked up in the list before that. |
| `outbound` | `DryRunIsTrue` | | The dry run does not scan a second time ("this cannot drift from what actually happens"). |
| `outbound` | `RowsSayWhy` | | Every row of the gate says conversation, whatever the payload was sent for. |
| `outbound` | `NotesKeepManifest` (`PROPERTY`) | | A note is checked against the configuration and never against what was published. |
| `outbound` | `RowsAreOfSends` | | sync.rs says of a row that allows "that is why bytes went out"; the row is the same where the scope withheld the event from every relay. |
| `outbound` | `RevocationSupersedes` | `Hasty = TRUE` | Of two manifests signed in one second a relay keeps the one with the lower id, which may be the older. |
| `outbound` | `SignerIsHeard` | `Heeded = TRUE` | The reply to the call before is of the same second and is read first; the call fails although it was answered (relay.rs). |
| `outbound` | `SessionIsOneIdentity` | `Prefix <- OnePrefix` | Two sessions given one prefix take each other's replies; that prefixes differ is left to the caller (nip46.rs: "what keeps two sessions from colliding"). |
| `library` | `AdviceIsGood` | | The stage counts every memory, distilling only what the owner wrote and still has (ops.rs:2204, distill.rs:103): with enough foreign or shredded rows it goes on advising a persona that is refused. |
| `library` | `CorrectionsAreShown` | | A day without notes shows neither its amendments nor its threads (render.rs:182, :246). |
| `library` | `PreviewsSayNoSeal` | | A preview of such a day says "still sealed" (render.rs:183). |
| `library` | `HoldoutHasNoPart` | | A held-out memory sets the span that recency is measured over (retrieval.rs:72, :118). |
| `library` | `PassphraseChanged` | | Where the passphrase comes from the environment the new one does too, and is the old one (main.rs:748, :732, :465). |
| `library` | `ConvergedMeansConverged` | | `min_days` is not among the criteria (SPEC.md:616, score.rs:521). |
| `library` | `ChangesAreShown` | | Corrected lore is silent in the diff a reviewer adopts by. |
| `library` | `MarkersOpen` | | A word that merely contains a marker opens a thread ("mastodon": "todo"). |

Smaller ones, met while modelling and stated by no property: the scope of a remote
signer is never read from config.toml; an uppercase `feed_pubkey` is accepted and then
matches nothing (main.rs:1159), like uppercase hex elsewhere (identity.rs:53 against
hash.rs:66); a cutoff minute is not range-checked; `verify` still announces the Bitcoin
upgrade for later and `status` says that no model is compiled in; `EVERY_STAGE` of a test
lists five of six stages (render.rs:1374); the prompt budget ignores the breaks between
notes (prompt.rs:240); an egress summary counts any "allow…" (model.rs:94, :134); a
configuration value followed by a comment reads as false; `+5` is taken for a number in
escapes and lengths; the detector panics where lowercasing changes a text's length
(detect.rs:81); a short identifier never parses (ids.rs:58); a thread closed and
reopened in one day ends closed; opinions and lore are never created; `journal_add` fails on
one text twice in a millisecond; local times in journals are taken for UTC; the
expiry rate could only ever count decoys; case variants of a cloze word stay visible.

## 5. What is proved

Every theorem holds for all values of the constants: any number of processes, devices,
relays, notes, sessions, days. The assumptions on the constants are named in the modules
(`MemoriaAssumption`, `QuestAssumption`, `GateAssumption`, …) and evaluated by TLC in
every run; what a theorem assumes besides is in its `ASSUME`, and said below. Every
property of the runs that pass is stated by a theorem, but for the nine of `library` and
the two liveness properties of `serve`. The four properties that
section 4 refutes by a run have a theorem too, which says under which condition they hold:
`ChainsAgree`, `ConfirmedForGood`, `RowsHold`, `StoreHolds`. `PROJECT.json` lists them all with what each says.

**Memoria** (`TypeCorrect`, `ChainIsIntact`, `SealedOnce`, `StampsAreCommitments`,
`RefinesChain`). The chain is safe although the tip is read twice, outside the
transaction, by any number of processes. The argument is `InFlight`: the number a
process holds is at most one past the tip, and while it is exactly that, the link it
holds is the tip's. A smaller number meets the primary key. `Dense` and `Linked` give
the chain, `LeavesOfDay` (leaves are of the day's date, dates are unique) that no
memory is sealed twice. Step refinement of `CommitmentChain` follows: inserting one
past the tip appends a record, every other step stutters.
*Taking turns* (`ThreadsHold`, `NotesHold`, `RootsHold`). Their hypothesis is `TakeTurns`:
nobody begins to seal while somebody else does. Who seals may change (`Turn`), and the others
ingest, shred, issue and answer meanwhile; anybody may die anywhere. What the sealer has read
then still holds when it writes. `Threaded` says that the threads in hand are those of the tip;
`Notes` that a note that is in no leaf was stored after the window was read, or is late for the
next seal; `Roots` that the stamps still to be made are exactly what the root holds and the rows
do not yet say. `RootsHold` needs that nobody dies stamping; `RootsHoldAlone` does not: `RootsTorn` says that such
a death takes the day out of what `Roots` is about, and no other day with it. `NotesHold` needs that dates go
forward, and `Orderly`: no day is read while somebody is between taking a note's
instant and inserting it. That is the one window in which a note is lost beside a single
sealer: stamped before the day is read, inserted after, it is neither in the day nor, when
`sealed_at` is later than its stamp, late for it. Section 4 has the counterexamples. The
`…Alone` theorems transfer the three to the instance that TLC checks, in which nobody else moves.

**QuestLoop** (`TypeCorrect`, `VerdictIsOneShot`, `WordsAreTheVerdicts`,
`DeltasAreEarned`, `DeadlineHolds`, `ExpiredIsUnanswered`). One clause of one UPDATE,
`AND status = 'open'`, carries all of it: a row with a verdict is never written again,
so what a process holds after recording stays true of the row. `AskedOnceBySome`: while one
process issues, `Drawn` says that a day it has found empty stays so until it fills it, and that the
batch in its hands repeats nothing on the screen.

**Backup** (`Typed`, `Restored`, `Verifies`, `ReportsTrue`, `ReportsLogged`,
`ReportsComplete`, `ChainsAgree`), under the assumption `Sealers \subseteq {Home}` that
`backup_fork` shows to be necessary. `Chained`: every day in flight, on a relay or in the
hands of a process, is the day of the home chain with its number, and a vault adopts the
home genesis before it holds a day. `Accounted`: a form that a day does not need is on a
relay, an answer that came is true, and a day is still to do, backed up or reported.
`HomeHolds` needs no such assumption, but that nobody runs `restore` on the sealing vault.

*Events* (`WrapsHide`, `EventsHold`, `NotesDisclose`), in the same module: the conjuncts of
`EncodingsHold` that are about keys, for every key, note, nonce and identifier. Secrets are
free constructors, so the hypotheses say which of them differ: a stranger lacks the author's
key and the recipient's, the one-time key is nobody's, accounts have distinct keys. That derived
accounts are distinct is a fold over the path and is left to TLC.

**Feed** (`Typed`, `Held`, `Final` for any relays; `Skipless` when notes come in order,
relays answer in full and `Backlog <= Batch + 1`, which section 4 shows to be necessary).
A cursor that some process has read must be as good as the stored one, so `Behind` is said of
every cursor in flight; `Gapless` says that before the last note of a page everything is
stored or on the page, and `Fits`, a cardinality, that a fetch returns all there is to read.
`Advances` assumes `RoomToMove`: the notes of one second, with the blank ones after them, do
not fill a batch. Where they do, the code can stall (section 4).
`FilesHold` is about `Sources`: `BelongsTo` ties a digest to the source it is stored under,
`InHand` says the same of what commands have scanned while others add sources, `PageTold`
that a page has every row before its cursor. `RowsHold` adds the time of a row: the digest leaves
it out, so a row is kept as it was written as long as no log says one thing of two moments
(`OneTimeEach`), the very case of section 4.
`StrangersHold` is about `Wire`: relays and a signer say anything, one frame or reply after
another, and `RelaysAreChecked` and `SignerIsChecked` follow what is taken back to the frame
or reply that says it (`FramesTell`: a parsed message has its frame). `FilterIsExact` is the
other direction, what a filter asks for, for every filter and event.

**Serve** (`NeverTooMany`, `DaysHold`). An acceptor counts before it looks, so the counter
may stand above the limit; `CountIsTrue` says what it counts. `DaysHold` assumes
`CutoffsRise`, that later dates have later cutoffs; the lemma `FixedZone` shows it for every
home zone of one offset, and a zone that skips a cutoff breaks it (`CountedOnce`, section 4).

**Outbound** (`OneIdentity`, `RevocationIsKept`, `ConfirmedForGood`, `NothingLeaves`).
`OneIdentity` assumes that prefixes differ: a reply bears the id of the request it answers, so
the one that passes the check answers this request of this session, and the key it names was
held after the session asked. `RevocationIsKept` assumes `Hasty = FALSE`; its invariant
(`Stamped`) orders events by the second they were signed in. `ConfirmedForGood` is about any number of
commands at once: a row that says confirmed has a proof of its own link with a Bitcoin leaf
in it; and it is never written again as long as `afresh` remembers that commands did not
overlap and each began with a newest day that waits for no calendar (`Spent`: no record yet, a failed one,
or its window is over). Then the upgrade half of the command cannot confirm what the other half
submits again (`Afresh`, carried from the start of a command to its last write). What is not
said is that the block is real: any calendar may claim one, and the code looks it up nowhere.
Nor that the next question goes to a calendar of the configuration: ots.rs:234 says that a
URI is "only ever a calendar that already answered a submission", but an answer may name another. `NothingLeaves` needs a count:
`GateInv` says of each payload that those sent, and those a session is bound to send
since its row is written, are no more than the rows that allow it. That what is sent is part of what was
supplied comes from `Ranks`.

**Vault** (`StoreHolds`, `KeystoreHolds`, `LabelsDiffer`, `PeopleHold`, `SearchesHold`, and
the persona's `TypeCorrect`, `HeadIsUnique`, `HeadIsNewest`, `VersionsAreALine`,
`NothingLostAlone`). `KeystoreHolds` assumes `~Overlap`; both the file that the name stands
for and the one it may fall back to at a power loss are whole and open with a passphrase the
owner has in hand. `StoreHolds` assumes that no store of an older schema is found.
`LabelsDiffer`, that a spreadsheet label is never given twice, is an induction over the
naturals, done by least counterexample. `SearchesHold` is about any search in any state.
`OneHead` is not inductive, since a process that has cleared the flag may insert after another has
set it again; `NoRival` closes it: while a version leads, whoever is about to insert holds
an ordinal that is taken.

**Ranks** (`RankExists`): a finite set in any order has an element of every rank. It makes `sort_by` and
`truncate` something the prover can reason about; `SetToSortSeq` of the community modules
rests on `SortSeq` of TLC, which has no definition it can use.

**Only model-checked.** The nine properties of `library`: they are about folds,
recursive operators and parsers, and what those compute for every input is an induction over data,
which needs theorems with an operator as parameter that the installed provers cannot
instantiate; what `Events` contributes to them is proved, as above. `EveryoneIsAnswered` and `DueIsSealed`: liveness under fairness, with ENABLED.
Proved but in no run, since the invariants above contain them: `ChainIntact`, `NewestLeads`,
`Lineage`, `VerdictStands`, `Deadline`, `PublishedIsLogged`, `CursorIsHeld`, `AtMostMax`.
One thing about the tools: tlapm reads `UNION S \ T` as `UNION (S \ T)` and SANY as
`(UNION S) \ T`, so such terms are in parentheses here.

## 6. What is left

Not modelled, and why: the web page, the UI preview, `xtask` and the testkit are assets,
build tooling and fixtures; cryptographic primitives, the parameters of the KDF and memory hygiene are
below the level of these models; the async runtime, sockets and TLS are wiring; jitter of
time stamps, wording and layout are left out; the binary format of OpenTimestamps is
the library's; a check against a Bitcoin node does not exist in the code yet. Some
hazards of `PROJECT.json` name no property, because the code is exposed to them: the drain at
adoption (`ops.rs:1514`), the column that expiry writes (`score.rs:509`), the chain id that a
restore drops (`ghost.rs:53`), two sealers of one thread (`ops.rs:161`), two issuers of one day
(`ops.rs:1746`), a backlog longer than a batch (`nostr.rs:369`), a death in init
(`engine.rs:100`) and the slot of a handler that panics (`serve.rs:206`). Each has a row in
section 4, where the property that states the promise is refuted.

Next, in this order:

1. `Persona` and `QuestLoop` composed over one delta queue, so that a correction is
   followed from the verdict to the version that learnt it.
2. Lemmas about the other operators of the library that need no recursion: bounds of
   ratios, symmetry of the reference definitions.
3. `SealLoop` over `Memoria`'s statements instead of one step a day.
