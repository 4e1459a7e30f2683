------------------------------ MODULE Sources ------------------------------
(***************************************************************************)
(* The sources a vault reads from its own disk: markdown notes, running    *)
(* journals and structured logs, from `source add`, `ingest`, `journal     *)
(* add`, `journal import` and `source sync` down to the rows of table      *)
(* memory.  (Feeds have a module of their own, Feed.)                      *)
(*                                                                         *)
(* A command finds or inserts its source, scans files, and stores what it  *)
(* found one statement at a time; several processes may do so at once, any *)
(* may die in between, and the user goes on writing.                       *)
(*                                                                         *)
(* Abstractions.  Time is in hours.  A file is a sequence of lines, a line *)
(* a record of what the parsers look at; other bytes are its text.  A file *)
(* stands for a folder too: what matters of the walk is that it is sorted. *)
(***************************************************************************)
EXTENDS Integers, Sequences, FiniteSets, SequencesExt, Ranks

CONSTANTS Callers,    \* processes that have the vault open
          Paths,      \* files the user keeps
          KindOf,     \* KindOf[f]: what kind of source reads it
          Drafts,     \* Drafts[f]: the contents the user may give it, in order
          NameDay,    \* NameDay[f]: YYYY-MM-DD its name starts with, or NoDay
          Schema,     \* the schema logs are added with
          Said,       \* texts for `journal add`
          PageRows,   \* BATCH_ROWS
          MaxCalls,   \* bound: commands in all
          CallersDie  \* a process may die anywhere

NoDay == 0
NoHour == -1
Noon == 12

ASSUME SourcesAssumption ==
  /\ KindOf \in [Paths -> {"markdown_vault", "journal", "structured_log"}]
  /\ NameDay \in [Paths -> Nat]
  /\ PageRows \in Nat \ {0} /\ MaxCalls \in Nat /\ CallersDie \in BOOLEAN
  /\ "" \notin Paths
  /\ \A f \in Paths :
       /\ Len(Drafts[f]) \in Nat \ {0} /\ DOMAIN Drafts[f] = 1 .. Len(Drafts[f])
       /\ KindOf[f] # "markdown_vault" =>
            \A d \in DOMAIN Drafts[f] : DOMAIN Drafts[f][d] = 1 .. Len(Drafts[f][d]) /\ Len(Drafts[f][d]) \in Nat

VARIABLES draft,    \* which of its contents each file has, 0 for none yet
          sources,  \* table source, in the order of insertion
          rows,     \* table memory: what is stored, by source and raw_hash
          call,     \* what each process is in the middle of
          calls,    \* how many commands were given
          taken,    \* history: entries a command has seen and come through with
          pages     \* imports through the adapter itself, page by page

srcVars == <<draft, sources, rows, call, calls, taken, pages>>

-----------------------------------------------------------------------------
Hours(day, hour) == 24 * day + hour
TheFirst(S) == CHOOSE i \in S : \A j \in S : i <= j

(* Markdown: a file is one note. *)

\* The body, unless the fence was never closed: then all of the file is text.
Body(note) ==
  IF note.fence = "closed" THEN <<note.text>> ELSE <<note.fence, note.dates, note.text>>

\* Front matter, then the name of the file, then its mtime.
NoteDay(f, note) ==
  LET stated == {i \in DOMAIN note.dates : note.dates[i] # NoDay} IN
  IF note.fence = "closed" /\ stated # {} THEN note.dates[TheFirst(stated)]
  ELSE IF NameDay[f] # NoDay THEN NameDay[f] ELSE note.mtime

NoteItem(f, note) ==
  [hash |-> <<"note", f, Body(note)>>, at |-> Hours(NoteDay(f, note), Noon),
   kind |-> "utterance", salience |-> note.salience, sensitivity |-> "private"]

(* A journal: an entry starts at each heading. *)

\* The time of a heading, NoHour for a line that is none: a date alone, or
\* before a dash, is that day at noon; before prose it is content.
HeadingAt(line) ==
  CASE line.day = NoDay -> NoHour
    [] line.day # NoDay /\ line.hour # NoHour -> Hours(line.day, line.hour)
    [] line.day # NoDay /\ line.hour = NoHour /\ line.rest # "prose" -> Hours(line.day, Noon)
    [] OTHER -> NoHour

\* What the parser sees of a line is in its text.
ASSUME LinesSayWhen ==
  \A f \in Paths : KindOf[f] = "journal" =>
    \A c, d \in DOMAIN Drafts[f] : \A i \in DOMAIN Drafts[f][c], j \in DOMAIN Drafts[f][d] :
      Drafts[f][c][i].text = Drafts[f][d][j].text =>
        HeadingAt(Drafts[f][c][i]) = HeadingAt(Drafts[f][d][j])

Headings(lines) == {i \in DOMAIN lines : HeadingAt(lines[i]) # NoHour}

EntryText(lines, i) ==
  LET later == {j \in Headings(lines) : j > i}
      end == IF later = {} THEN Len(lines) + 1 ELSE TheFirst(later)
  IN  SelectSeq([k \in 1 .. end - i - 1 |-> lines[i + k].text], LAMBDA t : t # "")

EntryHash(f, heading, text) == <<"entry", f, heading, text>>

EntryItem(f, lines, i) ==
  [hash |-> EntryHash(f, lines[i].text, EntryText(lines, i)), at |-> HeadingAt(lines[i]),
   kind |-> "utterance", salience |-> 3, sensitivity |-> "private"]

\* Headings with nothing under them are dropped, as is what precedes them all.
Entries(f, lines) ==
  LET written == {i \in Headings(lines) : EntryText(lines, i) # <<>>} IN
  [k \in 1 .. Cardinality(written) |-> EntryItem(f, lines, Nth(written, k, <))]

(* A structured log: a line is a row. *)

\* RFC 3339 is moved to UTC; any other time is taken as it stands, a date
\* alone as noon.
RowAt(row) ==
  CASE row.form = "rfc3339" -> Hours(row.day, row.hour) - row.offset
    [] row.form = "local" -> Hours(row.day, row.hour)
    [] OTHER -> Hours(row.day, Noon)

Parses(row) == row.form \in {"rfc3339", "local", "date"}

\* Time starts before the first row.
ASSUME RowsAreInTime ==
  \A f \in Paths : KindOf[f] = "structured_log" =>
    \A d \in DOMAIN Drafts[f] : \A k \in DOMAIN Drafts[f][d] :
      Parses(Drafts[f][d][k]) => RowAt(Drafts[f][d][k]) \in Nat

\* The record of the row, without when; nested values are not columns.
Record(row) == <<row.subject, IF row.nested THEN "" ELSE row.value>>

RowKind ==
  CASE Schema = "places" -> "location" [] Schema = "people" -> "relationship"
    [] Schema = "habits" -> "habit" [] Schema = "media" -> "artifact"
    [] OTHER -> "observation"

Suggested == IF Schema \in {"people", "habits", "media"} THEN "private" ELSE "secret"

RowItem(row) ==
  [hash |-> <<"row", Record(row)>>, at |-> RowAt(row),
   kind |-> RowKind, salience |-> 4, sensitivity |-> Suggested]

\* A line that does not parse is no row.
Scanned(lines) == {k \in DOMAIN lines : Parses(lines[k])}

RowItems(lines) ==
  [k \in 1 .. Cardinality(Scanned(lines)) |-> RowItem(lines[Nth(Scanned(lines), k, <)])]

Content(f) == Drafts[f][draft[f]]

\* Every memory a source offers; a journal is a push source.
Offers(kind, f) ==
  CASE kind = "markdown_vault" -> <<NoteItem(f, Content(f))>>
    [] kind = "structured_log" -> RowItems(Content(f))
    [] OTHER -> <<>>

-----------------------------------------------------------------------------
\* What adding a source means: how it is trusted, how far it may travel, and
\* whether pulling reaches the network. A log needs its schema (an empty one
\* stands for none), a feed its author and relays; no other kind has an adapter.
Refused == [refused |-> TRUE]

PlanFor(kind, schema, hasFeed) ==
  CASE kind = "markdown_vault" -> [trust |-> "first_party", sensitivity |-> "private", network |-> FALSE]
    [] kind = "journal" -> [trust |-> "first_party", sensitivity |-> "private", network |-> FALSE]
    [] kind = "structured_log" /\ schema # "" ->
         [trust |-> "self_reported", sensitivity |-> Suggested, network |-> FALSE]
    [] kind = "nostr_feed" /\ hasFeed ->
         [trust |-> "third_party", sensitivity |-> "public", network |-> TRUE]
    [] OTHER -> Refused

\* Slip: ingest names the folder by its bare path.
BarePathConfig(kind, f, cmd) == IF cmd = "ingest" THEN <<f>> ELSE <<"location", f>>

\* config_json and markdown_config: one spelling, whoever asks.
Config(kind, f, cmd) ==
  IF kind = "journal" THEN <<"location", "">>
  ELSE IF kind = "structured_log" THEN <<"location", f, "schema", Schema>>
  ELSE <<"location", f>>

\* location_of: an old vault stored the bare path.
LocationOf(config) == IF config[1] = "location" THEN config[2] ELSE config[1]

Same(kind, config) == {i \in DOMAIN sources : sources[i].kind = kind /\ sources[i].config = config}

Resting == [pc |-> "rest", cmd |-> "", kind |-> "", file |-> "", source |-> 0,
            queue |-> <<>>, todo |-> <<>>, seen |-> {}]

FirstPage == [cursor |-> 0, got |-> {}, more |-> TRUE]

SrcInit ==
  /\ draft = [f \in Paths |-> 0]
  /\ sources = <<>>
  /\ rows = [k \in {} |-> <<>>]
  /\ call = [p \in Callers |-> Resting]
  /\ calls = 0
  /\ taken = {}
  /\ pages = [f \in Paths |-> FirstPage]

Rest(p) == call' = [call EXCEPT ![p] = Resting]
Exists(f) == draft[f] > 0

\* The user writes on.
Write(f) ==
  /\ draft[f] < Len(Drafts[f])
  /\ draft' = [draft EXCEPT ![f] = @ + 1]
  /\ pages' = [pages EXCEPT ![f] = FirstPage]
  /\ UNCHANGED <<sources, rows, call, calls, taken>>

Give(p, command) ==
  /\ call[p].pc = "rest"
  /\ calls < MaxCalls
  /\ calls' = calls + 1
  /\ call' = [call EXCEPT ![p] = command]
  /\ UNCHANGED <<draft, sources, rows, taken, pages>>

\* `source add`: what has no plan is refused, and a location that does not
\* exist. (A journal can be added too; it stays empty, its entries are imported.)
AddSource(p, f) ==
  /\ PlanFor(KindOf[f], Schema, FALSE) # Refused
  /\ Exists(f)
  /\ KindOf[f] # "journal"
  /\ Give(p, [Resting EXCEPT !.pc = "find", !.cmd = "add", !.kind = KindOf[f], !.file = f])

\* `ingest`.
Ingest(p, f) ==
  /\ KindOf[f] = "markdown_vault"
  /\ Give(p, [Resting EXCEPT !.pc = "find", !.cmd = "ingest", !.kind = KindOf[f], !.file = f])

\* `journal import`.
JournalImport(p, f) ==
  /\ KindOf[f] = "journal"
  /\ Give(p, [Resting EXCEPT !.pc = "find", !.cmd = "import", !.kind = "journal", !.file = f])

\* `journal add`: the entry is headed by the millisecond it is made in.
JournalAdd(p, text) ==
  Give(p, [Resting EXCEPT
             !.pc = "find", !.cmd = "say", !.kind = "journal",
             !.todo = <<[hash |-> EntryHash("", calls, <<text>>), at |-> calls,
                         kind |-> "utterance", salience |-> 3, sensitivity |-> "private"]>>])

\* `source sync`, over the sources there are at its start.
Sync(p) ==
  Give(p, [Resting EXCEPT !.pc = "next", !.cmd = "sync", !.queue = [i \in DOMAIN sources |-> i]])

\* upsert_source_with looks for (kind, config) ...
FindSource(p) ==
  /\ call[p].pc = "find"
  /\ LET same == Same(call[p].kind, Config(call[p].kind, call[p].file, call[p].cmd)) IN
     call' = [call EXCEPT ![p].pc = IF same = {} THEN "insert" ELSE "scan",
                          ![p].source = IF same = {} THEN 0 ELSE TheFirst(same)]
  /\ UNCHANGED <<draft, sources, rows, calls, taken, pages>>

\* ... and inserts it, unless another process has: then the command fails.
InsertSource(p) ==
  /\ call[p].pc = "insert"
  /\ LET config == Config(call[p].kind, call[p].file, call[p].cmd)
         plan == PlanFor(call[p].kind, Schema, FALSE) IN
     IF Same(call[p].kind, config) # {}
     THEN Rest(p) /\ UNCHANGED sources
     ELSE /\ sources' = Append(sources, [kind |-> call[p].kind, config |-> config, trust |-> plan.trust,
                                         sensitivity |-> plan.sensitivity, cursor |-> 0])
          /\ call' = [call EXCEPT ![p].pc = "scan", ![p].source = Len(sources) + 1]
  /\ UNCHANGED <<draft, rows, calls, taken, pages>>

\* An import fails on a file that is not there; `add` is done.
Scan(p) ==
  /\ call[p].pc = "scan"
  /\ CASE call[p].cmd = "add" -> Rest(p)
       [] call[p].cmd = "say" -> call' = [call EXCEPT ![p].pc = "store", ![p].seen = Range(call[p].todo)]
       [] call[p].cmd \in {"ingest", "import"} /\ ~Exists(call[p].file) -> Rest(p)
       [] OTHER ->
            LET items == IF call[p].cmd = "import" THEN Entries(call[p].file, Content(call[p].file))
                         ELSE Offers(call[p].kind, call[p].file) IN
            call' = [call EXCEPT ![p].pc = "store", ![p].todo = items, ![p].seen = Range(items)]
  /\ UNCHANGED <<draft, sources, rows, calls, taken, pages>>

\* sync takes its next source; one that cannot be read is counted and left.
NextSource(p) ==
  /\ call[p].pc = "next"
  /\ IF call[p].queue = <<>>
     THEN Rest(p)
     ELSE LET i == Head(call[p].queue)
              f == LocationOf(sources[i].config)
              unreachable == f \in Paths /\ ~Exists(f)
              items == IF f \in Paths THEN Offers(sources[i].kind, f) ELSE <<>> IN
          call' = [call EXCEPT ![p].queue = Tail(@),
                               ![p].pc = IF unreachable THEN "next" ELSE "store",
                               ![p].source = IF unreachable THEN 0 ELSE i,
                               ![p].todo = IF unreachable THEN <<>> ELSE items,
                               ![p].seen = IF unreachable THEN {} ELSE Range(items)]
  /\ UNCHANGED <<draft, sources, rows, calls, taken, pages>>

\* has_raw_hash and put_memory; UNIQUE(source_id, raw_hash) settles a race.
Store(p) ==
  /\ call[p].pc = "store"
  /\ call[p].todo # <<>>
  /\ LET item == Head(call[p].todo)
         key == <<call[p].source, item.hash>> IN
     rows' = IF key \in DOMAIN rows THEN rows
             ELSE [k \in DOMAIN rows \cup {key} |-> IF k = key THEN item ELSE rows[k]]
  /\ call' = [call EXCEPT ![p].todo = Tail(@)]
  /\ UNCHANGED <<draft, sources, calls, taken, pages>>

\* The cursor of a local source is written, on the newest memory, and never read.
Stored(p) ==
  /\ call[p].pc = "store"
  /\ call[p].todo = <<>>
  /\ taken' = taken \cup {<<call[p].source, item>> : item \in call[p].seen}
  /\ IF call[p].cmd = "sync"
     THEN /\ call' = [call EXCEPT ![p].pc = "next", ![p].source = 0, ![p].seen = {}]
          /\ sources' = [sources EXCEPT ![call[p].source].cursor =
               IF call[p].seen = {} THEN 0
               ELSE CHOOSE t \in {i.at : i \in call[p].seen} : \A i \in call[p].seen : i.at <= t]
     ELSE Rest(p) /\ UNCHANGED sources
  /\ UNCHANGED <<draft, rows, calls, pages>>

Die(p) ==
  /\ CallersDie
  /\ call[p].pc # "rest"
  /\ Rest(p)
  /\ UNCHANGED <<draft, sources, rows, calls, taken, pages>>

-----------------------------------------------------------------------------
\* Rows of a log from the cursor on, by time and then by line.
Pending(lines, cursor) == {k \in Scanned(lines) : RowAt(lines[k]) >= cursor}

Sooner(lines, j, k) ==
  RowAt(lines[j]) < RowAt(lines[k]) \/ (RowAt(lines[j]) = RowAt(lines[k]) /\ j < k)

\* The cursor sits on the last row taken.
PageCursor(lines, cursor, kept) ==
  IF kept = {} THEN cursor
  ELSE CHOOSE t \in {RowAt(lines[k]) : k \in kept} : \A k \in kept : RowAt(lines[k]) <= t

\* The adapter's own pull: one page.
NextPage(lines, at) ==
  LET due == Pending(lines, at.cursor)
      kept == FirstOf(due, PageRows, LAMBDA j, k : Sooner(lines, j, k)) IN
  [cursor |-> PageCursor(lines, at.cursor, kept), got |-> at.got \cup kept,
   more |-> Cardinality(due) > PageRows]

PullPage(f) ==
  /\ KindOf[f] = "structured_log" /\ Exists(f)
  /\ pages[f].more
  /\ pages' = [pages EXCEPT ![f] = NextPage(Content(f), pages[f])]
  /\ UNCHANGED <<draft, sources, rows, call, calls, taken>>

PageNext == \E f \in Paths : Write(f) \/ PullPage(f)

SrcNext ==
  \/ \E f \in Paths : Write(f)
  \/ \E p \in Callers :
       \/ \E f \in Paths : AddSource(p, f) \/ Ingest(p, f) \/ JournalImport(p, f)
       \/ \E text \in Said : JournalAdd(p, text)
       \/ Sync(p) \/ FindSource(p) \/ InsertSource(p) \/ Scan(p)
       \/ NextSource(p) \/ Store(p) \/ Stored(p) \/ Die(p)

SrcSpec == SrcInit /\ [][SrcNext \/ PageNext]_srcVars

-----------------------------------------------------------------------------
\* "Fourteen notes became twenty-eight memories": whichever commands bring a
\* folder in, however they interleave, no note and no entry is stored under
\* two sources; a row is stored twice only where two logs both have it.
NothingTwice ==
  \A k, l \in DOMAIN rows :
    k # l /\ k[2] = l[2] /\ sources[k[1]].kind = sources[l[1]].kind =>
      k[2][1] = "row" /\ LocationOf(sources[k[1]].config) # LocationOf(sources[l[1]].config)

\* What a command came through with is in the corpus, each note and entry of
\* its own as the file says it: none is taken for another one.
EntriesAreKept ==
  \A t \in taken :
    LET key == <<t[1], t[2].hash>> IN
    /\ key \in DOMAIN rows
    /\ t[2].hash[1] = "entry" => rows[key].at = t[2].at

\* Importing through the adapter reaches every row before it says it is done.
PagesCoverTheLog ==
  \A f \in Paths : KindOf[f] = "structured_log" /\ Exists(f) /\ ~pages[f].more =>
    pages[f].got = Scanned(Content(f))

\* A page that says there is more leads on to it.  It does not where more than a
\* page of rows share one instant (structlog.rs, pull: "a resumed import
\* continues where it stopped").
PagesLeadOn ==
  \A f \in Paths : KindOf[f] = "structured_log" /\ Exists(f) /\ pages[f].more =>
    NextPage(Content(f), pages[f]) # pages[f]

\* A file's notes, entries and rows are in the corpus once each, as the file
\* says them, however often and by whichever command it is brought in.
FilesAreTakenOnce == NothingTwice /\ EntriesAreKept /\ PagesCoverTheLog

\* Violated: "two rows that differ only in a field the renderer drops are still
\* two rows" - a row's time is in no field the hash covers.
RowsAreKept ==
  \A t \in taken : t[2].hash[1] = "row" => rows[<<t[1], t[2].hash>>].at = t[2].at
=============================================================================
