------------------------------- MODULE Commands ------------------------------
(***************************************************************************)
(* What one invocation of the ghostr binary asks of the engine, and the    *)
(* configuration it reads.                                                 *)
(*                                                                         *)
(* A run is a record: what the terminal and the environment hold, the      *)
(* vault's passphrase, the operations that would fail, and what was called *)
(* so far. A command is a chain of checks, openings and calls; the first   *)
(* one that does not hold ends it with an exit code.                       *)
(***************************************************************************)
EXTENDS Integers, FiniteSets, SequencesExt

CONSTANTS Lowered,   \* a written word -> trimmed, in lower case
          Trimmed,   \* a written text -> without the blanks around it
          Loopback,  \* the hosts that are this machine
          DefaultPort, Today,
          RemoteBuilt,  \* whether the build holds a remote provider
          Numeral,      \* a glyph -> the number it writes
          Scopes        \* the words publish_scopes knows

-----------------------------------------------------------------------------
(* A run. *)

Fresh(world) ==
  world @@ [calls |-> <<>>, exit |-> <<>>, said |-> {}, answer |-> <<>>]
Going(s) == s.exit = <<>>
Stop(s, code) == IF Going(s) THEN [s EXCEPT !.exit = <<code>>] ELSE s
Need(s, holds) == IF holds THEN s ELSE Stop(s, 1)
Call(s, op, with) ==
  IF ~Going(s) THEN s
  ELSE LET asked == [s EXCEPT !.calls = Append(@, [op |-> op, with |-> with])] IN Need(asked, op \notin s.failing)
Say(s, claim) == IF Going(s) THEN [s EXCEPT !.said = @ \cup {claim}] ELSE s
Ended(s) == IF Going(s) THEN [s EXCEPT !.exit = <<0>>] ELSE s

\* A line of the terminal; at its end, an empty one.
Prompt(s) ==
  IF ~Going(s) THEN s
  ELSE [s EXCEPT !.answer = IF s.typed = <<>> THEN "" ELSE Head(s.typed),
                 !.typed = IF s.typed = <<>> THEN <<>> ELSE Tail(s.typed)]
\* The environment's passphrase, else a typed one, twice when it is to be set.
Passphrase(s, confirm) ==
  IF s.env # <<>> THEN [s EXCEPT !.answer = s.env[1]]
  ELSE LET first == Prompt(s)
           again == Prompt(first)
       IN  IF confirm THEN Need(again, again.answer = first.answer) ELSE first
OpenWith(s) == Need(s, s.vault # <<>> /\ s.vault[1] = s.answer)
Open(s) == IF Going(s) THEN Call(OpenWith(Passphrase(s, FALSE)), "open", <<>>) ELSE s

-----------------------------------------------------------------------------
(* What may be written after "ghostr". *)

Optional(words) == {<<>>} \cup {<<w>> : w \in words}
Or(option, default) == IF option = <<>> THEN default ELSE option[1]
Plainly(names) == [name : names]

GhostCommand(words) ==
  Plainly({"ghost show", "ghost publish", "ghost suspend"})
  \cup [name : {"ghost revoke"}, reason : words] \cup [name : {"ghost note"}, text : {<<w>> : w \in words}]
SourceCommand(kinds, words, pubkeys, relays) ==
  {[name |-> "source add", kind |-> k, path |-> Or(p, ""), schema |-> s, pubkey |-> key, relays |-> r, filters |-> f] :
     k \in kinds, p \in Optional(words), s \in Optional({"places", "habits", "tides"}), key \in Optional(pubkeys),
     r \in SUBSET relays, f \in {{}, {1}}}
  \cup Plainly({"source list"}) \cup [name : {"source sync"}, source : Optional({"id", "junk"})]
JournalCommand(words) == [name : {"journal add"}, text : Optional(words)] \cup [name : {"journal import"}, path : words]
PersonaCommand ==
  Plainly({"persona show", "persona adopt"}) \cup [name : {"persona distill"}, adopt : BOOLEAN]
  \cup [name : {"persona diff"}, from : 1..2, to : 1..2]
  \cup {[name |-> "persona history", limit |-> Or(l, 20)] : l \in Optional(1..2)}
QuestCommand(dates, ids, verdicts, words, severities) ==
  {[name |-> "quest issue", date |-> Or(d, "today")] : d \in Optional(dates)}
  \cup {[name |-> "quest list", limit |-> Or(l, 10)] : l \in Optional({1})}
  \cup [name : {"quest show"}, id : ids]
  \cup {[name |-> "quest answer", id |-> i, verdict |-> v, text |-> t, severity |-> Or(s, "minor")] :
          i \in ids, v \in verdicts, t \in Optional(words), s \in Optional(severities)}
EgressCommand == [name : {"egress log"}, days : Optional({1})]
FootageCommand == Plainly({"footage list"}) \cup [name : {"footage show"}, seq : 1..2]
Command(dates, addresses, zones) ==
  Plainly({"anchor", "verify", "status", "sync", "restore", "passphrase", "thread list"})
  \cup {[name |-> "init", import |-> i, nsec |-> n, tz |-> Or(z, "UTC")] : i \in BOOLEAN, n \in BOOLEAN, z \in Optional(zones)}
  \cup {[name |-> "ingest", path |-> p] : p \in {"notes"}}
  \cup {[name |-> "memoria", date |-> Or(d, "today"), dry_run |-> y, remote |-> r] : d \in Optional(dates), y \in BOOLEAN, r \in BOOLEAN}
  \cup {[name |-> "recap", date |-> Or(d, "today")] : d \in Optional(dates)}
  \cup {[name |-> "fidelity", window |-> Or(w, "30"), publish |-> p] : w \in Optional({"30d", "90", "all", "7"}), p \in BOOLEAN}
  \* --http alone is this machine's default port.
  \cup {[name |-> "serve", http |-> h, lan |-> l] :
          h \in Optional(addresses \cup {[form |-> "address", host |-> "127.0.0.1", port |-> DefaultPort]}), l \in BOOLEAN}

-----------------------------------------------------------------------------
(* Words that become values. <<>> is a refusal. *)

ResolveDate(spec) ==
  CASE Lowered[spec] = "today" -> <<Today>> [] Lowered[spec] = "yesterday" -> <<Today - 1>>
    [] spec \in DOMAIN Numeral -> <<Numeral[spec]>> [] OTHER -> <<>>

WrittenWords(text) == IF text = <<>> \/ Trimmed[text[1]] = <<>> THEN <<>> ELSE <<Trimmed[text[1]]>>

ParseVerdict(verdict, text, severity) ==
  LET words == WrittenWords(text) IN
  CASE Lowered[verdict] \in {"confirm", "yes"} -> <<[type |-> "confirm"]>>
    [] Lowered[verdict] = "correct" ->
         IF words = <<>> \/ Lowered[severity] \notin {"major", "minor"} THEN <<>>
         ELSE <<[type |-> "correct", correction |-> words[1], severity |-> Lowered[severity]]>>
    [] Lowered[verdict] \in {"reject", "no"} -> <<[type |-> "reject", note |-> words]>>
    [] Lowered[verdict] \in {"unknown", "dunno"} -> <<[type |-> "unknown"]>>
    [] Lowered[verdict] \in {"void", "broken"} -> IF words = <<>> THEN <<>> ELSE <<[type |-> "void", reason |-> words[1]]>>
    [] OTHER -> <<>>

\* A socket address, a port of this machine, or a host on the default port.
ResolveAddr(spec) ==
  CASE spec.form = "address" -> <<[host |-> spec.host, port |-> spec.port]>>
    [] spec.form = "port" -> <<[host |-> "127.0.0.1", port |-> spec.port]>>
    [] spec.form = "host" -> <<[host |-> spec.host, port |-> DefaultPort]>>
    [] OTHER -> <<>>
IsLoopback(addr) == addr.host \in Loopback

\* A valid npub's key, or sixty-four hexadecimal digits as they are written.
FeedPubkey(raw) ==
  IF raw.npub THEN raw.key ELSE IF raw.digits = 64 /\ raw.hex THEN <<raw.text>> ELSE <<>>

SourceKindOf(kind) ==
  CASE kind \in {"markdown", "markdown_vault"} -> <<"markdown_vault">> [] kind = "journal" -> <<"journal">>
    [] kind \in {"structlog", "structured_log"} -> <<"structured_log">> [] kind \in {"nostr", "nostr_feed"} -> <<"nostr_feed">>
    [] OTHER -> <<>>
Schemas == {"places", "people", "habits", "health", "media"}
ReadableKinds == {1, 30023}
FeedConfig(c) ==
  [pubkey |-> FeedPubkey(c.pubkey[1])[1], relays |-> c.relays, kinds |-> IF c.filters = {} THEN ReadableKinds ELSE c.filters]

WindowOf(window) ==
  CASE Lowered[window] \in {"30", "30d"} -> <<"rolling30">> [] Lowered[window] \in {"90", "90d"} -> <<"rolling90">>
    [] Lowered[window] \in {"all", "alltime"} -> <<"all">> [] OTHER -> <<>>

-----------------------------------------------------------------------------
(* The commands. *)

CmdInit(s, c) ==
  LET zoned == Need(s, c.tz \in s.zones)
      phrase == IF c.import THEN Prompt(zoned) ELSE zoned
      key == IF c.nsec THEN Prompt(phrase) ELSE phrase
      set == IF Going(key) THEN Passphrase(key, TRUE) ELSE key
      made == Call(Need(set, s.vault = <<>>), "init", <<c.import, c.nsec>>)
  IN  IF Going(made) THEN [made EXCEPT !.vault = <<set.answer>>] ELSE made

RelayClient(s) == Need(s, s.relays)
CmdGhostShow(s) == Call(Open(s), "manifest", "active")
CmdGhostPublish(s, status) == Say(Call(RelayClient(Open(s)), "publish_manifest", status), "published")
CmdGhostRevoke(s, c) ==
  LET done == Call(RelayClient(Open(s)), "revoke", c.reason) IN Say(done, IF s.noticed THEN "notice sent" ELSE "notice pending")
CmdGhostNote(s, c) == Say(Call(RelayClient(Open(s)), "publish_note", c.text), "posted")
CmdSync(s) == Call(RelayClient(Open(s)), "sync", <<>>)
CmdRestore(s) == Say(Call(RelayClient(Open(s)), "restore", <<>>), "replica")

CmdPassphrase(s) ==
  LET old == Prompt(s)
      opened == Call(OpenWith(old), "open", <<>>)
      new == IF Going(opened) THEN Passphrase(opened, TRUE) ELSE opened
      changed == Call(new, "change_passphrase", <<old.answer, new.answer>>)
  IN  Say(IF Going(changed) THEN [changed EXCEPT !.vault = <<new.answer>>] ELSE changed, "the old one no longer opens this vault")

CmdIngest(s, c) == Call(Open(s), "ingest", c.path)

CmdDryRunRemote(s, day) ==
  Call(Need(s, RemoteBuilt), "dry_run_remote",
       [day |-> day, provider |-> Or(s.provider, "anthropic"), tasks |-> {"summarization"}])
CmdMemoria(s, c) ==
  LET day == ResolveDate(c.date)
      dated == Need(Open(s), day # <<>>)
  IN  IF ~Going(dated) THEN dated
      ELSE IF c.dry_run THEN CmdDryRunRemote(Need(dated, c.remote), day[1])
      ELSE Call(Need(dated, ~c.remote), "memoria", day[1])

CmdQuestIssue(s, c) ==
  LET dated == Need(Open(s), ResolveDate(c.date) # <<>>) IN
  IF Going(dated) THEN Call(dated, "issue_quests", ResolveDate(c.date)[1]) ELSE dated
CmdQuestList(s, c) == Call(Open(s), "open_quests", c.limit)
CmdQuestShow(s, c) == Call(Open(s), "find_quest", c.id)
CmdQuestAnswer(s, c) ==
  LET verdict == ParseVerdict(c.verdict, c.text, c.severity)
      found == Call(Open(Need(s, verdict # <<>>)), "find_quest", c.id)
  IN  IF Going(found) THEN Call(found, "answer_quest", <<c.id, verdict[1]>>) ELSE found

\* Too small a sample is advice, not a failure.
CmdFidelity(s, c) ==
  LET asked == Need(Open(s), WindowOf(c.window) # <<>>)
      window == WindowOf(c.window)[1]
  IN  IF ~Going(asked) THEN asked
      ELSE IF c.publish THEN Call(RelayClient(asked), "publish_attestation", window)
      ELSE IF s.short THEN Say(Call([asked EXCEPT !.failing = @ \ {"fidelity"}], "fidelity", window), "not enough evidence yet")
      ELSE Call(asked, "fidelity", window)

CmdFootageList(s) == Call(Open(s), "all_footage", <<>>)
CmdFootageShow(s, c) == Call(Need(Open(s), c.seq \in s.days), "get_footage", c.seq)

\* Pending proofs first: the tip's record is written over by anchor.
CmdAnchor(s) == Call(Call(Open(s), "upgrade_anchors", <<>>), "anchor", <<>>)

CmdServe(s, c) ==
  LET addr == IF c.http = <<>> THEN <<>> ELSE ResolveAddr(c.http[1])
      near == Need(Need(s, c.http = <<>> \/ addr # <<>>), addr = <<>> \/ IsLoopback(addr[1]) \/ c.lan)
  IN  Call(Open(near), "serve", [http |-> addr, lan |-> c.lan])

CmdVerify(s) ==
  LET read == Call(Open(s), "verify", <<>>) IN IF s.intact.chain /\ s.intact.roots THEN read ELSE Stop(read, 2)
CmdStatus(s) == Call(Open(s), "status", <<>>)

CmdRecap(s, c) ==
  LET dated == Need(Open(s), ResolveDate(c.date) # <<>>) IN
  IF Going(dated) THEN Call(dated, "recap", ResolveDate(c.date)[1]) ELSE dated

CmdSourceAdd(s, c) ==
  LET kind == SourceKindOf(c.kind)
      feed == kind = <<"nostr_feed">>
      keyed == Need(Need(s, kind # <<>>), feed => c.pubkey # <<>> /\ c.relays # {})
      read == IF Going(keyed) THEN Need(keyed, feed => FeedPubkey(c.pubkey[1]) # <<>>) ELSE keyed
      opened == Open(Need(read, c.schema = <<>> \/ c.schema[1] \in Schemas))
  IN  IF ~Going(opened) THEN opened
      ELSE Call(opened, "add_source", [kind |-> kind[1], path |-> c.path, schema |-> c.schema,
                                       feed |-> IF feed THEN <<FeedConfig(c)>> ELSE <<>>])
CmdSourceList(s) == Call(Open(s), "list_sources", <<>>)
\* One source or all of them, over the feeds' own relays.
CmdSourceSync(s, c) == Call(Call(Need(Open(s), c.source # <<"junk">>), "feed_relays", <<>>), "sync_sources", c.source)
CmdThreadList(s) == Call(Open(s), "open_threads", <<>>)

\* The entry is an argument, or all that is left to type.
CmdJournalAdd(s, c) ==
  LET opened == Open(IF c.text = <<>> THEN [s EXCEPT !.typed = <<>>] ELSE s) IN
  Call(opened, "journal_add", IF c.text = <<>> THEN s.typed ELSE c.text)
CmdJournalImport(s, c) == Call(Open(s), "journal_import", c.path)
CmdEgressLog(s, c) == Call(Open(s), "egress_log", IF c.days = <<>> THEN 0 ELSE Today - c.days[1])

CmdPersonaShow(s) == Call(Open(s), "persona_head", <<>>)
CmdPersonaDistill(s, c) ==
  LET proposed == Call(Open(s), "propose_persona", <<>>) IN
  IF c.adopt THEN Say(Call(proposed, "adopt_persona", <<>>), "adopted") ELSE proposed
CmdPersonaAdopt(s) == Say(Call(Call(Open(s), "propose_persona", <<>>), "adopt_persona", <<>>), "adopted")
CmdPersonaDiff(s, c) == Call(Open(s), "persona_diff", <<c.from, c.to>>)
CmdPersonaHistory(s, c) == Call(Open(s), "persona_history", c.limit)

Run(s, c) ==
  CASE c.name = "init" -> CmdInit(s, c) [] c.name = "passphrase" -> CmdPassphrase(s)
    [] c.name = "sync" -> CmdSync(s) [] c.name = "restore" -> CmdRestore(s)
    [] c.name = "ingest" -> CmdIngest(s, c) [] c.name = "memoria" -> CmdMemoria(s, c)
    [] c.name = "recap" -> CmdRecap(s, c) [] c.name = "anchor" -> CmdAnchor(s)
    [] c.name = "serve" -> CmdServe(s, c) [] c.name = "verify" -> CmdVerify(s) [] c.name = "status" -> CmdStatus(s)
    [] c.name = "fidelity" -> CmdFidelity(s, c)
    [] c.name = "source add" -> CmdSourceAdd(s, c) [] c.name = "source list" -> CmdSourceList(s)
    [] c.name = "source sync" -> CmdSourceSync(s, c) [] c.name = "thread list" -> CmdThreadList(s)
    [] c.name = "ghost show" -> CmdGhostShow(s) [] c.name = "ghost publish" -> CmdGhostPublish(s, "active")
    [] c.name = "ghost suspend" -> CmdGhostPublish(s, "suspended") [] c.name = "ghost revoke" -> CmdGhostRevoke(s, c)
    [] c.name = "ghost note" -> CmdGhostNote(s, c)
    [] c.name = "journal add" -> CmdJournalAdd(s, c) [] c.name = "journal import" -> CmdJournalImport(s, c)
    [] c.name = "egress log" -> CmdEgressLog(s, c)
    [] c.name = "persona show" -> CmdPersonaShow(s) [] c.name = "persona distill" -> CmdPersonaDistill(s, c)
    [] c.name = "persona adopt" -> CmdPersonaAdopt(s) [] c.name = "persona diff" -> CmdPersonaDiff(s, c)
    [] c.name = "persona history" -> CmdPersonaHistory(s, c)
    [] c.name = "quest issue" -> CmdQuestIssue(s, c) [] c.name = "quest list" -> CmdQuestList(s, c)
    [] c.name = "quest show" -> CmdQuestShow(s, c) [] c.name = "quest answer" -> CmdQuestAnswer(s, c)
    [] c.name = "footage list" -> CmdFootageList(s) [] c.name = "footage show" -> CmdFootageShow(s, c)

Invoked(world, c) == Ended(Run(Fresh(world), c))

\* The first of the three places that is set.
DefaultDir(env) == IF env.ghostr_home # <<>> THEN env.ghostr_home ELSE IF env.data_home # <<>> THEN env.data_home
                   ELSE IF env.home # <<>> THEN env.home ELSE <<"here">>
DirOf(home, env) == IF home # <<>> THEN home ELSE DefaultDir(env)

-----------------------------------------------------------------------------
(* The configuration: lines of glyphs. *)

RECURSIVE StripStart(_, _), StripEnd(_, _), Pieces(_, _)
StripStart(text, glyphs) == IF text # <<>> /\ Head(text) \in glyphs THEN StripStart(Tail(text), glyphs) ELSE text
StripEnd(text, glyphs) == IF text # <<>> /\ Last(text) \in glyphs THEN StripEnd(Front(text), glyphs) ELSE text
Strip(text, glyphs) == StripEnd(StripStart(text, glyphs), glyphs)
Pieces(text, glyph) ==
  LET at == {i \in DOMAIN text : text[i] = glyph}
      first == CHOOSE i \in at : \A j \in at : i <= j
  IN  IF at = {} THEN <<text>> ELSE <<SubSeq(text, 1, first - 1)>> \o Pieces(SubSeq(text, first + 1, Len(text)), glyph)

StringList(value) ==
  LET bare == StripEnd(StripStart(Strip(value, {"sp"}), {"["}), {"]"})
      items == [i \in DOMAIN Pieces(bare, ",") |-> Strip(Strip(Strip(Pieces(bare, ",")[i], {"sp"}), {"quote"}), {"sp"})]
  IN  SelectSeq(items, LAMBDA item : item # <<>>)

Switches == {"auto_anchor", "egress_enabled", "auto_seal"}
Lists == {"egress_allow", "relays", "calendars", "publish_scopes"}
Numbers == {"cutoff_minute_of_day", "seal_grace_hours", "seal_backfill_days"}
Default ==
  [k \in Switches |-> FALSE] @@ [k \in Lists |-> IF k = "calendars" THEN <<<<"calendar">>>> ELSE <<>>]
  @@ [cutoff_minute_of_day |-> 1439, seal_grace_hours |-> 6, seal_backfill_days |-> 30, home_tz |-> <<"UTC">>]

\* What a line gives its key; <<>> refuses the file.
Setting(key, value) ==
  CASE key \in Switches -> <<value = <<"true">>>>
    [] key \in Lists -> <<StringList(value)>> [] key = "home_tz" -> <<value>>
    [] key \in Numbers -> IF Len(value) = 1 /\ value[1] \in DOMAIN Numeral THEN <<Numeral[value[1]]>> ELSE <<>>
    [] OTHER -> <<>>

Blank(line) == Strip(line, {"sp"}) = <<>> \/ Head(Strip(line, {"sp"})) = "#"
KeyOf(line) == Strip(Pieces(line, "=")[1], {"sp"})
ValueOf(line) ==
  LET at == CHOOSE i \in DOMAIN line : line[i] = "=" /\ \A j \in 1..i - 1 : line[j] # "="
  IN  Strip(Strip(SubSeq(line, at + 1, Len(line)), {"sp"}), {"quote"})
RECURSIVE Parsed(_, _)
Parsed(config, lines) ==
  IF lines = <<>> THEN <<config>>
  ELSE IF Blank(Head(lines)) THEN Parsed(config, Tail(lines))
  ELSE IF ~Contains(Head(lines), "=") \/ Len(KeyOf(Head(lines))) # 1 THEN <<>>
  ELSE LET key == KeyOf(Head(lines))[1]
           value == Setting(key, ValueOf(Head(lines)))
       IN  IF value = <<>> THEN <<>> ELSE Parsed([config EXCEPT ![key] = value[1]], Tail(lines))
Parse(lines) == Parsed(Default, lines)
\* No file is the default one.
Load(file) == IF file = <<>> THEN <<Default>> ELSE Parse(file[1])
EnabledScopes(config) == {name \in Scopes : \E i \in DOMAIN config.publish_scopes : config.publish_scopes[i] = <<name>>}

-----------------------------------------------------------------------------

Changing == {"init", "publish_manifest", "revoke", "publish_note", "sync", "restore", "change_passphrase", "ingest", "memoria",
             "issue_quests", "answer_quest", "publish_attestation", "anchor", "upgrade_anchors", "serve", "add_source",
             "sync_sources", "journal_add", "journal_import", "adopt_persona"}
CallsOf(s) == {s.calls[i].op : i \in DOMAIN s.calls}

\* A command that refuses what it was told has changed nothing and sent
\* nothing; one that changed a vault opened it with its passphrase, or made it.
RefusedChangesNothing(world, s) ==
  /\ s.exit[1] = 1 /\ world.failing \cap CallsOf(s) = {} => CallsOf(s) \cap Changing = {}
  /\ CallsOf(s) \ {"init"} # {} => s.calls[1].op = "open"
  /\ s.vault # world.vault => s.exit[1] = 0 /\ CallsOf(s) \cap {"init", "change_passphrase"} # {}
\* The code a script sees is zero only if every check and every call held, and
\* a damaged chain is never a zero.
ExitTells(world, s) ==
  /\ s.exit[1] = 0 => \A i \in DOMAIN s.calls : s.calls[i].op \notin world.failing \/ (s.calls[i].op = "fidelity" /\ world.short)
  /\ "verify" \in CallsOf(s) /\ ~(world.intact.chain /\ world.intact.roots) => s.exit[1] # 0
\* Off this machine the page is served only to one who said --lan; a day is
\* sealed only by the command that says so and nothing else.
OnlyWhatWasSaid(c, s) ==
  \A i \in DOMAIN s.calls :
    /\ s.calls[i].op = "serve" /\ s.calls[i].with.http # <<>> => s.calls[i].with.http[1].host \in Loopback \/ c.lan
    /\ s.calls[i].op = "memoria" => ~c.dry_run /\ ~c.remote
    /\ s.calls[i].op = "adopt_persona" => c.name = "persona adopt" \/ c.adopt
\* main.rs: "the old one no longer opens this vault".
OldNoLongerOpens(world, s) ==
  "the old one no longer opens this vault" \in s.said => s.vault # world.vault

\* The page and the terminal take the same word for the same verdict, and
\* refuse the same; the terminal also takes four short words, and a severity
\* in any case.
SameVerdict(body, PageVerdict(_)) ==
  LET severity == IF body.severity = <<>> THEN "minor" ELSE body.severity[1]
      said == ParseVerdict(body.verdict, body.text, severity)
  IN  /\ PageVerdict(body) # <<>> => said = PageVerdict(body)
      /\ Lowered[severity] = severity /\ body.verdict \notin {"yes", "no", "dunno", "broken"} => said = PageVerdict(body)

\* A switch is on and a scope enabled only if a line of the file says so, the
\* last one that speaks of it; a comment says nothing, and a line with another
\* key may stand before or after.
ConfigSaysWhatIsWritten(lines) ==
  LET config == Parse(lines)
      about(key) == {i \in DOMAIN lines : ~Blank(lines[i]) /\ KeyOf(lines[i]) = <<key>>}
      says(key, text) == \E i \in about(key) : (\A j \in about(key) : j <= i) /\ ValueOf(lines[i]) = text
  IN  /\ config # <<>> =>
           /\ \A key \in Switches : config[1][key] <=> says(key, <<"true">>)
           /\ \A name \in EnabledScopes(config[1]) : \E i \in about("publish_scopes") : Contains(lines[i], name)
           /\ \A i \in DOMAIN lines : ~Blank(lines[i]) => KeyOf(lines[i])[1] \in DOMAIN Default
      /\ \A i \in DOMAIN lines : Blank(lines[i]) => Parse(RemoveAt(lines, i)) = config
      /\ \A i \in 1..Len(lines) - 1 :
           (Blank(lines[i]) \/ Blank(lines[i + 1]) \/ KeyOf(lines[i]) # KeyOf(lines[i + 1])) =>
             Parse([lines EXCEPT ![i] = lines[i + 1], ![i + 1] = lines[i]]) = config
=============================================================================
