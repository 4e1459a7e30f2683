------------------------------- MODULE Showing -------------------------------
(***************************************************************************)
(* What the terminal says (ghostr-cli/src/render.rs): which facts of a     *)
(* report its text tells, and under which condition. A text is a sequence  *)
(* of lines, a line its label followed by the facts on it; wording, widths *)
(* and units are left out. Numbers are counts, shares are thousandths.     *)
(***************************************************************************)
EXTENDS Integers, FiniteSets, SequencesExt

When(condition, text) == IF condition THEN text ELSE <<>>
\* A count is told only when there is something to count.
Told(label, count) == When(count > 0, <<<<label, count>>>>)
Each(seq, Text(_)) == FlattenSeq([i \in DOMAIN seq |-> Text(seq[i])])
Labels(text) == {text[i][1] : i \in DOMAIN text}
Lines(text, label) == SelectSeq(text, LAMBDA line : line[1] = label)

-----------------------------------------------------------------------------
(* The vault and its days. *)

\* The words, each with its number, once; and what else there is to back up.
InitText(outcome) ==
  <<<<"vault">>, <<"npub", outcome.npub>>, <<"genesis", outcome.genesis>>>>
    \o When(outcome.mnemonic # <<>>, [i \in DOMAIN outcome.mnemonic |-> <<"word", i, outcome.mnemonic[i]>>]
                                        \o IF outcome.imported THEN <<<<"keep the nsec">>, <<"keep the phrase">>>> ELSE <<<<"keep the phrase">>>>)
IngestText(report) == <<<<"ingested", report.ingested>>>> \o Told("skipped", report.skipped) \o Told("failed", report.failed)

AnchorLabel(anchor) == IF anchor = <<>> THEN "-" ELSE anchor[1].state
CommittedLine(quests, verdicts) == When(quests + verdicts > 0, <<<<"committed", quests, verdicts>>>>)
Sealed(day) == <<<<"sealed", day.seq, day.empty, Len(day.memories)>>, <<"link", day.link>>, <<"prev", day.prev>>>>
FootageList(days, anchors) ==
  IF days = <<>> THEN <<<<"no footage">>>>
  ELSE [i \in 1..(IF Len(days) < Len(anchors) THEN Len(days) ELSE Len(anchors)) |->
          <<"day", days[i].seq, Len(days[i].memories), AnchorLabel(anchors[i]), days[i].link>>]

\* What it committed to is told of every day, the rest of one with memories.
FootageShow(day, quests, verdicts) ==
  <<<<"day", day.seq>>, <<"link", day.link>>, <<"prev", day.prev>>, <<"root", day.root>>>> \o CommittedLine(quests, verdicts)
    \o IF day.empty THEN <<<<"no memories">>>>
       ELSE Each(day.highlights, LAMBDA h : <<<<"highlight", h>>>>)
              \o Each(day.threads, LAMBDA t : <<<<"open thread", t>>>>) \o Told("closed", day.closed)
              \o Each(day.unresolved, LAMBDA u : <<<<"unresolved", u>>>>) \o Each(day.amendments, LAMBDA a : <<<<"amendment", a>>>>)

Recap(recap, quests, verdicts) ==
  IF recap.sealed THEN FootageShow(recap.day, quests, verdicts)
  ELSE <<<<"not sealed yet">>>> \o SelectSeq(FootageShow(recap.day, 0, 0), LAMBDA line : line[1] \notin {"link", "prev", "root"})
ThreadList(threads) ==
  IF threads = <<>> THEN <<<<"no open threads">>>> ELSE <<<<"threads", Len(threads)>>>> \o [i \in DOMAIN threads |-> <<"open thread", threads[i]>>]

AnchorText(record) ==
  CASE record.state = "pending" -> <<<<"submitted", record.seq>>, <<"not yet in a block">>>> [] record.state = "confirmed" -> <<<<"confirmed", record.seq>>>>
    [] record.state = "failed" -> <<<<"not submitted", record.seq, record.attempts>>, <<"the chain is unaffected">>>> [] OTHER -> <<<<"not anchored", record.seq>>>>
Upgrades(report) ==
  IF report.asked = 0 /\ report.abandoned = 0 THEN <<>>
  ELSE Told("confirmed", report.confirmed) \o Told("still waiting", report.still_pending) \o Told("given up", report.abandoned)

\* Slip: what could not be checked is what was checked and held.
RootsByResult(report) == IF ~report.roots_ok THEN <<"roots", "FAILED">> ELSE <<"roots", "OK">>

\* Four answers: a chain that broke first, a root that failed, nothing here to
\* check against, and what was checked.
RootsLine(report) ==
  IF ~report.chain_ok THEN <<"roots", "not checked">>
  ELSE IF ~report.roots_ok THEN <<"roots", "FAILED">>
  ELSE IF report.unchecked = report.days THEN <<"roots", "not checkable">>
  ELSE IF report.unchecked > 0 THEN <<"roots", "OK in part">>
  ELSE <<"roots", "OK">>
VerifyText(report) ==
  IF report.days = 0 THEN <<<<"nothing to verify">>>>
  ELSE <<<<"chain", IF report.chain_ok THEN "OK" ELSE "FAILED">>, RootsLine(report)>>
         \o When(report.first_bad # <<>>, <<<<"first bad", report.first_bad>>>>)
         \o <<<<"anchors", report.anchored, report.pending, IF report.days > report.anchored + report.pending THEN report.days - report.anchored - report.pending ELSE 0>>>>
         \o When(report.pending > 0, <<<<"not yet in a block">>>>)

DeviceLine(device) == <<"device", device.id, CASE device.role = "sealer" -> "sealer" [] device.role = "replica" -> "replica" [] OTHER -> "unrecognised role">>
SwapProtection(pinned, total) ==
  IF total = 0 THEN <<"swap", "no keys">> ELSE IF pinned = total THEN <<"swap", "pinned">> ELSE IF pinned = 0 THEN <<"swap", "nothing is protected">> ELSE <<"swap", "the rest can be swapped">>
\* The one thing to do next.
NextStep(stage) ==
  CASE stage.stage = "empty" -> <<"journal add", "source add">> [] stage.stage = "sources_idle" -> <<"source sync">> [] stage.stage = "building_corpus" -> <<"source add">>
    [] stage.stage = "ready_to_distill" -> <<"persona distill", "persona adopt">> [] stage.stage = "no_open_quests" -> <<"quest issue">> [] OTHER -> <<"quest list", "serve">>
Status(vault) ==
  <<<<"memories", vault.memories>>, <<"tip", vault.tip>>, DeviceLine(vault.device), SwapProtection(vault.pinned, vault.keys), <<"next">> \o NextStep(vault.stage)>>

-----------------------------------------------------------------------------
(* Sources and what left the device. *)

TrustWord(trust) == CASE trust = "first_party" -> "first-party" [] trust = "self_reported" -> "self-reported" [] OTHER -> "third-party"
SensitivityWord(sensitivity) == CASE sensitivity = "public" -> "public" [] sensitivity = "private" -> "private" [] OTHER -> "secret"
SourceAdded(plan) ==
  <<<<"added", plan.kind>>, <<"trust", TrustWord(plan.trust)>>, <<"sensitivity", SensitivityWord(plan.sensitivity)>>>>
    \o When(plan.sensitivity = "secret", <<<<"never leaves this device">>>>) \o <<<<"network", plan.network>>>>
SourceList(sources) ==
  IF sources = <<>> THEN <<<<"no sources">>>>
  ELSE [i \in DOMAIN sources |-> <<"source", sources[i].kind, TrustWord(sources[i].trust), SensitivityWord(sources[i].sensitivity), sources[i].enabled>>]
SourceSync(report) ==
  <<<<"synced", report.sources, report.ingested, report.skipped>>>> \o Told("unparseable", report.unparseable) \o Told("unreachable", report.unreachable)
    \o Told("no relays", report.needs_relays) \o Told("refused", report.rejected)
\* A row of the log is a line, with its reason, its names and its digest if it has them.
EgressLog(records) ==
  IF records = <<>> THEN <<<<"nothing has left">>>>
  ELSE <<<<"decisions", Len(records)>>>>
         \o Each(records, LAMBDA r : <<<<"decision", r.at, r.decision, r.bytes>>>> \o When(r.deny # <<>>, <<<<"reason", r.deny>>>>)
                                        \o Told("pseudonymised", r.entities) \o When(r.digest # <<>>, <<<<"digest", r.digest>>>>))

-----------------------------------------------------------------------------
(* Personas, quests and the score. *)

Most(seq, n) == SubSeq(seq, 1, IF Len(seq) < n THEN Len(seq) ELSE n)
PersonaShow(model) ==
  <<<<"version", model.version, Len(model.derived)>>>> \o When(model.parent # <<>>, <<<<"parent", model.parent>>>>) \o <<<<"voice", model.voice>>>>
    \o IF model.opinions = <<>> THEN <<<<"no opinions">>>>
       ELSE Each(model.opinions, LAMBDA o : <<<<"opinion", o.topic, Len(o.evidence)>>>> \o Told("contradicting", Len(o.against)))
    \o Each(Most(model.people, 10), LAMBDA p : <<<<"person", p>>>>) \o Each(model.routines, LAMBDA r : <<<<"routine", r>>>>)
ChangeWord(kind) == IF kind \in {"added", "removed", "adjusted", "reversed", "contradicted"} THEN kind ELSE "changed"
PersonaDiff(diff) ==
  IF diff.changes = <<>> THEN <<<<"nothing changed">>>>
  ELSE <<<<"changes", Len(diff.changes)>>>> \o Each(diff.changes, LAMBDA c : <<<<"change", ChangeWord(c.kind), c.what>>>> \o When(c.caused_by # <<>>, <<<<"because of", Most(c.caused_by, 4)>>>>))
PersonaCandidate(candidate) ==
  <<<<"proposed", candidate.version>>>> \o PersonaDiff(candidate.diff) \o When(candidate.review, <<<<"read it before adopting">>>>) \o <<<<"adopt with">>>>
PersonaHistory(versions) ==
  IF versions = <<>> THEN <<<<"no persona">>>> ELSE [i \in DOMAIN versions |-> <<"version", versions[i].ordinal, versions[i].head>>]

QuestIssue(issue) == <<<<"issued", Len(issue.issued)>>>> \o Told("closed", issue.expired) \o IF issue.issued = <<>> THEN <<<<"nothing to ask">>>> ELSE <<<<"answer them">>>>
\* What is asked, as the view of it that every screen shares presents it.
Question(kind, shown) == <<<<"question">> \o shown[kind]>>
QuestList(quests, shown) ==
  IF quests = <<>> THEN <<<<"no open quests">>>>
  ELSE Each(quests, LAMBDA q : <<<<"quest", q.id, q.facet, q.kind.type>>>> \o Question(q.kind, shown)) \o <<<<"answer with">>>>

QuestShow(quest, shown) ==
  <<<<"quest", quest.id, quest.facet, quest.kind.type>>, <<"expires", quest.expires>>, <<"asked by", quest.persona>>, <<"commitment", quest.commitment>>>>
    \o Question(quest.kind, shown) \o IF quest.verdict = <<>> THEN <<<<"unanswered">>>> ELSE <<<<"answered", quest.verdict[1]>>, <<"sure", quest.confidence>>>>
QuestAnswered(quest, outcome) ==
  <<<<"sure", quest.confidence>>>> \o When(outcome.decoy_confirmed, <<<<"a decoy">>>>) \o When(outcome.fast, <<<<"fast">>>>)
    \o <<<<"scored", outcome.scored>>>> \o When(outcome.memory, <<<<"in the corpus">>>>) \o When(outcome.delta, <<<<"queued">>>>)

\* One in a hundred is level.
Direction(trend, overall) == IF trend - overall < 10 /\ overall - trend < 10 THEN "level" ELSE IF trend > overall THEN "above" ELSE "below"
FidelityText(score) ==
  <<<<"overall", score.overall, score.sample>>, <<"interval", score.interval>>>>
    \o (IF score.trend = <<>> THEN <<<<"no trend yet">>>> ELSE <<<<"trend", score.trend[1], Direction(score.trend[1], score.overall)>>>>)
    \o <<<<"calibration", score.ece>>, <<"at seq", score.seq>>>> \o Each(score.by_facet, LAMBDA f : <<<<"facet", f.facet, f.score, f.sample>>>>)
    \o <<<<"decoys", score.decoy_rate, score.decoys>>, <<"fast", score.fast>>, <<"streak", score.streak>>, <<"expired", score.expiry>>, <<"converged", score.converged>>>>

-----------------------------------------------------------------------------
(* The listener and what is public. *)

LocalAddresses(hostname) == IF hostname = "" THEN <<"<address>">> ELSE <<hostname>>
FirstUrl(bind, token, loopback, hostname) ==
  IF bind = <<>> THEN <<>> ELSE IF bind[1] \in loopback THEN <<<<bind[1], token>>>> ELSE <<<<LocalAddresses(hostname)[1], token>>>>
ServeBanner(bind, token, loopback, hostname) ==
  <<<<"socket">>>>
    \o IF bind = <<>> THEN <<<<"no browser listener">>>>
       ELSE (IF bind[1] \in loopback THEN <<<<"open", bind[1], token>>, <<"this machine only">>>>
             ELSE <<<<"on the network", bind[1]>>>> \o Each(LocalAddresses(hostname), LAMBDA h : <<<<"open", h, token>>>>))
            \o Each(FirstUrl(bind, token, loopback, hostname), LAMBDA url : <<<<"code">> \o url>>)

ManifestText(m) ==
  <<<<"ghost", m.ghost_pubkey>>, <<"chain", m.chain_id>>, <<"persona", m.ordinal>>, <<"device", IF m.sealing_device = "" THEN "none" ELSE m.sealing_device>>,
    <<"status", IF m.status \in {"active", "suspended", "revoked"} THEN m.status ELSE "unrecognised">>,
    <<"may publish notes", m.policy.may_publish_notes>>, <<"may reply", m.policy.may_reply>>, <<"publishes fidelity", m.policy.publishes_fidelity>>>>
AttestationText(a) ==
  <<<<"score", a.overall>>, <<"bound", a.committed_at_seq, a.link>>, IF a.ots = <<>> THEN <<"no proof yet">> ELSE <<"proof attached">>>>

-----------------------------------------------------------------------------

\* A verifier never overstates: what is said to hold was checked and held, on
\* every day unless it says so, and every day is in one of the counts.
VerifyOverstatesNothing(report) ==
  LET text == VerifyText(report)
      says(label, word) == <<label, word>> \in Range(text)
      told == Lines(text, "anchors") IN
  /\ says("chain", "OK") <=> report.days > 0 /\ report.chain_ok
  /\ says("roots", "OK") => report.chain_ok /\ report.roots_ok /\ report.unchecked = 0
  /\ says("roots", "OK in part") => report.unchecked \in 1..(report.days - 1)
  /\ says("roots", "FAILED") => ~report.roots_ok
  /\ report.days > 0 => told[1][2] + told[1][3] + told[1][4] = report.days
  /\ (~report.chain_ok \/ ~report.roots_ok) /\ report.days > 0 => "first bad" \in Labels(text)

\* Of two open quests that differ in what is hidden the same is shown, and an
\* answered one tells how sure the ghost was.
OpenQuestsStaySealed(quest, other, shown) ==
  LET alike(a, b) == [a EXCEPT !.kind = b.kind, !.confidence = b.confidence, !.decoy = b.decoy, !.holdout = b.holdout] = b IN
  /\ quest.verdict = <<>> /\ alike(quest, other) /\ quest.kind.type = other.kind.type /\ shown[quest.kind] = shown[other.kind]
       => QuestShow(quest, shown) = QuestShow(other, shown) /\ QuestList(<<quest>>, shown) = QuestList(<<other>>, shown)
  /\ "sure" \in Labels(QuestShow(quest, shown)) <=> quest.verdict # <<>>

\* A preview shows no commitment: that of another day would not change it. A
\* sealed day tells all that it committed to, one without memories as well.
PreviewsCommitNothing(recap, quests, verdicts, link) ==
  LET text == Recap(recap, quests, verdicts) IN
  IF ~recap.sealed THEN /\ text = Recap([recap EXCEPT !.day.link = link, !.day.prev = link, !.day.root = link], 0, 0)
                        /\ text[1] = <<"not sealed yet">> /\ "committed" \notin Labels(text)
  ELSE /\ Labels(text) \cap {"link", "prev", "root"} = {"link", "prev", "root"} /\ <<"link", recap.day.link>> \in Range(text)
       /\ "committed" \in Labels(text) <=> quests + verdicts > 0
\* Every pass over a proof is told: the counts add up to what was looked at.
UpgradesAddUp(report) ==
  report.asked = report.confirmed + report.still_pending
    => FoldLeft(LAMBDA n, line : n + line[2], 0, Upgrades(report)) = report.asked + report.abandoned
\* A row for each, in their order, and none of their facts under another's.
NothingIsSkipped(records, days, anchors) ==
  /\ records # <<>> => Len(Lines(EgressLog(records), "decision")) = Len(records)
  /\ Cardinality({i \in DOMAIN records : records[i].deny # <<>>}) = Len(Lines(EgressLog(records), "reason"))
  /\ Len(days) = Len(anchors) /\ days # <<>> =>
       \A i \in DOMAIN days : FootageList(days, anchors)[i][2] = days[i].seq /\ FootageList(days, anchors)[i][4] = AnchorLabel(anchors[i])
\* The token is told only where there is a listener, the warning wherever it is
\* not this machine's alone, and the code is the first address that is told.
BannerIsTold(bind, token, loopback, hostname) ==
  LET text == ServeBanner(bind, token, loopback, hostname) IN
  /\ (\E line \in Range(text) : token \in Range(line)) <=> bind # <<>>
  /\ "on the network" \in Labels(text) <=> bind # <<>> /\ bind[1] \notin loopback
  /\ bind # <<>> => Tail(Lines(text, "code")[1]) = Tail(Lines(text, "open")[1])
\* A score comes with all that qualifies it, and says which way it moves.
FidelityIsNeverBare(score) ==
  LET text == FidelityText(score) IN
  /\ {"overall", "interval", "calibration", "decoys", "expired", "converged"} \subseteq Labels(text)
  /\ "trend" \in Labels(text) <=> "no trend yet" \notin Labels(text)
  /\ \A line \in Range(Lines(text, "trend")) : (line[3] = "above" => line[2] > score.overall) /\ (line[3] = "below" => line[2] < score.overall)
\* A phrase is told whole and in order, and so is what else has to be kept.
PhraseIsTold(outcome) ==
  LET words == Lines(InitText(outcome), "word") IN
  /\ [i \in DOMAIN words |-> words[i][3]] = outcome.mnemonic /\ \A i \in DOMAIN words : words[i][2] = i
  /\ outcome.mnemonic # <<>> => "keep the phrase" \in Labels(InitText(outcome)) /\ ("keep the nsec" \in Labels(InitText(outcome)) <=> outcome.imported)
\* What is public is told before it is: two manifests that differ read differently.
ManifestsAreTold(m, n) == m # n => ManifestText(m) # ManifestText(n)
\* A correction is shown with the day that made it (render.rs:246), and a
\* preview says nowhere that its day sealed (render.rs:591).
AmendmentsAreShown(recap) == \A i \in DOMAIN recap.day.amendments : <<"amendment", recap.day.amendments[i]>> \in Range(Recap(recap, 0, 0))
PreviewSaysNoSeal(recap) == ~recap.sealed => "no memories" \notin Labels(Recap(recap, 0, 0))
=============================================================================
