--------------------------------- MODULE Rows ---------------------------------
(***************************************************************************)
(* What the database keeps of a memory, a day, a source and a quest, what  *)
(* of it is read back, and the leaves a day commits to.                    *)
(*                                                                         *)
(* A row has columns in the clear and one sealed body, bound to the table  *)
(* and the id it was written under. An optional value is a sequence of at  *)
(* most one; a moment has its milliseconds and the offset it was told in.  *)
(* A ratio counts tenths of the step it is stored in.                      *)
(***************************************************************************)
EXTENDS Integers, FiniteSets, SequencesExt

CONSTANTS RatioScale,   \* the steps of a stored ratio
          ShortLength   \* how much of an id is shown

Seal(dek, table, id, body) == [dek |-> dek, aad |-> <<table, id>>, body |-> body]

OpenRow(dek, table, id, sealed) == IF sealed.dek = dek /\ sealed.aad = <<table, id>> THEN <<sealed.body>> ELSE <<>>

ToFixed(ratio) == (ratio + 5) \div 10
FromFixed(fixed) == 10 * fixed
IsRatio(ratio) == ratio \in 0..(10 * RatioScale)
Failed(error) == [error |-> error]
Read(value) == [error |-> "none", value |-> value]

-----------------------------------------------------------------------------
(* Words in columns. What a build does not know it reads as what lets the  *)
(* least through, or not at all.                                           *)

Sensitivities == <<"public", "private", "secret">>
KindOf(tag) == IF tag \in {"observation", "event", "fact", "relationship", "habit", "location", "artifact"} THEN tag ELSE "utterance"

SensitivityOf(tag) == IF tag \in {"public", "private"} THEN tag ELSE "secret"
TrustOf(tag) == IF tag \in {"first_party", "self_reported"} THEN tag ELSE "third_party"
VersionOf(tag) == IF tag \in {"memories_only", "with_quests"} THEN <<tag>> ELSE <<>>
AnchorStateOf(tag) == IF tag \in {"pending", "confirmed", "failed"} THEN tag ELSE "unanchored"
MayEgress(sensitivity) == sensitivity \in {"public", "private"}
MayBeExemplar(trust) == trust = "first_party"
MaySourceStance(trust) == trust \in {"first_party", "self_reported"}

-----------------------------------------------------------------------------
(* Memories. *)

MemoryRow(dek, memory) ==
  [id |-> memory.id, source |-> memory.source, occurred |-> memory.occurred, ingested |-> memory.ingested,
   kind |-> memory.kind, sensitivity |-> memory.sensitivity, salience |-> ToFixed(memory.salience),
   supersedes |-> memory.supersedes, raw_hash |-> memory.raw_hash, salt |-> <<memory.salt>>, shredded |-> FALSE,
   sealed |-> <<Seal(dek, "memory", memory.id,
                     [text |-> memory.text, structured |-> memory.structured, external_id |-> memory.external_id,
                      url |-> memory.url, entities |-> memory.entities, ghost |-> memory.ghost])>>]
PutMemory(dek, memory) == IF IsRatio(memory.salience) THEN Read(MemoryRow(dek, memory)) ELSE Failed("salience_range")
Shred(row) == [row EXCEPT !.salt = <<>>, !.sealed = <<>>, !.shredded = TRUE]

\* Structure, redactions, entities and the embedding are not read back.
Decrypt(dek, row) ==
  LET opened == OpenRow(dek, "memory", row.id, row.sealed[1]) IN
  IF row.salt = <<>> \/ row.sealed = <<>> THEN Failed("shredded")
  ELSE IF opened = <<>> THEN Failed("row_decrypt_failed")
  ELSE Read([id |-> row.id, source |-> row.source, occurred |-> row.occurred, ingested |-> row.ingested,
             kind |-> KindOf(row.kind), text |-> opened[1].text, structured |-> <<>>, redactions |-> <<>>,
             entities |-> {}, salience |-> FromFixed(row.salience), sensitivity |-> SensitivityOf(row.sensitivity),
             external_id |-> opened[1].external_id, url |-> opened[1].url, raw_hash |-> row.raw_hash,
             ghost |-> opened[1].ghost, salt |-> row.salt[1], supersedes |-> row.supersedes, embedding |-> <<>>])

ById(rows) == SetToSortSeq(rows, LAMBDA a, b : a.id < b.id)
GetMemory(dek, rows, id) ==
  LET at == {row \in rows : row.id = id}
      row == CHOOSE r \in at : TRUE IN
  IF at = {} THEN Read(<<>>) ELSE IF row.shredded THEN Failed("shredded") ELSE Decrypt(dek, row)
\* When it happened, or when it came in.
Dated(row) == IF row.occurred = <<>> THEN row.ingested.ms ELSE row.occurred[1].ms
Among(dek, rows) == [i \in DOMAIN ById(rows) |-> Decrypt(dek, ById(rows)[i])]
Window(dek, rows, from, to) == Among(dek, {row \in rows : ~row.shredded /\ Dated(row) >= from /\ Dated(row) < to})
\* Counts every row, also those that were shredded.
MemoryCount(rows) == Cardinality(rows)

-----------------------------------------------------------------------------
(* Days. *)

FootageRow(dek, footage) ==
  [seq |-> footage.seq, date |-> footage.date, tz |-> footage.tz, from |-> footage.from.ms, to |-> footage.to.ms,
   empty |-> footage.empty, root |-> footage.root, prev |-> footage.prev, link |-> footage.link,
   leaf_count |-> footage.leaf_count, sealed_at |-> footage.sealed_at, version |-> footage.version,
   sealed |-> Seal(dek, "footage", footage.seq, footage.story)]
\* The window comes back in the universal time.
FootageOf(dek, row) ==
  LET opened == OpenRow(dek, "footage", row.seq, row.sealed) IN
  IF opened = <<>> THEN Failed("row_decrypt_failed")
  ELSE IF VersionOf(row.version) = <<>> THEN Failed("newer_version")
  ELSE Read([seq |-> row.seq, date |-> row.date, tz |-> row.tz, from |-> [ms |-> row.from, off |-> 0],
             to |-> [ms |-> row.to, off |-> 0], empty |-> row.empty, story |-> opened[1], root |-> row.root,
             prev |-> row.prev, link |-> row.link, leaf_count |-> row.leaf_count, version |-> VersionOf(row.version)[1],
             sealed_at |-> row.sealed_at])

-----------------------------------------------------------------------------
(* Sources: one row for a kind and a configuration.                        *)

RECURSIVE TrimGlyphs(_)
TrimGlyphs(text) ==
  IF text = <<>> THEN text
  ELSE IF Head(text) = "sp" THEN TrimGlyphs(Tail(text)) ELSE IF Last(text) = "sp" THEN TrimGlyphs(Front(text)) ELSE text
ConfigTag(dek, kind, config) == <<"meta_leaf", dek, kind, TrimGlyphs(config)>>

UpsertSource(rows, dek, new) ==
  LET tag == ConfigTag(dek, new.kind, new.config)
      same == {row \in rows : row.kind = new.kind /\ row.tag = tag} IN
  IF same # {} THEN [rows |-> rows, id |-> (CHOOSE row \in same : TRUE).id]
  ELSE [rows |-> rows \cup {[id |-> new.id, kind |-> new.kind, trust |-> new.trust, sensitivity |-> new.sensitivity,
                             enabled |-> TRUE, cursor |-> "start", tag |-> tag, sealed |-> Seal(dek, "source", new.id, new.config)]},
        id |-> new.id]
StoredSource(dek, row) ==
  LET opened == OpenRow(dek, "source", row.id, row.sealed) IN
  IF opened = <<>> THEN Failed("row_decrypt_failed")
  ELSE Read([id |-> row.id, kind |-> row.kind, trust |-> TrustOf(row.trust), sensitivity |-> SensitivityOf(row.sensitivity),
             enabled |-> row.enabled, cursor |-> row.cursor, config |-> opened[1]])
SetCursor(rows, id, cursor) == {IF row.id = id THEN [row EXCEPT !.cursor = cursor] ELSE row : row \in rows}
\* What came back from a held-out question is never distilled.
SourcesWhere(dek, rows, permitted) ==
  LET all == {StoredSource(dek, row) : row \in rows} IN
  IF \E s \in all : s.error # "none" THEN Failed("row_decrypt_failed")
  ELSE Read({s.value.id : s \in {t \in all : t.value.trust \in permitted /\ t.value.kind # "verdict_holdout"}})
VerdictSource(holdout, id) ==
  [id |-> id, kind |-> IF holdout THEN "verdict_holdout" ELSE "verdict", config |-> <<>>, trust |-> "first_party", sensitivity |-> "private"]

-----------------------------------------------------------------------------
(* Questions. The body has everything; some of it stands in columns too.   *)

QuestRow(dek, quest) ==
  [id |-> quest.id, issued_for |-> quest.issued_for, holdout |-> quest.holdout, decoy |-> quest.decoy,
   status |-> quest.status, answered_at |-> <<>>, committed |-> <<>>, verdict_committed |-> <<>>,
   sealed |-> Seal(dek, "quest", quest.id, quest)]
OpenQuest(dek, row) ==
  LET opened == OpenRow(dek, "quest", row.id, row.sealed) IN
  IF opened = <<>> THEN Failed("row_decrypt_failed") ELSE Read(opened[1])

\* Only one that is still open is answered.
RowAnswered(dek, row, quest, at) ==
  IF row.status # "open" THEN Failed("append_only")
  ELSE Read([row EXCEPT !.status = quest.status, !.answered_at = <<at>>, !.sealed = Seal(dek, "quest", quest.id, quest)])
RowExpired(row, quest, now) == IF row.status = "open" /\ quest.expires_at < now THEN [row EXCEPT !.status = "expired"] ELSE row
RowCommitted(row, seq) == IF row.committed = <<>> THEN [row EXCEPT !.committed = <<seq>>] ELSE row
AnsweredAt(row) == IF row.answered_at = <<>> THEN 0 ELSE row.answered_at[1]
QuestQuery(dek, chosen) == [i \in DOMAIN ById(chosen) |-> OpenQuest(dek, ById(chosen)[i])]
AnsweredQuestQuery(dek, rows) ==
  LET chosen == ById({r \in rows : r.status = "answered"}) IN
  [i \in DOMAIN chosen |-> [quest |-> OpenQuest(dek, chosen[i]), at |-> AnsweredAt(chosen[i])]]
CommittedAt(dek, rows, seq) == QuestQuery(dek, {r \in rows : r.committed = <<seq>>})
VerdictsCommittedAt(dek, rows, seq) == AnsweredQuestQuery(dek, {r \in rows : r.verdict_committed = <<seq>>})

\* A pattern of SQL: % is anything, _ is any glyph.
RECURSIVE Like(_, _)
Like(pattern, text) ==
  IF pattern = <<>> THEN text = <<>>
  ELSE IF Head(pattern) = "%" THEN \E n \in 0..Len(text) : Like(Tail(pattern), SubSeq(text, n + 1, Len(text)))
  ELSE text # <<>> /\ Head(pattern) \in {"_", Head(text)} /\ Like(Tail(pattern), Tail(text))
RECURSIVE Bare(_)
Bare(needle) == IF needle # <<>> /\ Head(needle) = "qst:" THEN Bare(Tail(needle)) ELSE needle

FindQuest(dek, rows, needle) ==
  LET suffix == Bare(TrimGlyphs(needle))
      fits == {row \in rows : Like(<<"%">> \o suffix, row.id)} IN
  IF suffix = <<>> \/ fits = {} THEN Read(<<>>)
  ELSE IF \E row \in fits : OpenQuest(dek, row).error # "none" THEN Failed("row_decrypt_failed")
  ELSE IF Cardinality(fits) > 1 THEN Failed("ambiguous") ELSE Read(<<OpenQuest(dek, CHOOSE row \in fits : TRUE).value>>)
DisplayShort(id) == <<"qst:">> \o SubSeq(id, Len(id) - ShortLength + 1, Len(id))

-----------------------------------------------------------------------------
(* The leaves of a day. *)

MemoryLeaf(memory) ==
  <<"memory", memory.salt, memory.id, memory.text, IF memory.occurred = <<>> THEN <<>> ELSE <<memory.occurred[1].ms>>>>

QuestPayload(quest) ==
  <<quest.id, quest.issued_for, quest.persona, quest.kind, quest.facet, ToFixed(quest.difficulty), ToFixed(quest.confidence),
    quest.commitment, quest.holdout, quest.decoy>>
QuestDigest(quest) ==
  IF IsRatio(quest.difficulty) /\ IsRatio(quest.confidence) THEN Read(<<"quest", quest.leaf_salt, QuestPayload(quest)>>) ELSE Failed("out_of_range")
\* How wrong it was is part of a correction only; what was said instead is not.
SeverityTag(verdict) == IF verdict.type = "correct" THEN <<verdict.severity>> ELSE <<>>
VerdictDigest(quest, at) ==
  IF quest.verdict = <<>> THEN Failed("no_verdict")
  ELSE Read(<<"verdict", quest.verdict_salt, quest.id, quest.verdict[1].type, SeverityTag(quest.verdict[1]), at>>)
QuestDigests(dek, rows, seq) ==
  [i \in DOMAIN CommittedAt(dek, rows, seq) |-> QuestDigest(CommittedAt(dek, rows, seq)[i].value)]
  \o [i \in DOMAIN VerdictsCommittedAt(dek, rows, seq) |->
        VerdictDigest(VerdictsCommittedAt(dek, rows, seq)[i].quest.value, VerdictsCommittedAt(dek, rows, seq)[i].at)]

-----------------------------------------------------------------------------
(* What reading back promises. *)

\* A memory read back is the one that was written, but for what rows do not
\* keep and a salience rounded to a step, so its leaf is the one its day was
\* sealed over and another writing changes nothing more; it opens under its
\* own key and its own id only, and nothing of it is left once it is shredded.
MemoryComesBack(memory, dek, others) ==
  LET put == PutMemory(dek, memory)
      back == Decrypt(dek, put.value) IN
  IF ~IsRatio(memory.salience) THEN put.error # "none"
  ELSE /\ back.error = "none"
       /\ [memory EXCEPT !.structured = <<>>, !.redactions = <<>>, !.entities = {}, !.embedding = <<>>,
                         !.salience = back.value.salience] = back.value
       /\ back.value.salience \in (memory.salience - 5)..(memory.salience + 5)
       /\ MemoryLeaf(back.value) = MemoryLeaf(memory)
       /\ Decrypt(dek, MemoryRow(dek, back.value)) = back
       /\ \A id \in others \ {memory.id} : Decrypt(dek, [put.value EXCEPT !.id = id]).error # "none"
       /\ Decrypt(dek \o dek, put.value).error # "none"
       /\ GetMemory(dek, {Shred(put.value)}, memory.id) = Failed("shredded")
       /\ Window(dek, {Shred(put.value)}, 0, 100) = <<>>

\* A word another build wrote never lets out, speak for or teach more than the
\* strictest this build knows; one it cannot follow at all stops the reading.
ForeignWordsGrantNothing(tag) ==
  /\ tag \notin Range(Sensitivities) => ~MayEgress(SensitivityOf(tag))
  /\ tag \notin {"first_party", "self_reported"} => ~MayBeExemplar(TrustOf(tag)) /\ ~MaySourceStance(TrustOf(tag))
  /\ \A s \in Range(Sensitivities) : SensitivityOf(s) = s

\* A sealed day is read back as it was sealed, but for the offset its window
\* was told in, or not at all.
DayComesBack(footage, dek) ==
  LET row == FootageRow(dek, footage)
      back == FootageOf(dek, row) IN
  /\ footage.version \in {"memories_only", "with_quests"} <=> back.error = "none"
  /\ back.error = "none" => back.value = [footage EXCEPT !.from.off = 0, !.to.off = 0]
  /\ FootageOf(dek, [row EXCEPT !.seq = @ + 1]).error # "none"

\* The same configuration, however it is spaced, is the same source; another
\* kind or configuration is another; what was held out is not a source to learn from.
SourcesAreKept(dek, first, second) ==
  LET one == UpsertSource({}, dek, first)
      two == UpsertSource(one.rows, dek, second)
      same == first.kind = second.kind /\ TrimGlyphs(first.config) = TrimGlyphs(second.config) IN
  /\ (two.id = first.id) <=> same
  /\ \E row \in two.rows : StoredSource(dek, row).value.config = first.config /\ row.id = first.id
  /\ SourcesWhere(dek, SetCursor(two.rows, first.id, "complete"), {t \in {first.trust, second.trust} : MayBeExemplar(t)}).value
       = {s.id : s \in {t \in {first, second} : t.id \in {r.id : r \in two.rows} /\ t.trust = "first_party" /\ t.kind # "verdict_holdout"}}

\* The leaf of a question and that of its verdict are the same whenever they are
\* computed from what is stored: on the day, after the answer, after the expiry.
\* Two questions that differ in anything a score depends on have different
\* leaves, and what was said to correct one is in neither.
LeavesStay(dek, quest, ruling, at, other) ==
  LET row == RowCommitted(QuestRow(dek, quest), 1)
      answered == [quest EXCEPT !.verdict = <<ruling>>, !.status = "answered"]
      later == RowAnswered(dek, row, answered, at)
      expired == RowExpired(row, quest, at) IN
  /\ QuestDigests(dek, {row}, 1) = <<QuestDigest(quest)>>
  /\ QuestDigests(dek, {later.value}, 1) = <<QuestDigest(quest)>>
  /\ QuestDigests(dek, {expired}, 1) = <<QuestDigest(quest)>>
  /\ QuestDigests(dek, {[later.value EXCEPT !.verdict_committed = <<2>>]}, 2) = <<VerdictDigest(answered, at)>>
  /\ RowAnswered(dek, RowExpired(row, quest, quest.expires_at + 1), answered, at).error # "none"
  /\ \A said \in {<<"x">>, <<"y">>} : VerdictDigest([answered EXCEPT !.verdict[1].said = said], at) = VerdictDigest(answered, at)
  /\ LET scored(q) == [q EXCEPT !.difficulty = ToFixed(@), !.confidence = ToFixed(@)] IN
     (scored(other) # scored(quest)) => QuestDigest(other) # QuestDigest(quest)

\* Whatever is typed, it never stands for another question than the one shown
\* so: a name that fits two is refused.
NamesFindTheirOwn(dek, rows) ==
  \A row \in rows : \A needle \in {SubSeq(row.id, i, Len(row.id)) : i \in DOMAIN row.id} \cup {DisplayShort(row.id)} :
    LET found == FindQuest(dek, rows, needle) IN
    found.error = "ambiguous" \/ found.value = <<OpenQuest(dek, row).value>>
===============================================================================
