------------------------------ MODULE Questions ------------------------------
(***************************************************************************)
(* What the generator asks in a day: the drafts each facet supports, the   *)
(* order the facets are probed in, the rounds that fill the batch, the     *)
(* gap of a cloze, and what a screen may show of a quest before its        *)
(* verdict.                                                                *)
(*                                                                         *)
(* Texts are values that are only compared. A word is a record of its      *)
(* letters (a set of names, so that "inform" contains "form") and of the   *)
(* mark in front of it. Ratios are thousandths.                            *)
(***************************************************************************)
EXTENDS Integers, FiniteSets, SequencesExt

CONSTANT MinClozeWords

Facets == <<"lore", "opinion", "relationship", "routine", "voice">>
Modelled == {"voice_probe", "counterfactual", "prediction"}
Clamp(x) == IF x < 0 THEN 0 ELSE IF x > 1000 THEN 1000 ELSE x
Fewest == 3
Most == 10

-----------------------------------------------------------------------------
(* The quest kinds. Every kind is a record with the fields below; the      *)
(* answer is read back off the kind.                                       *)

\* The answer a commitment is over.
CommittedAnswer(kind) ==
  CASE kind.type \in {"voice_probe", "counterfactual"} -> kind.says
    [] kind.type \in {"fact_recall", "prediction"} -> kind.claim
    [] kind.type = "preference" -> IF kind.choice = "a" THEN kind.a ELSE kind.b
    [] kind.type = "cloze" -> kind.word

\* Whether the answer is the question.
RevealsUpfront(kind) == kind.type \notin {"cloze", "preference"}

-----------------------------------------------------------------------------
(* A cloze. A line is a sequence of words, or a formatted line.            *)

Stopword(word) == word.letters \subseteq {"with"}

\* The longest sentence of the note, the last of those that are longest.
PickSentence(lines) ==
  LET long == {i \in DOMAIN lines : ~lines[i].formatted /\ Len(lines[i].words) >= MinClozeWords} IN
  IF long = {} THEN <<>>
  ELSE lines[CHOOSE i \in long : \A j \in long :
               \/ Len(lines[j].words) < Len(lines[i].words)
               \/ Len(lines[j].words) = Len(lines[i].words) /\ j <= i].words

Occurs(word, sentence) == {i \in DOMAIN sentence : word.letters \subseteq sentence[i].letters}

\* The words worth asking about.
Askable(sentence) ==
  {i \in DOMAIN sentence :
     /\ sentence[i].long /\ ~Stopword(sentence[i])
     /\ sentence[i].mark \notin {"at", "hash"}
     /\ Cardinality(Occurs(sentence[i], sentence)) = 1}

\* The middle one of them; 0 when there is none.
PickWord(sentence) ==
  LET askable == SetToSortSeq(Askable(sentence), <) IN
  IF askable = <<>> THEN 0 ELSE askable[Len(askable) \div 2 + 1]

Cloze(lines) ==
  LET sentence == PickSentence(lines)
      at == PickWord(sentence) IN
  IF sentence = <<>> \/ at = 0 THEN <<>>
  ELSE <<[type |-> "cloze", context |-> sentence, start |-> at - 1, end |-> at, word |-> sentence[at].letters]>>

\* The sentence around its gap; nothing at all for a gap that is not in it.
SplitAtGap(context, start, end) ==
  IF start > end \/ end > Len(context) THEN <<>>
  ELSE <<SubSeq(context, 1, start), SubSeq(context, end + 1, Len(context))>>

\* What a screen may show before the verdict.
Present(kind) ==
  CASE kind.type \in {"voice_probe", "counterfactual"} -> <<"assertion", kind.prompt, kind.says>>
    [] kind.type \in {"fact_recall", "prediction"} -> <<"claim", kind.claim, kind.when>>
    [] kind.type = "preference" -> <<"choice", kind.a, kind.b>>
    [] kind.type = "cloze" ->
         LET split == SplitAtGap(kind.context, kind.start, kind.end) IN
         IF split = <<>> THEN <<"unrenderable">> ELSE <<"gap", split[1], split[2]>>

\* Which option was picked, once there is a verdict.
RevealedChoice(kind) == IF kind.type = "preference" THEN kind.choice ELSE "none"

-----------------------------------------------------------------------------
(* The drafts of a facet. ctx has the persona's facets, the exemplars (the *)
(* clozes of their texts), the model's drafts, the day and what is open.   *)

Draft(kind, facet, difficulty, confidence, evidence) ==
  [kind |-> kind, facet |-> facet, difficulty |-> difficulty,
   confidence |-> confidence, evidence |-> evidence]

\* The boundary where the output of a model stops being trusted.
IsAdmissible(draft) ==
  /\ draft.kind.type \in Modelled
  /\ draft.evidence # {}
  /\ CommittedAnswer(draft.kind) # <<>>

\* A stance, a routine and a fact as questions.
Preference(stance) ==
  Draft([type |-> "preference", a |-> stance.says, b |-> <<"not">> \o stance.says, choice |-> "a"],
        "opinion", 1000 - Clamp(stance.strength), Clamp(stance.strength), stance.evidence)
Recall(claim, facet, fact, date) ==
  Draft([type |-> "fact_recall", claim |-> claim, when |-> date],
        facet, 1000 - Clamp(fact.strength), Clamp(fact.strength), fact.evidence)

Supported(facts) == SelectSeq(facts, LAMBDA fact : fact.evidence # {})
Map(Op(_), seq) == [i \in DOMAIN seq |-> Op(seq[i])]

MechanicalFor(ctx, facet) ==
  CASE facet = "opinion" -> Map(Preference, Supported(ctx.opinion))
    [] facet = "routine" ->
         Map(LAMBDA r : Recall(<<"back to">> \o r.says, facet, r, ctx.date), Supported(ctx.routine))
    [] facet = "lore" -> Map(LAMBDA l : Recall(l.says, facet, l, ctx.date), Supported(ctx.lore))
    [] facet = "voice" ->
         Map(LAMBDA e : Draft(e.cloze[1], facet, 300, 600, {e.id}),
             SelectSeq(ctx.exemplars, LAMBDA e : e.cloze # <<>>))
    [] facet = "relationship" -> <<>>

\* Those of the model come first: they are the harder questions.
CandidatesFor(ctx, facet) ==
  SelectSeq(ctx.drafts, LAMBDA d : d.facet = facet /\ IsAdmissible(d)) \o MechanicalFor(ctx, facet)

-----------------------------------------------------------------------------
(* The batch.                                                              *)

\* A facet with less behind it is probed first; names break ties. Fatigue
\* scales every facet alike.
EvidenceCount(ctx, facet) ==
  CASE facet = "voice" -> ctx.voice [] facet = "opinion" -> Len(ctx.opinion)
    [] facet = "routine" -> Len(ctx.routine) [] facet = "lore" -> Len(ctx.lore)
    [] facet = "relationship" -> ctx.relationship
Prioritise(ctx) ==
  LET Count(i) == EvidenceCount(ctx, Facets[i]) IN
  Map(LAMBDA i : Facets[i],
      SortSeq(<<1, 2, 3, 4, 5>>,
              LAMBDA i, j : Count(i) < Count(j) \/ (Count(i) = Count(j) /\ i < j)))

DailyCount(rate) == Fewest + ((Most - Fewest) * Clamp(rate) + 500) \div 1000

\* Slip: what is asked is not remembered within the batch.
TurnForgets(batch, i, n) ==
  LET drafts == batch.left[i]
      fresh == {k \in DOMAIN drafts : CommittedAnswer(drafts[k].kind) \notin batch.asked} IN
  IF Len(batch.out) >= n \/ fresh = {} THEN batch
  ELSE [batch EXCEPT !.out = Append(@, drafts[Min(fresh)]), !.left[i] = RemoveAt(@, Min(fresh))]

\* One facet's turn in a round: its first draft that repeats nothing, or none
\* any more.
Turn(batch, i, n) ==
  LET drafts == batch.left[i]
      fresh == {k \in DOMAIN drafts : CommittedAnswer(drafts[k].kind) \notin batch.asked}
      k == Min(fresh) IN
  IF Len(batch.out) >= n THEN batch
  ELSE IF fresh = {} THEN [batch EXCEPT !.left[i] = <<>>]
  ELSE [batch EXCEPT !.out = Append(@, drafts[k]),
                     !.left[i] = RemoveAt(@, k),
                     !.asked = @ \cup {CommittedAnswer(drafts[k].kind)}]

RECURSIVE Rounds(_, _)
Rounds(batch, n) ==
  LET next == FoldLeft(LAMBDA b, i : Turn(b, i, n), batch, [i \in DOMAIN batch.left |-> i]) IN
  IF Len(batch.out) >= n \/ Len(next.out) = Len(batch.out) THEN next ELSE Rounds(next, n)

Generate(ctx, n) ==
  Rounds([out |-> <<>>, asked |-> ctx.avoid,
          left |-> SelectSeq(Map(LAMBDA f : CandidatesFor(ctx, f), Prioritise(ctx)),
                             LAMBDA drafts : drafts # <<>>)], n).out

\* Identity, the two draws, and the commitment over the answer of the kind.
CommitAnswer(quest, answer, confidence) == <<"quest_answer", quest.id, answer, confidence, quest.nonce>>
VerifyCommitment(quest, answer, confidence) ==
  CommitAnswer(quest, answer, confidence) = quest.commitment
Finish(ctx, draft, index, drawn) ==
  LET quest == [id |-> <<ctx.now + index, drawn.random>>, nonce |-> drawn.nonce,
                issued_for |-> ctx.date, kind |-> draft.kind, facet |-> draft.facet,
                difficulty |-> Clamp(draft.difficulty), confidence |-> Clamp(draft.confidence),
                evidence |-> draft.evidence,
                holdout |-> drawn.first, decoy |-> ~drawn.first /\ drawn.second] IN
  quest @@ [commitment |-> CommitAnswer(quest, CommittedAnswer(draft.kind), quest.confidence)]

-----------------------------------------------------------------------------
(* Engagement. days are those with an answer, newest first.                *)
CompletionRate(issued, answered) == IF issued = 0 THEN 1000 ELSE (1000 * answered) \div issued

Streak(days, today) ==
  IF days = <<>> \/ today - days[1] > 1 THEN 0
  ELSE Max({n \in DOMAIN days : \A i \in 2..n : days[i-1] - days[i] = 1})

-----------------------------------------------------------------------------
(* What a batch promises.                                                  *)

Answers(batch) == {CommittedAnswer(batch[i].kind) : i \in DOMAIN batch}
Of(batch, facet) == Cardinality({i \in DOMAIN batch : batch[i].facet = facet})
Exhausted(ctx, facet, batch) ==
  \A i \in DOMAIN CandidatesFor(ctx, facet) :
    CommittedAnswer(CandidatesFor(ctx, facet)[i].kind) \in Answers(batch) \cup ctx.avoid

\* No answer is asked for twice, in the batch or while it is still open; a
\* batch is short only when nothing else can be asked; and no facet is ever
\* two questions behind another while it has one left (generate.rs: "taken
\* one at a time and cycled, not drained").
FairBatch(ctx, n) ==
  LET batch == Generate(ctx, n)
      facets == Range(Facets) IN
  /\ Len(batch) <= n
  /\ Cardinality(Answers(batch)) = Len(batch)
  /\ Answers(batch) \cap ctx.avoid = {}
  /\ \A i \in DOMAIN batch : batch[i].evidence # {}
  /\ Len(batch) < n => \A f \in facets : Exhausted(ctx, f, batch)
  /\ \A k \in 0..Len(batch), f, g \in facets :
       LET sofar == SubSeq(batch, 1, k) IN
       Of(sofar, f) + 1 < Of(sofar, g) => Exhausted(ctx, f, sofar)

\* The word a cloze asks for can be read nowhere in what is shown of it
\* (generate.rs: "the ghost's committed answer would then be a word the user
\* can still see").
SealedAnswer(lines) ==
  \A i \in DOMAIN Cloze(lines) :
    LET kind == Cloze(lines)[i]
        shown == Present(kind) IN
    /\ shown[1] = "gap"
    /\ \A word \in Range(shown[2] \o shown[3]) : ~(CommittedAnswer(kind) \subseteq word.letters)
=============================================================================
