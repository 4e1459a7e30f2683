-------------------------------- MODULE Reading -------------------------------
(***************************************************************************)
(* What is read out of the store for something else: memories for a        *)
(* prompt, the corpus a model may see, the voice of a persona, and the     *)
(* stage a vault is at.                                                    *)
(*                                                                         *)
(* A memory has an id, an instant (a sequence of at most one), a           *)
(* sensitivity, a salience and the length of its text; a candidate has a   *)
(* similarity too. Ratios and similarities are thousandths.                *)
(***************************************************************************)
EXTENDS Integers, FiniteSets, SequencesExt

CONSTANTS CharsPerToken,
          MinCorpus   \* the memories a persona needs

Between(x, low, high) == IF x < low THEN low ELSE IF x > high THEN high ELSE x
Rank(sensitivity) == CASE sensitivity = "public" -> 0 [] sensitivity = "private" -> 1 [] OTHER -> 2
Lengths(memories) == FoldLeft(LAMBDA n, m : n + m.length, 0, memories)

-----------------------------------------------------------------------------
(* Memories for a prompt. *)

AnyQuery == [ceiling |-> "public", exclude |-> {}, bias |-> 0]
Chars(budget) == CharsPerToken * budget

\* How old a memory is, between the oldest and the newest of all candidates.
Recency(candidate, all) ==
  LET times == {all[i].at[1] : i \in {j \in DOMAIN all : all[j].at # <<>>}}
      Oldest == CHOOSE t \in times : \A u \in times : t <= u
      Newest == CHOOSE t \in times : \A u \in times : u <= t IN
  IF times = {} \/ candidate.at = <<>> THEN 0
  ELSE IF Newest = Oldest THEN 0 ELSE (1000 * (candidate.at[1] - Oldest)) \div (Newest - Oldest)
\* Millionths.
Score(query, candidate, all) ==
  LET similarity == IF candidate.similarity = <<>> THEN 0 ELSE Between(candidate.similarity[1], -1000, 1000)
      bias == Between(query.bias, 0, 1000) IN
  (1000 - bias) * similarity + bias * Recency(candidate, all) + candidate.salience

Eligible(query, candidate) == Rank(candidate.sensitivity) <= Rank(query.ceiling) /\ candidate.id \notin query.exclude

Better(query, all, a, b) ==
  Score(query, a, all) > Score(query, b, all) \/ (Score(query, a, all) = Score(query, b, all) /\ a.id < b.id)
\* Stable, as the sort of the code is.
RECURSIVE Sorted(_, _, _)
Sorted(query, all, kept) ==
  IF kept = <<>> THEN <<>>
  ELSE LET first == CHOOSE i \in DOMAIN kept :
                      /\ \A j \in DOMAIN kept : ~Better(query, all, kept[j], kept[i])
                      /\ \A j \in 1..(i - 1) : \E k \in DOMAIN kept : Better(query, all, kept[k], kept[j]) IN
       <<kept[first]>> \o Sorted(query, all, RemoveAt(kept, first))

\* Whole memories only; a shorter one behind may still fit.
Take(taken, memory, chars) ==
  IF taken.used + memory.length > chars THEN taken ELSE [taken EXCEPT !.used = @ + memory.length, !.out = Append(@, memory)]
\* Slip: what may not be shown is looked at until it is chosen.
SelectThenFilter(query, candidates, budget) ==
  SelectSeq(FoldLeft(LAMBDA taken, m : Take(taken, m, Chars(budget)), [used |-> 0, out |-> <<>>, full |-> FALSE],
                     Sorted(query, candidates, candidates)).out, LAMBDA c : Eligible(query, c))

Select(query, candidates, budget) ==
  FoldLeft(LAMBDA taken, m : Take(taken, m, Chars(budget)), [used |-> 0, out |-> <<>>, full |-> FALSE],
           Sorted(query, candidates, SelectSeq(candidates, LAMBDA c : Eligible(query, c)))).out
Cost(memories) == Lengths(memories) \div CharsPerToken

-----------------------------------------------------------------------------
(* What a model may see. *)

Visible(memories) == SelectSeq(memories, LAMBDA m : m.sensitivity # "secret")
\* No question is written when there is nothing to show, no model or no runtime.
WrittenQuests(memories, model, written) == IF Visible(memories) = <<>> \/ ~model THEN <<>> ELSE written[Visible(memories)]
DryRunRemote(memories, model, request) ==
  IF ~model THEN [error |-> "no_model"]
  ELSE [error |-> "none", memories |-> Len(memories), withheld |-> Len(memories) - Len(Visible(memories)),
        notes |-> [i \in DOMAIN Visible(memories) |-> request[Visible(memories)[i]]]]

\* The text of each exemplar that is still there; what cannot be read stops it.
VoiceExemplars(exemplars, texts) ==
  LET kept == SelectSeq(exemplars, LAMBDA id : texts[id] \notin {"missing", "shredded"}) IN
  IF \E i \in DOMAIN kept : texts[kept[i]] = "unreadable" THEN [error |-> "unreadable"]
  ELSE [error |-> "none", out |-> [i \in DOMAIN kept |-> <<kept[i], texts[kept[i]]>>]]

-----------------------------------------------------------------------------
(* The stage of a vault. *)

Stage(vault) ==
  IF vault.memories = 0 THEN IF vault.sources = 0 THEN [stage |-> "empty"] ELSE [stage |-> "sources_idle", sources |-> vault.sources]
  ELSE IF vault.memories < MinCorpus THEN [stage |-> "building_corpus", have |-> vault.memories]
  ELSE IF ~vault.persona THEN [stage |-> "ready_to_distill"]
  ELSE IF vault.open = 0 THEN [stage |-> "no_open_quests"] ELSE [stage |-> "answering", open |-> vault.open]

\* A persona is made of what its owner said.
Distill(vault) == IF vault.own < MinCorpus THEN vault ELSE [vault EXCEPT !.persona = TRUE]

-----------------------------------------------------------------------------
(* What reading promises. *)

\* Nothing above the ceiling and nothing excluded is selected; the budget
\* holds, and nothing that would still fit is left out; the order candidates
\* come in makes no difference.
SelectionIsFair(query, candidates, budget) ==
  LET chosen == Select(query, candidates, budget)
      left == {c \in Range(candidates) : Rank(c.sensitivity) <= Rank(query.ceiling) /\ c.id \notin query.exclude} \ Range(chosen)
      turned == Reverse(candidates) IN
  /\ \A c \in Range(chosen) : Rank(c.sensitivity) <= Rank(query.ceiling) /\ c.id \notin query.exclude
  /\ Lengths(chosen) <= CharsPerToken * budget /\ Cost(chosen) <= budget
  /\ \A c \in left : Lengths(chosen) + c.length > CharsPerToken * budget
  /\ Select(query, turned, budget) = chosen
  /\ Select(AnyQuery, candidates, budget) = SelectSeq(Select(AnyQuery, candidates, budget), LAMBDA c : c.sensitivity = "public")

\* What is not selected had no part in it: without it the same is selected
\* (retrieval.rs: both filters run before any scoring).
ExcludedHasNoPart(query, candidates, budget) ==
  Select(query, SelectSeq(candidates, LAMBDA c : Eligible(query, c)), budget) = Select(query, candidates, budget)

\* A secret is in no prompt, and all that is not in one is counted as withheld.
SecretsAreWithheld(memories) ==
  LET ids == [seq \in {memories, Visible(memories)} |-> [i \in DOMAIN seq |-> seq[i].id]]
      dry == DryRunRemote(memories, TRUE, [m \in Range(memories) |-> m.id])
      secret == {m.id : m \in {n \in Range(memories) : n.sensitivity = "secret"}} IN
  /\ Range(WrittenQuests(memories, TRUE, ids)) \cap secret = {}
  /\ Range(dry.notes) \cup secret = Range(ids[memories]) /\ Range(dry.notes) \cap secret = {}
  /\ Len(dry.notes) + dry.withheld = dry.memories

\* The exemplars keep their order, and one that was shredded is left out, not
\* the rest with it.
VoiceSurvivesShredding(exemplars, texts) ==
  LET voice == VoiceExemplars(exemplars, texts) IN
  IF \E i \in DOMAIN exemplars : texts[exemplars[i]] = "unreadable" THEN voice.error = "unreadable"
  ELSE [i \in DOMAIN voice.out |-> voice.out[i][1]] = SelectSeq(exemplars, LAMBDA id : texts[id] = "text")

\* Doing what a stage asks for leads to another stage, or to more of what it
\* counts.
Follow(vault) ==
  CASE Stage(vault).stage = "empty" -> [vault EXCEPT !.sources = @ + 1]
    [] Stage(vault).stage \in {"sources_idle", "building_corpus"} -> [vault EXCEPT !.memories = @ + 1, !.own = @ + 1]
    [] Stage(vault).stage = "ready_to_distill" -> Distill(vault)
    [] Stage(vault).stage = "no_open_quests" -> [vault EXCEPT !.open = @ + 1]
    [] OTHER -> [vault EXCEPT !.open = @ - 1]
AdviceLeadsOn(vault) == Stage(Follow(vault)) # Stage(vault)
===============================================================================
