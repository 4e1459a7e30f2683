------------------------------- MODULE Voice --------------------------------
(***************************************************************************)
(* The measured voice of a person: rates over the words and the sentences  *)
(* of what they wrote themselves. A memory is a record of an id and of its *)
(* sentences; a sentence has its words, its end ("." or "" for none), and  *)
(* whether it starts in lower case; a word has its spelling, its length,   *)
(* the lists of the detector it is on, and its marks (a comma, an emoji, a *)
(* dash, an ellipsis). Ratios are thousandths, rates per thousand words.   *)
(***************************************************************************)
EXTENDS Integers, FiniteSets, SequencesExt

CONSTANTS MaxTics, MaxExemplars, MinExemplarWords

Clamp(x) == IF x < 0 THEN 0 ELSE IF x > 1000 THEN 1000 ELSE x
Map(Op(_), seq) == [i \in DOMAIN seq |-> Op(seq[i])]
Total(seq) == FoldLeft(LAMBDA sum, x : sum + x, 0, seq)
Share(part, whole) == IF whole = 0 THEN 0 ELSE (1000 * part) \div whole

Sentences(corpus) == FlattenSeq(Map(LAMBDA m : m.sentences, corpus))
Words(corpus) == FlattenSeq(Map(LAMBDA s : s.words, Sentences(corpus)))
Length(memory) == Total(Map(LAMBDA s : Len(s.words), memory.sentences))
Count(Test(_), seq) == Len(SelectSeq(seq, Test))

\* How often each spelling was written.
WordCounts(corpus) ==
  LET words == Words(corpus) IN
  [spelling \in {words[i].spelling : i \in DOMAIN words} |->
     Count(LAMBDA w : w.spelling = spelling, words)]

\* One of two opposite habits: even without evidence, never at an end.
Axis(a, b) == Clamp((1000 * (a + 3)) \div (a + b + 6))

\* A habit per word, damped for a corpus of few words.
Density(hits, total, scale) == Clamp((1000 * hits * scale) \div (total + 200))

Register(corpus) ==
  LET words == Words(corpus)
      total == Len(words)
      Hits(list) == Count(LAMBDA w : list \in w.lists, words)
      Rate(list) == Share(Hits(list), total) IN
  [formality |-> Axis(Rate("formal"), Rate("casual")),
   warmth |-> Axis(Rate("warm"), Rate("cool")),
   hedging |-> Density(Hits("hedge"), total, 25),
   profanity |-> Density(Hits("profane"), total, 200)]

\* The words used more than once, the most frequent first, names breaking
\* ties: a spelling is a number here, in their order.
Lexicon(corpus) ==
  LET words == Words(corpus)
      counts == WordCounts(corpus)
      tics == {w.spelling : w \in {words[i] : i \in {j \in DOMAIN words :
                 counts[words[j].spelling] > 1 /\ words[j].long /\ "stop" \notin words[j].lists}}}
      before(a, b) == counts[a] > counts[b] \/ (counts[a] = counts[b] /\ a < b)
      ranked == SetToSortSeq(tics, before)
      Rate(tic) == Share(counts[tic], Len(words)) IN
  Map(LAMBDA tic : [phrase |-> tic, rate |-> Rate(tic), distinctiveness |-> Clamp(100 * Rate(tic))],
      SubSeq(ranked, 1, IF Len(ranked) < MaxTics THEN Len(ranked) ELSE MaxTics))

\* The mean in tenths, the variance (the source keeps its root), clauses per
\* sentence and the sentences of less than four words.
Syntax(corpus) ==
  LET lengths == Map(LAMBDA s : Len(s.words), Sentences(corpus))
      n == Len(lengths)
      mean == (10 * Total(lengths)) \div n IN
  IF n = 0 THEN [mean |-> 0, variance |-> 0, clauses |-> 0, fragments |-> 0]
  ELSE [mean |-> mean,
        variance |-> Total(Map(LAMBDA l : (10 * l - mean) * (10 * l - mean), lengths)) \div n,
        clauses |-> (10 * (Count(LAMBDA w : "comma" \in w.marks, Words(corpus))
                             + Count(LAMBDA w : "clause" \in w.lists, Words(corpus)))) \div n,
        fragments |-> Share(Count(LAMBDA l : l < 4, lengths), n)]

Punctuation(corpus) ==
  LET words == Words(corpus)
      sentences == Sentences(corpus)
      Rate(mark) == Share(Count(LAMBDA w : mark \in w.marks, words), Len(words)) IN
  [dashes |-> Rate("dash"), emoji |-> Rate("emoji"), ellipses |-> Rate("ellipsis"),
   lowercase |-> Share(Count(LAMBDA s : s.lower, sentences), Len(sentences)),
   unterminated |-> Share(Count(LAMBDA s : s.end = "", sentences), Len(sentences))]

\* The longest notes, ids breaking ties.
Exemplars(corpus) ==
  LET candidates == SelectSeq(corpus, LAMBDA m : Length(m) >= MinExemplarWords)
      ranked == SortSeq(candidates, LAMBDA a, b : Length(a) > Length(b) \/ (Length(a) = Length(b) /\ a.id < b.id)) IN
  Map(LAMBDA m : m.id, SubSeq(ranked, 1, IF Len(ranked) < MaxExemplars THEN Len(ranked) ELSE MaxExemplars))

Profile(corpus) ==
  [register |-> Register(corpus), lexicon |-> Lexicon(corpus), syntax |-> Syntax(corpus),
   punctuation |-> Punctuation(corpus), exemplars |-> Exemplars(corpus)]

-----------------------------------------------------------------------------
(* What the measurement promises.                                          *)

\* Two runs over one corpus, listed in whatever order, measure one voice
\* (voice.rs: "exact, reproducible");
\* a note written twice over says nothing new about how formal its author is.
StableVoice(corpus) ==
  /\ \A order \in {o \in [DOMAIN corpus -> DOMAIN corpus] : \A i, j \in DOMAIN o : o[i] = o[j] => i = j} :
       Profile([i \in DOMAIN corpus |-> corpus[order[i]]]) = Profile(corpus)
  /\ LET twice == Register(corpus \o corpus) IN
     /\ twice.formality = Register(corpus).formality /\ twice.warmth = Register(corpus).warmth
     /\ twice.hedging >= Register(corpus).hedging
=============================================================================
