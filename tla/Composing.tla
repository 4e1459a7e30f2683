----------------------------- MODULE Composing ------------------------------
(***************************************************************************)
(* From the notes of a day to the draft of its footage: the markers a note *)
(* is read for, its mood, its summary, what a day makes of its notes, and  *)
(* what a draft is checked for before it is sealed.                        *)
(*                                                                         *)
(* A note has an id, a salience and a text. A text is a sequence of lines, *)
(* a line a box ("none", "open", "done") and words; a word has its text,   *)
(* its sigil ("at", "hash", "none"), the moods of the lexicon it is in, a  *)
(* marker found in it ("none", "todo", "done:") with the rest of the word  *)
(* behind it, and what follows it ("none", "stop", "ask"). Lengths count   *)
(* words; ratios are thousandths.                                          *)
(***************************************************************************)
EXTENDS Integers, FiniteSets, SequencesExt

CONSTANTS MaxHighlights, SummaryLength, FullSummary

Clamp(x, low, high) == IF x < low THEN low ELSE IF x > high THEN high ELSE x
Map(Op(_), seq) == [i \in DOMAIN seq |-> Op(seq[i])]
Total(seq) == FoldLeft(LAMBDA sum, x : sum + x, 0, seq)
First(seq, n) == SubSeq(seq, 1, IF Len(seq) < n THEN Len(seq) ELSE n)
PushUnique(seq, title) == IF title = <<>> \/ title \in Range(seq) THEN seq ELSE Append(seq, title)

Texts(words) == Map(LAMBDA w : w.text, words)
Words(text) == FlattenSeq(Map(LAMBDA line : line.words, text))

-----------------------------------------------------------------------------
(* What a note is read for.                                                *)

\* The title behind a marker: the rest of its word and the words after it.
Behind(words, marker) ==
  LET at == Min({i \in DOMAIN words : words[i].marker = marker}) IN
  words[at].rest \o Texts(SubSeq(words, at + 1, Len(words)))
Mentions(words, marker) == \E i \in DOMAIN words : words[i].marker = marker

OpensThread(line) ==
  CASE line.box = "open" -> Texts(line.words)
    [] line.box = "none" /\ Mentions(line.words, "todo") -> Behind(line.words, "todo")
    [] OTHER -> <<>>
ClosesLoop(line) ==
  CASE line.box = "done" -> Texts(line.words)
    [] line.box = "none" /\ ~Mentions(line.words, "todo") /\ Mentions(line.words, "done:") ->
         Behind(line.words, "done:")
    [] OTHER -> <<>>
Asks(line) ==
  IF Len(line.words) > 2 /\ Last(line.words).follows = "ask" THEN Texts(line.words) ELSE <<>>

Named(words, sigil) ==
  FoldLeft(LAMBDA out, w : IF w.sigil = sigil THEN PushUnique(out, <<w.text>>) ELSE out, <<>>, words)

\* Whatever stands between two brackets and the next two closing ones.
WikiLinks(words) ==
  FoldLeft(LAMBDA state, w :
             CASE ~state.in /\ w.text = "[[" -> [state EXCEPT !.in = TRUE, !.name = <<>>]
               [] ~state.in -> state
               [] w.text = "]]" -> [state EXCEPT !.in = FALSE, !.out = PushUnique(@, state.name)]
               [] OTHER -> [state EXCEPT !.name = Append(@, w.text)],
           [in |-> FALSE, name |-> <<>>, out |-> <<>>], words).out

\* How many words of the lexicon the mood rests on is kept with it.
MoodOf(words) ==
  LET Feels(mood) == Len(SelectSeq(words, LAMBDA w : mood \in w.moods))
      matches == Feels("good") + Feels("bad") IN
  IF matches = 0 THEN [valence |-> 0, arousal |-> 0, matches |-> 0]
  ELSE [valence |-> (1000 * (Feels("good") - Feels("bad"))) \div matches,
        arousal |-> Clamp((1000 * Feels("high")) \div matches, 0, 1000), matches |-> matches]

Extract(text) ==
  LET Collect(Of(_)) == FoldLeft(LAMBDA out, line : PushUnique(out, Of(line)), <<>>, text) IN
  [closed_loops |-> Collect(ClosesLoop), open_threads |-> Collect(OpensThread),
   questions |-> Collect(Asks), people |-> Named(Words(text), "at"),
   topics |-> Named(Words(text), "hash"), links |-> WikiLinks(Words(text)), mood |-> MoodOf(Words(text))]

\* What a model extracted stands in for that, clamped; a mood rests on as many
\* matches as there are names.
IntoExtraction(said) ==
  [closed_loops |-> said.closed_loops, open_threads |-> said.open_threads, questions |-> said.questions,
   people |-> said.people, topics |-> said.topics, links |-> <<>>,
   mood |-> [valence |-> Clamp(said.valence, -1000, 1000), arousal |-> Clamp(said.arousal, 0, 1000),
             matches |-> Len(said.people) + Len(said.topics)]]

\* The day's mood, each note weighing what it matched.
CombineMood(moods) ==
  LET total == Total(Map(LAMBDA m : m.matches, moods))
      Mean(field) == Total(Map(LAMBDA m : m[field] * m.matches, moods)) \div total
      valence == Mean("valence") IN
  IF total = 0 THEN [valence |-> 0, arousal |-> 0, labels |-> {}, confidence |-> 0]
  ELSE [valence |-> Clamp(valence, -1000, 1000), arousal |-> Clamp(Mean("arousal"), 0, 1000),
        labels |-> {IF valence > 250 THEN "positive" ELSE IF valence < -250 THEN "negative" ELSE "mixed"}
                     \cup (IF Mean("arousal") > 500 THEN {"high-energy"} ELSE {}),
        confidence |-> Clamp(100 * total, 0, 1000)]

-----------------------------------------------------------------------------
(* A summary: the leading sentences, whole ones, until there is something. *)

Sentences(text) ==
  LET Split(line) ==
        FoldLeft(LAMBDA s, w :
                   IF w.follows = "none" THEN [s EXCEPT !.open = Append(@, w.text)]
                   ELSE [open |-> <<>>, out |-> Append(s.out, Append(s.open, w.text))],
                 [open |-> <<>>, out |-> <<>>], line.words)
      Of(line) == IF Split(line).open = <<>> THEN Split(line).out ELSE Append(Split(line).out, Split(line).open) IN
  FlattenSeq(Map(Of, text))

Summarize(text, most) ==
  LET Take(s, sentence) ==
        IF s.done \/ (s.out # <<>> /\ Len(s.out) + Len(sentence) > most) THEN [s EXCEPT !.done = TRUE]
        ELSE [out |-> s.out \o sentence, done |-> Len(s.out) + Len(sentence) >= FullSummary]
      taken == FoldLeft(Take, [out |-> <<>>, done |-> FALSE], Sentences(text)).out IN
  First(IF taken = <<>> THEN Texts(Words(text)) ELSE taken, most)

-----------------------------------------------------------------------------
(* The day.  A thread is named by the day and the place it was opened at.  *)

Highlights(notes) ==
  LET all == Map(LAMBDA n : [summary |-> Summarize(n.text, SummaryLength), memories |-> {n.id},
                             salience |-> n.salience, id |-> n.id], notes) IN
  First(SortSeq(SelectSeq(all, LAMBDA h : h.summary # <<>>),
                LAMBDA a, b : a.salience > b.salience \/ (a.salience = b.salience /\ a.id < b.id)),
        MaxHighlights)

People(notes) ==
  LET Mentioned(name) == {notes[i].id : i \in {j \in DOMAIN notes : name \in Range(notes[j].extraction.people)}} IN
  {[name |-> name, memories |-> Mentioned(name)] :
     name \in UNION {Range(notes[i].extraction.people) : i \in DOMAIN notes}}

Unresolved(notes) ==
  FlattenSeq(Map(LAMBDA n : Map(LAMBDA q : [question |-> q, memories |-> {n.id}], n.extraction.questions), notes))

\* Every title of the notes that open or close something, with its note.
Titles(notes, field) ==
  FlattenSeq(Map(LAMBDA n : Map(LAMBDA t : [title |-> t, note |-> n.id], n.extraction[field]), notes))
At(open, title) == {i \in DOMAIN open : open[i].title = title}

\* One title: it touches the thread that has it, or opens one.
OpenOne(update, said, seq) ==
  LET at == At(update.open, said.title)
      id == <<seq, Len(update.opened) + 1>> IN
  IF at # {} THEN [update EXCEPT !.open[Min(at)].touched = seq,
                                 !.open[Min(at)].memories = @ \cup {said.note}]
  ELSE [update EXCEPT !.opened = Append(@, id),
                      !.open = Append(@, [id |-> id, title |-> said.title, since |-> seq,
                                          touched |-> seq, memories |-> {said.note}])]
CloseOne(update, said) ==
  LET at == At(update.open, said.title) IN
  IF at = {} THEN update
  ELSE [update EXCEPT !.open = RemoveAt(@, Min(at)), !.closed = Append(@, update.open[Min(at)].id)]

\* First everything that is opened, then everything that is closed.
Threads(previous, notes, seq) ==
  LET opened == FoldLeft(LAMBDA u, said : OpenOne(u, said, seq),
                         [open |-> previous, closed |-> <<>>, opened |-> <<>>], Titles(notes, "open_threads")) IN
  FoldLeft(CloseOne, opened, Titles(notes, "closed_loops"))

\* Slip: a thread counts as known when an earlier day left it open.
CarriedOnly(previous, update) == {previous[i].id : i \in DOMAIN previous}

\* The threads a loop that closes may be: those left open, and today's.
Carried(previous, update) == {previous[i].id : i \in DOMAIN previous} \cup Range(update.opened)

Draft(notes, previous, seq, amendments) ==
  LET update == Threads(previous, notes, seq) IN
  [seq |-> seq, empty |-> notes = <<>>, highlights |-> Highlights(notes), people |-> SetToSeq(People(notes)),
   mood |-> CombineMood(Map(LAMBDA n : n.extraction.mood, notes)), unresolved |-> Unresolved(notes),
   open_threads |-> update.open, closed_loops |-> update.closed, carried |-> Carried(previous, update),
   memories |-> {notes[i].id : i \in DOMAIN notes}, amendments |-> amendments]

\* What is not about the day's own notes is dropped.
DropUnevidenced(draft) ==
  LET Cited(claim) == claim.memories # {} /\ claim.memories \subseteq draft.memories IN
  [draft EXCEPT !.highlights = SelectSeq(@, Cited), !.people = SelectSeq(@, Cited),
                !.unresolved = SelectSeq(@, Cited)]

\* What is wrong with a draft. Any of it leaves the day unsealed.
Errors(draft) ==
  LET Outside(claims) == {"out_of_window" : c \in {d \in Range(claims) : ~(d.memories \subseteq draft.memories)}}
      Without(claims, error) == {error : c \in {d \in Range(claims) : d.memories = {}}} IN
  Without(draft.highlights, "highlight_without_evidence") \cup Without(draft.people, "person_without_evidence")
  \cup Outside(draft.highlights) \cup Outside(draft.people) \cup Outside(draft.unresolved)
  \cup {"out_of_range" : x \in {h \in Range(draft.highlights) : h.salience \notin 0..1000}}
  \cup (IF draft.mood.valence \in -1000..1000 /\ draft.mood.arousal \in 0..1000 THEN {} ELSE {"out_of_range"})
  \cup {"amendment_not_in_past" : a \in {b \in Range(draft.amendments) : b.target >= draft.seq}}
  \cup {"never_opened" : t \in Range(draft.closed_loops)
                                 \ (draft.carried \cup {draft.open_threads[i].id : i \in DOMAIN draft.open_threads})}

\* What a day that is not sealed yet would be sealed as so far: nothing late is
\* part of it, and nothing is dropped from it.
Preview(notes, previous, seq) == Draft(notes, previous, seq, <<>>)
Recap(sealed, notes, previous, seq) ==
  IF sealed # <<>> THEN [sealed |-> TRUE, footage |-> sealed[1]] ELSE [sealed |-> FALSE, footage |-> Preview(notes, previous, seq)]

-----------------------------------------------------------------------------
(* What a day promises.                                                    *)

IsSubSequence(s, t) ==
  \E at \in [DOMAIN s -> DOMAIN t] : (\A i, j \in DOMAIN s : i < j => at[i] < at[j]) /\ \A i \in DOMAIN s : s[i] = t[at[i]]

\* Every word of a summary was written, in that order, and a note that says
\* anything has one (summarize.rs: "every word in a footage traceable to
\* something the user actually wrote").
ExtractiveSummary(text, most) ==
  LET summary == Summarize(text, most) IN
  /\ Len(summary) <= most
  /\ IsSubSequence(summary, Texts(Words(text)))
  /\ (Words(text) # <<>> /\ most > 0) => summary # <<>>

\* Whatever the notes say, and whatever a model made of them, the day can be
\* sealed: a day that is refused leaves a hole in the chain. Nothing left open
\* is lost: each thread goes on, or is closed, and never both; and one title
\* is one open thread. What was shown of the day before is what is sealed, but
\* for what is amended.
SealableDay(notes, previous, seq) ==
  LET draft == DropUnevidenced(Draft(notes, previous, seq, <<>>))
      open == {draft.open_threads[i].id : i \in DOMAIN draft.open_threads} IN
  /\ Errors(draft) = {}
  /\ {previous[i].id : i \in DOMAIN previous} \subseteq open \cup Range(draft.closed_loops)
  /\ open \cap Range(draft.closed_loops) = {}
  /\ \A i, j \in DOMAIN draft.open_threads :
       draft.open_threads[i].title = draft.open_threads[j].title => i = j
  /\ \A i \in DOMAIN draft.open_threads : draft.open_threads[i].memories # {}
  /\ \A late \in {<<>>, <<[target |-> seq - 1]>>} :
       Recap(<<>>, notes, previous, seq).footage = [DropUnevidenced(Draft(notes, previous, seq, late)) EXCEPT !.amendments = <<>>]

\* A thread is opened by a box or by the word itself, not by a word that
\* happens to have it in it.
OnlyMarkersOpen(text) ==
  \A line \in Range(text) :
    OpensThread(line) # <<>> => \/ line.box = "open"
                                \/ \E i \in DOMAIN line.words : line.words[i].text = "todo"
=============================================================================
