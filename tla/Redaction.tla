------------------------------ MODULE Redaction -----------------------------
(***************************************************************************)
(* What stands between a note and a remote model besides the policy: the   *)
(* secret detector, the pseudonyms, the delimiters of the prompt, and the  *)
(* rows that say afterwards what was sent.                                 *)
(*                                                                         *)
(* A text is a sequence of glyphs, each one byte long; a span is where it  *)
(* starts and the position after its end. Lowercasing a glyph may give     *)
(* several. An operation that fails, or panics, returns <<>>, any other    *)
(* <<its result>>.                                                         *)
(***************************************************************************)
EXTENDS Integers, FiniteSets, SequencesExt

CONSTANTS Lower,     \* glyph -> the glyphs of its lower case
          Letters,   \* alphanumeric glyphs
          Digit,     \* glyph -> its value, for the digits
          KeyPrefixes,  \* PREFIXES: [text, kind, least]
          PemMarkers, PasswordHints,
          MinSecret, \* the shortest password worth reporting, 4
          MinCard, MaxCard \* digits of a payment card, 13 and 19

LowerText(text) == FlattenSeq([i \in DOMAIN text |-> Lower[text[i]]])
OccursAt(text, part, i) == i + Len(part) - 1 <= Len(text) /\ \A j \in DOMAIN part : text[i + j - 1] = part[j]
First(S, otherwise) == IF S = {} THEN otherwise ELSE CHOOSE i \in S : \A j \in S : i <= j
NextAt(text, part, from) == First({i \in from..Len(text) : OccursAt(text, part, i)}, 0)
Span(start, end) == [start |-> start, end |-> end]
Overlap(s, t) == s.start < t.end /\ t.start < s.end

-----------------------------------------------------------------------------
(* The detector. *)

Finding(kind, start, end) == [kind |-> kind, span |-> Span(start, end)]
TokenEnd(text, start) == First({i \in start..Len(text) : text[i] \in {"sp", "nl", "quote"}}, Len(text) + 1)

\* From one occurrence of the prefix to the next that is not in its token.
RECURSIVE Tokens(_, _, _)
Tokens(text, prefix, from) ==
  LET start == NextAt(text, prefix.text, from)
      end == TokenEnd(text, start) IN
  IF start = 0 THEN <<>>
  ELSE (IF end - start >= prefix.least THEN <<Finding(prefix.kind, start, end)>> ELSE <<>>) \o Tokens(text, prefix, end)

Pem(text, marker) ==
  LET start == NextAt(text, marker, 1) IN
  IF start = 0 THEN <<>> ELSE <<Finding("private_key", start, start + Len(marker))>>

RECURSIVE TrimOf(_, _)
TrimOf(text, blanks) ==
  IF text = <<>> THEN text
  ELSE IF Head(text) \in blanks THEN TrimOf(Tail(text), blanks)
  ELSE IF Last(text) \in blanks THEN TrimOf(Front(text), blanks) ELSE text

\* Where the hint is in the lower case text is where the text itself is cut:
\* out of its range when lowercasing changed the length.
Password(text, hint) ==
  LET start == NextAt(LowerText(text), hint, 1)
      end == First({i \in start..Len(text) : text[i] = "nl"}, Len(text) + 1)
      rest == start + Len(hint) IN
  IF start = 0 THEN <<<<>>>>
  ELSE IF start > Len(text) + 1 \/ rest > end THEN <<>>
  ELSE <<IF Len(TrimOf(SubSeq(text, rest, end - 1), {"sp"})) >= MinSecret THEN <<Finding("password", start, end)>> ELSE <<>>>>

\* Every second digit from the last but one is doubled.
Doubled(v) == IF 2 * v > 9 THEN 2 * v - 9 ELSE 2 * v

Luhn(digits) ==
  FoldLeft(LAMBDA sum, i : sum + (IF (Len(digits) - i) % 2 = 1 THEN Doubled(digits[i]) ELSE digits[i]), 0,
           [i \in DOMAIN digits |-> i]) % 10 = 0

\* A run of digits, spaces and hyphens, from its first digit to its last.
IsDigit(c) == c \in DOMAIN Digit
InRun(c) == IsDigit(c) \/ c \in {"sp", "-"}
DigitsOf(text, s) == [i \in DOMAIN SelectSeq(SubSeq(text, s.start, s.end - 1), IsDigit) |->
                        Digit[SelectSeq(SubSeq(text, s.start, s.end - 1), IsDigit)[i]]]
Connected(text, a, b) == \A i \in a..b : InRun(text[i])
PaymentCards(text) ==
  LET digits == {i \in DOMAIN text : IsDigit(text[i])}
      starts == {i \in digits : \A j \in digits : j < i => ~Connected(text, j, i)}
      endOf(i) == CHOOSE j \in digits : /\ j >= i /\ Connected(text, i, j)
                                        /\ \A k \in digits : k > j => ~Connected(text, j, k)
      runs == {Span(i, endOf(i) + 1) : i \in starts} IN
  SetToSortSeq({Finding("payment_card", s.start, s.end) : s \in
                  {s \in runs : Len(DigitsOf(text, s)) \in MinCard..MaxCard /\ Luhn(DigitsOf(text, s))}},
               LAMBDA f, g : f.span.start < g.span.start)

\* In order, and of those at one place the first that was found.
Sorted(found) ==
  LET before(i, j) == LET s == found[i].span
                           t == found[j].span IN
        \/ s.start < t.start
        \/ s.start = t.start /\ s.end < t.end
        \/ s = t /\ i < j
      firsts == {i \in DOMAIN found : \A j \in DOMAIN found : j < i => found[j].span # found[i].span}
      order == SetToSortSeq(firsts, before) IN
  [i \in DOMAIN order |-> found[order[i]]]

Scan(text) ==
  LET passwords == [i \in DOMAIN PasswordHints |-> Password(text, PasswordHints[i])] IN
  IF <<>> \in Range(passwords) THEN <<>>
  ELSE <<Sorted(FlattenSeq([i \in DOMAIN KeyPrefixes |-> Tokens(text, KeyPrefixes[i], 1)])
                \o FlattenSeq([i \in DOMAIN PemMarkers |-> Pem(text, PemMarkers[i])])
                \o FlattenSeq(FlattenSeq(passwords)) \o PaymentCards(text))>>

-----------------------------------------------------------------------------
(* Pseudonyms. *)

\* Slip: as the table has them.
KnownAsStored(known) == known

\* The longest first, equals by name.
Known(known) ==
  LET before(i, j) == \/ Len(known[i].name) > Len(known[j].name)
                      \/ Len(known[i].name) = Len(known[j].name) /\ known[i].rank < known[j].rank
      order == SetToSortSeq(DOMAIN known, before) IN
  [i \in DOMAIN order |-> known[order[i]]]

\* What follows an occurrence is searched next, whether it counted or not.
RECURSIVE Occurrences(_, _, _)
Occurrences(text, part, from) ==
  LET start == NextAt(text, part, from)
      end == start + Len(part)
      wordStart == start = 1 \/ text[start - 1] \notin Letters
      wordEnd == end = Len(text) + 1 \/ text[end] \notin Letters IN
  IF start = 0 THEN <<>>
  ELSE (IF wordStart /\ wordEnd THEN <<Span(start, end)>> ELSE <<>>) \o Occurrences(text, part, end)

\* Case is ignored where that does not move the offsets.
Aligned(text) == Len(LowerText(text)) = Len(text)
FindAll(text, name) ==
  IF name = <<>> THEN <<>>
  ELSE IF Aligned(text) THEN Occurrences(LowerText(text), LowerText(name), 1) ELSE Occurrences(text, name, 1)

Plan(text, table, wanted) ==
  LET known == Known(table)
      claim(sofar, entity) ==
        LET free == SelectSeq(FindAll(text, entity.name),
                              LAMBDA s : \A i \in DOMAIN sofar : \A j \in DOMAIN sofar[i].spans : ~Overlap(s, sofar[i].spans[j])) IN
        IF free = <<>> THEN sofar ELSE Append(sofar, [entity |-> entity.id, pseudonym |-> entity.pseudonym, spans |-> free]) IN
  IF ~(wanted \subseteq {table[i].id : i \in DOMAIN table}) THEN <<>> ELSE <<FoldLeft(claim, <<>>, known)>>

EditOrder(edits) == SetToSortSeq(edits, LAMBDA e, f : e.span.start > f.span.start)

Apply(text, plan) ==
  LET edits == UNION {{[span |-> plan[i].spans[j], by |-> plan[i].pseudonym] : j \in DOMAIN plan[i].spans} : i \in DOMAIN plan}
      edit(sofar, e) == IF sofar = <<>> \/ e.span.start > e.span.end \/ e.span.end > Len(sofar[1]) + 1 THEN <<>>
                        ELSE <<SubSeq(sofar[1], 1, e.span.start - 1) \o e.by \o SubSeq(sofar[1], e.span.end, Len(sofar[1]))>> IN
  FoldLeft(edit, <<text>>, EditOrder(edits))

-----------------------------------------------------------------------------
(* The prompt. *)

SystemPrompt(task) ==
  [task |-> task, version |-> 1,
   text |-> IF task \in {"extraction", "conversation", "quest_generation"} THEN task ELSE "summarization"]

Defuse(text) ==
  FlattenSeq([i \in DOMAIN text |-> IF text[i] = "<corpus" THEN <<"<", "zero", "corpus">>
                                    ELSE IF text[i] = "</corpus" THEN <<"<", "zero", "/corpus">> ELSE <<text[i]>>])
RenderBlock(block) == <<"<corpus", block.trust>> \o Defuse(block.text) \o <<"</corpus">>

\* The most salient first, equals by the rank of their text; one that does not
\* fit is left out, smaller ones after it are not. The line breaks between blocks
\* are not counted.
Build(blocks, turns, budget, overhead) ==
  LET place(i) == <<-blocks[i].salience, blocks[i].rank, i>>
      before(i, j) == \E k \in 1..3 : place(i)[k] < place(j)[k] /\ \A h \in 1..k - 1 : place(i)[h] = place(j)[h]
      order == SetToSortSeq(DOMAIN blocks, before)
      size(s) == FoldLeft(LAMBDA n, i : n + Len(RenderBlock(blocks[i])), overhead + Len(FlattenSeq(turns)), s)
      kept == FoldLeft(LAMBDA s, i : IF size(Append(s, i)) > budget THEN s ELSE Append(s, i), <<>>, order) IN
  IF overhead + Len(FlattenSeq(turns)) > budget THEN <<>>
  ELSE <<[corpus |-> FlattenSeq([i \in DOMAIN kept |-> (IF i > 1 THEN <<"nl">> ELSE <<>>) \o RenderBlock(blocks[kept[i]])]),
          turns |-> turns, kept |-> kept]>>

-----------------------------------------------------------------------------
(* The audit rows. *)

Tasks == {"extraction", "summarization", "distillation", "quest_generation", "conversation", "embedding", "relay_publish"}
TaskTag(task) == IF task \in Tasks THEN task ELSE "unrecognised"

ParseTask(tag) == IF tag \in Tasks THEN tag ELSE "unrecognised"
ToRecord(entry) ==
  [entry EXCEPT !.task = TaskTag(entry.task), !.decision = entry.decision.type,
                !.deny_reason = IF entry.decision.type = "deny" THEN <<entry.decision.reason>> ELSE <<>>]
FromRecord(row) ==
  [row EXCEPT !.task = ParseTask(row.task), !.deny_reason = <<>>,
              !.decision = IF row.decision = "allow" THEN [type |-> "allow"]
                           ELSE IF row.decision = "allow_redacted" THEN [type |-> "allow_redacted", plan |-> <<>>]
                           ELSE [type |-> "deny", reason |-> "user_disabled"]]
IsAllowed(decision) == decision \in {"allow", "allow_redacted", "allow_later"}
Summary(rows, from, to) ==
  LET within == SelectSeq(rows, LAMBDA r : r.at >= from /\ r.at <= to)
      allowed == SelectSeq(within, LAMBDA r : IsAllowed(r.decision)) IN
  [allowed |-> Len(allowed), denied |-> Len(within) - Len(allowed), bytes |-> FoldLeft(LAMBDA n, r : n + r.bytes, 0, allowed)]

-----------------------------------------------------------------------------
(* What redaction promises. *)

\* Whatever the note says, each token that begins with a known prefix and is
\* long enough is under a finding of that place, findings are in order and at
\* different places, and only a lower case of another length stops the scan.
SecretsAreSeen(text) ==
  /\ Aligned(text) => Scan(text) # <<>>
  /\ Scan(text) # <<>> =>
       LET found == Scan(text)[1] IN
       /\ \A i, j \in DOMAIN found : i < j =>
            \/ found[i].span.start < found[j].span.start
            \/ found[i].span.start = found[j].span.start /\ found[i].span.end < found[j].span.end
       /\ \A i \in DOMAIN found : found[i].span.start >= 1 /\ found[i].span.end <= Len(text) + 1
       /\ \A p \in Range(KeyPrefixes) : \A i \in DOMAIN text :
            OccursAt(text, p.text, i) /\ TokenEnd(text, i) - i >= p.least =>
              \E k \in DOMAIN found : found[k].span.start <= i /\ found[k].span.end >= TokenEnd(text, i)
       /\ \A h \in Range(PasswordHints) : \A i \in DOMAIN text :
            OccursAt(LowerText(text), h, i) /\ i = NextAt(LowerText(text), h, 1) /\ Aligned(text) =>
              \/ \E k \in DOMAIN found : found[k].span.start = i
              \/ Len(TrimOf(SubSeq(text, i + Len(h), First({j \in i..Len(text) : text[j] = "nl"}, Len(text) + 1) - 1), {"sp"})) < MinSecret

\* A number stays a card however it is spaced, and no slip of the hand on one
\* digit makes another card of it.
CardsAreCards(digits, wrong) ==
  LET written(gaps) == FlattenSeq([i \in DOMAIN digits |-> <<digits[i]>> \o gaps])
      cards(text) == Len(PaymentCards(text)) IN
  Len(digits) \in MinCard..MaxCard =>
    /\ cards(written(<<>>)) = cards(written(<<"sp">>)) /\ cards(written(<<"-">>)) = cards(written(<<>>))
    /\ cards(written(<<>>)) = 1 /\ Len(wrong) = Len(digits) /\ Cardinality({i \in DOMAIN digits : digits[i] # wrong[i]}) = 1 =>
         cards(wrong) = 0
    /\ Len(digits) < MaxCard => (Luhn([i \in DOMAIN digits |-> Digit[digits[i]]]) <=> Luhn(<<0>> \o [i \in DOMAIN digits |-> Digit[digits[i]]]))

\* Every name that stands as a word of its own and does not overlap another
\* place of itself is replaced, or is part of a longer one that is: in any case,
\* where the lower case of the text is as long as the text, and as it is written
\* where it is not; nothing else changes; and the order of the table does not
\* matter.
OverlapsItself(name) == \E k \in 1..Len(name) - 1 : SubSeq(name, 1, k) = SubSeq(name, Len(name) - k + 1, Len(name))
Places(text, name) ==
  {Span(i, i + Len(name)) : i \in {i \in DOMAIN text :
     /\ OccursAt(text, name, i)
     /\ i = 1 \/ text[i - 1] \notin Letters
     /\ i + Len(name) = Len(text) + 1 \/ text[i + Len(name)] \notin Letters}}
NamesAreReplaced(text, table, wanted) ==
  LET plan == Plan(text, table, wanted)
      claimed == UNION {Range(plan[1][i].spans) : i \in DOMAIN plan[1]}
      applied == Apply(text, plan[1])
      outside == {i \in DOMAIN text : \A s \in claimed : i \notin s.start..(s.end - 1)}
      seen(t) == IF Aligned(text) THEN LowerText(t) ELSE t IN
  IF plan = <<>> THEN ~(wanted \subseteq {table[i].id : i \in DOMAIN table})
  ELSE
    /\ wanted \subseteq {table[i].id : i \in DOMAIN table}
    /\ \A s, t \in claimed : s # t => ~Overlap(s, t)
    /\ \A k \in DOMAIN table : ~OverlapsItself(seen(table[k].name)) =>
         \A s \in Places(seen(text), seen(table[k].name)) :
           \E t \in claimed : Overlap(s, t) /\ t.end - t.start >= s.end - s.start
    /\ applied # <<>>
    /\ LET masks == SelectSeq(applied[1], LAMBDA c : c \notin DOMAIN Lower)
           kept == SelectSeq(applied[1], LAMBDA c : c \in DOMAIN Lower)
           order == SetToSortSeq(outside, <) IN
       /\ Len(masks) = Cardinality(claimed) /\ kept = [i \in DOMAIN order |-> text[order[i]]]
       /\ \A i \in DOMAIN masks : \E k \in DOMAIN table : table[k].pseudonym = <<masks[i]>>
    /\ applied = Apply(text, Plan(text, Reverse(table), wanted)[1])

\* However a note is written, a block opens once and closes once, at its ends,
\* and whatever is kept fits, but for the breaks between blocks.
BlocksAreClosed(blocks, turns, budget, overhead) ==
  LET built == Build(blocks, turns, budget, overhead) IN
  built # <<>> =>
    /\ Len(SelectSeq(built[1].corpus, LAMBDA c : c = "<corpus")) = Len(built[1].kept)
    /\ Len(SelectSeq(built[1].corpus, LAMBDA c : c = "</corpus")) = Len(built[1].kept)
    /\ overhead + Len(built[1].corpus) + Len(FlattenSeq(turns)) <= budget + Len(built[1].kept)
    /\ \A i \in DOMAIN blocks : i \notin Range(built[1].kept) =>
         \A k \in Range(built[1].kept) : blocks[k].salience >= blocks[i].salience \/ Len(RenderBlock(blocks[k])) < Len(RenderBlock(blocks[i]))

\* A row read back tells what was decided, for what and how much, as far as the
\* row has it, never more, and an unknown one never reads as an allow.
RowsComeBack(entry, unknown) ==
  LET back == FromRecord(ToRecord(entry)) IN
  /\ back.decision.type = entry.decision.type /\ back.task = (IF entry.task \in Tasks THEN entry.task ELSE "unrecognised")
  /\ back.bytes = entry.bytes /\ back.digest = entry.digest /\ ToRecord(back).decision = ToRecord(entry).decision
  /\ FromRecord([ToRecord(entry) EXCEPT !.decision = unknown]).decision.type = "deny"
  /\ LET s == Summary(<<ToRecord(entry), ToRecord([entry EXCEPT !.at = 9])>>, entry.at, 8) IN
     s.allowed + s.denied = 1 /\ (s.bytes > 0 => s.allowed = 1)
=============================================================================
