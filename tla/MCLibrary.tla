------------------------------ MODULE MCLibrary ------------------------------
(***************************************************************************)
(* The algorithms that keep no state, each on every input of a small set.  *)
(* A behaviour is one input: it picks a topic and then an input of it.     *)
(***************************************************************************)
EXTENDS Integers, FiniteSets, SequencesExt

VARIABLES topic, given
vars == <<topic, given>>

MinClozeWords == 3
Qs == INSTANCE Questions
MinScoreable == 2
Bins == 10
Thresholds == [overall |-> 850, lower |-> 200, sample |-> 3, ece |-> 500, decoys |-> 100,
               perFacet |-> 1, days |-> 2]
Fs == INSTANCE Fidelity

MaxTics == 2
MaxExemplars == 2
MinExemplarWords == 2
Vs == INSTANCE Voice
MinCorpus == 1
MaxCadence == 1
MinThreads == 2
Notable == 50
ReviewThreshold == 3
Ds == INSTANCE Distilling

MaxHighlights == 1
SummaryLength == 3
FullSummary == 2
Cs == INSTANCE Composing

MaxByte == 4
KeySize == 2
Es == INSTANCE Encodings

MaxItems == 1
MaxQuests == 2
MaxCited == 2
MaxLength == 2
Batch == 2
Rs == INSTANCE Replies

Lower == [a |-> <<"a">>, b |-> <<"b">>, A |-> <<"a">>, I |-> <<"i", "dot">>, h |-> <<"h">>, H |-> <<"h">>, sp |-> <<"sp">>, nl |-> <<"nl">>,
          quote |-> <<"quote">>] @@ [c \in {"-", ":", "0", "1", "2", "3", "4", "5", "6", "7", "8", "9"} |-> <<c>>]
Letters == {"a", "b", "A", "I", "h", "H", "i"}
Digit == [c \in {"0", "1", "2", "3", "4", "5", "6", "7", "8", "9"} |->
            CHOOSE n \in 0..9 : <<"0", "1", "2", "3", "4", "5", "6", "7", "8", "9">>[n + 1] = c]
KeyPrefixes == <<[text |-> <<"a", "-">>, kind |-> "api_key", least |-> 3], [text |-> <<"b">>, kind |-> "nostr_secret_key", least |-> 2]>>
PemMarkers == <<<<"-", "-">>>>
PasswordHints == <<<<"h", ":">>>>
MinSecret == 1
MinCard == 2
MaxCard == 3
Rd == INSTANCE Redaction

MaxRequestLine == 12
MaxHeaderBytes == 60
MaxHeaders == 3
MaxBody == 2
MaxRequest == 90
LowerName == [x \in {"Host", "host", "Origin", "Content-Length", "Transfer-Encoding", "Authorization", "here", "HERE", "there", "sp", "x"} |->
  CASE x = "Host" -> "host" [] x = "Origin" -> "origin" [] x = "Content-Length" -> "content-length" [] x = "HERE" -> "here"
    [] x = "Transfer-Encoding" -> "transfer-encoding" [] x = "Authorization" -> "authorization" [] OTHER -> x]
Figure == [x \in {"0", "1", "2", "3"} |-> CHOOSE n \in 0..3 : <<"0", "1", "2", "3">>[n + 1] = x]
Hex == (<<"2", "e">> :> ".") @@ (<<"2", "5">> :> "%")
Lowered == [w \in {"confirm", "yes", "correct", "reject", "no", "unknown", "void", "maybe", "major", "minor", "today", "yesterday", "12",
                 "30", "30d", "90", "all", "7", "some"} |-> w] @@ ("Confirm" :> "confirm") @@ (" Major" :> "major") @@ ("Today" :> "today")
Rq == INSTANCE Requests

RatioScale == 2
ShortLength == 2
Rw == INSTANCE Rows

CharsPerToken == 2
Rg == INSTANCE Reading WITH MinCorpus <- 2

Texts == {<<"sp">>, <<"z">>, <<"sp", "z">>}
Trimmed == [t \in Texts |-> Rq!Trim(t)]
Loopback == {"127.0.0.1", "::1"}
DefaultPort == 7749
Today == 20
RemoteBuilt == TRUE
Numeral == [n \in {"12"} |-> 12]
Scopes == {"backup", "manifest"}
Cm == INSTANCE Commands

MaxFramesPerWait == 2
Points == {"k", "l"}
Wi == INSTANCE Wire

At == INSTANCE Attesting
Sh == INSTANCE Showing

HexDigits == 2
MaxTime == 12
Vt == INSTANCE Events

Upto(S, n) == UNION {[1..k -> S] : k \in 0..n}

Topics == {"batch", "cloze", "report", "trend", "voice", "proposal", "summary", "day",
           "tree", "payload", "entity", "canonical", "event", "wrap",
           "value", "reply", "request", "vectors",
           "secret", "card", "names", "prompt", "row",
           "bytes", "request to the page", "quest", "verdict",
           "memory row", "tag", "day row", "source row", "leaf", "short name",
           "selection", "corpus", "exemplars", "stage", "invocation", "terminal", "config", "spoken", "filter", "bunker",
           "proof", "submission", "attestation", "letters", "meta",
           "verified", "shown quest", "recap", "upgraded", "listing", "banner", "score text", "phrase", "manifests"}
Init == topic = "none" /\ given \in Topics
Ask(name, inputs) == topic = "none" /\ given = name /\ topic' = name /\ given' \in inputs

Fact(says, evidence) == [says |-> says, strength |-> 700, evidence |-> evidence]
Facts == {Fact(<<"a">>, {1}), Fact(<<"b">>, {2}), Fact(<<"c">>, {})}
Probe == [type |-> "voice_probe", prompt |-> <<"p">>, says |-> <<"a">>]
Drafts == {Qs!Draft([Probe EXCEPT !.says = s], f, 500, 1200, e) : s \in {<<"a">>, <<>>}, f \in {"voice", "opinion"}, e \in {{}, {1}}}
         \cup {Qs!Draft([type |-> "preference", a |-> <<"c">>, b |-> <<"d">>, choice |-> "b"], "relationship", 500, 1200, {1})}
Gap(w) == <<[type |-> "cloze", context |-> <<w>>, start |-> 0, end |-> 1, word |-> w]>>
Exemplars == {[id |-> 1, cloze |-> Gap(<<"a">>)], [id |-> 2, cloze |-> Gap(<<"c">>)], [id |-> 3, cloze |-> <<>>]}

Batches ==
  {[n |-> n, ctx |-> [opinion |-> o, routine |-> r, lore |-> l, relationship |-> 0, voice |-> Len(e),
                      exemplars |-> e, drafts |-> d, avoid |-> a, date |-> 1, now |-> 1]] :
     n \in {2, 6}, o \in Upto(Facts, 2), r \in Upto({Fact(<<"a">>, {3})}, 1), l \in Upto(Facts, 1),
     e \in Upto(Exemplars, 2), d \in Upto(Drafts, 1), a \in {{}, {<<"a">>}}}
AskBatch == Ask("batch", Batches)
\* No facet is starved, none is asked what its evidence does not support, and
\* what is on the screen is not asked again (generate.rs).
BatchesAreFair == topic = "batch" => Qs!FairBatch(given.ctx, given.n)

Word(letters, long, mark) == [letters |-> letters, long |-> long, mark |-> mark]
Words == {Word({"form"}, TRUE, "none"), Word({"in", "form"}, TRUE, "none"), Word({"in"}, FALSE, "none"),
          Word({"with"}, TRUE, "none"), Word({"nan"}, TRUE, "at"), Word({"salmon"}, TRUE, "none")}
Lines == {<<[formatted |-> f, words |-> w]>> : f \in BOOLEAN, w \in Upto(Words, 4)}
     \cup {<<[formatted |-> FALSE, words |-> v], [formatted |-> f, words |-> w]>> :
             f \in BOOLEAN, v \in {<<>>} \cup [1..3 -> {Word({"form"}, TRUE, "none"), Word({"salmon"}, TRUE, "none")}],
             w \in [1..3 -> Words]}
AskCloze == Ask("cloze", Lines)
\* A cloze never shows its word, neither in the gap nor beside it (view.rs).
AnswersStaySealed == topic = "cloze" => Qs!SealedAnswer(given)

Quest == [verdict : {"confirm", "minor", "reject", "unknown"}, difficulty : {0, 1000}, facet : {"voice", "lore"},
          day : {1, 2}, holdout : BOOLEAN, decoy : BOOLEAN]
Row(q) == q @@ [status |-> "answered", kind |-> "cloze", confidence |-> 900, seconds |-> 1]
Rows == {q \in Quest : (~q.holdout \/ q.decoy) => q.difficulty = 0 /\ q.facet = "voice" /\ q.day = 1 /\ q.verdict \in {"reject", "confirm"}}
AskReport == Ask("report", {[i \in DOMAIN s |-> Row(s[i])] : s \in Upto(Rows, 2) \cup [1..3 -> {q \in Rows : q.facet = "voice" => q.verdict # "unknown" /\ q.day = 1}]})
AskTrend == Ask("trend", Upto({0, 200, 500, 1000}, 4) \ {<<>>})
\* A score counts held-out quests alone, is inside its interval, a harder quest
\* weighs no less, and the trend leans to the newest day (score.rs).
ScoresAreHonest ==
  /\ topic = "report" => Fs!HonestReport(given, 0)
  /\ topic = "trend" => Fs!LeansToTheNewest(given)
\* Fails: the days are not among the criteria that are looked at.
ConvergedMeansConverged == topic = "report" => Fs!ConvergenceIsComplete(given, 0, 1, {"voice", "lore"})

Spoken(n, lists, marks) == [spelling |-> n, long |-> n > 1, lists |-> lists, marks |-> marks]
Sayings == {Spoken(1, {"stop"}, {}), Spoken(2, {"warm"}, {}), Spoken(3, {"hedge"}, {"comma"}), Spoken(4, {"casual"}, {"emoji"})}
Note(id, words) == [id |-> id, sentences |-> <<[words |-> words, end |-> ".", lower |-> FALSE]>>]
Notes == {Note(1, w) : w \in Upto(Sayings, 2) \ {<<>>}}
AskVoice == Ask("voice", {[i \in DOMAIN c |-> [c[i] EXCEPT !.id = i]] : c \in Upto(Notes, 2) \cup [1..3 -> {Note(1, <<s, s>>) : s \in Sayings}]})
\* The order in which notes are read changes nothing of a voice (voice.rs).
VoicesAreStable == topic = "voice" => Vs!StableVoice(given)

Mine == Note(1, <<Spoken(2, {"warm"}, {}), Spoken(2, {"warm"}, {})>>)
Stance(key, strength, about) ==
  [key |-> key, position |-> "for", strength |-> strength, evidence |-> about, contradicted_by |-> {}]
Heads == {<<>>} \cup
  {<<[version |-> <<1, "head">>,
      facets |-> [voice |-> Vs!Profile(<<Mine>>), opinions |-> o, relationships |-> r, routines |-> <<>>,
                  boundaries |-> <<>>, lore |-> l]]>> :
     o \in {<<>>, <<Stance(1, 700, {1})>>, <<Stance(1, 20, {1, 2}), Stance(2, 700, {1})>>},
     r \in {<<>>, <<[key |-> 1, strength |-> 500, cadence |-> 0, evidence |-> {1}]>>},
     l \in {<<>>, <<[key |-> 1, strength |-> 700, evidence |-> {2}]>>}}
Delta(facet, memory, weight, correction) ==
  [facet |-> facet, memory |-> memory, weight |-> weight, correction |-> correction, holdout |-> FALSE]
Deltas == {Delta(f, m, 30, c) : f \in {"opinion", "lore"}, m \in {1, 2}, c \in {{}, {9}}}
Lived == {[people |-> p, threads |-> t] :
            p \in Upto({[entity |-> 1, memories |-> {m}] : m \in {1, 2}}, 1) \cup {<<[entity |-> 2, memories |-> {1, 2}]>>},
            t \in Upto({[id |-> i, title |-> 1, memories |-> {1}] : i \in {1, 2}}, 1)}
AskProposal ==
  Ask("proposal", {[head |-> h, input |-> [footage |-> f, first_party |-> <<Mine>>, claimable |-> c, deltas |-> d,
                                           next_ordinal |-> 2]] :
     h \in Heads, f \in Upto(Lived, 2), c \in {<<>>, <<Mine>>}, d \in Upto(Deltas, 1) \cup {<<Delta("opinion", 1, 30, {9}), x>> : x \in Deltas}})
\* A candidate claims nothing without a memory it may rest on (distill.rs).
ProposalsAreGrounded == topic = "proposal" => Ds!GroundedProposal(given.head, given.input)
\* Fails: corrected lore is silent in the diff.
ChangesAreShown == topic = "proposal" => Ds!LoreIsShown(given.head, given.input)

Plain(text) == [text |-> text, sigil |-> "none", moods |-> {}, marker |-> "none", rest |-> <<>>, follows |-> "none"]
Tokens == {Plain("a"), [Plain("b") EXCEPT !.follows = "stop"], [Plain("you") EXCEPT !.follows = "ask"],
           [Plain("nan") EXCEPT !.sigil = "at"], [Plain("glad") EXCEPT !.moods = {"good", "high"}],
           [Plain("todo") EXCEPT !.marker = "todo"], [Plain("mastodon") EXCEPT !.marker = "todo", !.rest = <<"n">>],
           [Plain("done:") EXCEPT !.marker = "done:"], Plain("[["), Plain("]]")}
Line(box, words) == [box |-> box, words |-> words]
NoteTexts == {<<Line("none", w)>> : w \in Upto(Tokens, 3)}
AskSummary == Ask("summary", [text : NoteTexts \cup {<<t[1], Line("none", <<Plain("c")>>)>> : t \in NoteTexts}, most : {1, 3}])
\* A summary is sentences of its note (summarize.rs).
SummariesAreExtracts == topic = "summary" => Cs!ExtractiveSummary(given.text, given.most)
\* Fails: a word that merely has the marker in it opens a thread.
MarkersOpen == topic = "summary" => Cs!OnlyMarkersOpen(given.text)

Entry(id, salience, text) == [id |-> id, salience |-> salience, text |-> text, extraction |-> Cs!Extract(text)]
Said(open, closed, people, valence) ==
  Cs!IntoExtraction([open_threads |-> open, closed_loops |-> closed, questions |-> <<>>, people |-> people,
                     topics |-> <<>>, valence |-> valence, arousal |-> 1000])
A == <<Plain("a")>>
Entries == {Entry(1, 500, t) : t \in {<<Line(x, A)>> : x \in {"none", "open", "done"}}
                                 \cup {<<Line(x, A), Line(y, A \o A)>> : x, y \in {"open", "done"}}
                                 \cup {<<Line(x, A), Line(y, A)>> : x, y \in {"open", "done"}}
                                 \cup {<<Line("none", <<w, w>>)>> : w \in Tokens}}
      \cup {[Entry(1, 0, <<Line("none", A)>>) EXCEPT !.extraction = Said(o, c, p, v)] :
               o, c \in {<<>>, <<<<"a">>>>, <<<<"a">>, <<"a">>>>}, p \in {<<>>, <<<<"nan">>, <<"nan">>>>}, v \in {-2000, 1000}}
Open(title) == [id |-> <<1, Len(title)>>, title |-> title, since |-> 1, touched |-> 1, memories |-> {9}]
AskDay == Ask("day", [notes : {[i \in DOMAIN n |-> [n[i] EXCEPT !.id = i]] : n \in Upto(Entries, 2)},
                      previous : {<<>>, <<Open(<<"a">>)>>, <<Open(<<"a">>), Open(<<"a", "a">>)>>}])
\* What is composed of any notes passes the validation before a seal (compose.rs).
DaysAreSealable == topic = "day" => Cs!SealableDay(given.notes, given.previous, 2)

Leaves == {Es!TaggedHash("memory-leaf", <<n, "bytes">>) : n \in 1..6}
Chosen(S) == {s \in UNION {[1..k -> S] : k \in {1, 2, 3}} : Cardinality({s[i] : i \in DOMAIN s}) = Len(s)}
             \cup {SetToSeq(T) : T \in SUBSET S \ {{}}}
AskTree == Ask("tree", [leaves : Chosen(Leaves), others : {SetToSeq(T) : T \in SUBSET Leaves \ {{}}}])
\* One root, one list of leaves (merkle.rs).
RootsAreExact == topic = "tree" => Es!RootIsExact(given.leaves, given.others)

Near(S) == UNION {{n - 1, n, n + 1} : n \in S}
AskPayload == Ask("payload", [len : Near({2^k : k \in 1..15} \cup {320 * k : k \in 1..204}) \cup {65534, 65535}, wrong : {0, 40}])
Bytes == 0..MaxByte
AskEntity ==
  Ask("entity", [address : [identifier : Upto({0, 4}, 2), pubkey : {<<1, 2>>}, kind : {0, 4},
                            relays : Upto({<<>>, <<1>>, <<3, 3>>, <<0, 1, 2, 3>>}, 2)],
                 tail : {<<>>, <<4, 0>>, <<0, 2, 1, 1>>, <<3, 1, 0>>}])
Other(n) == [type |-> "other", value |-> n]
Values1 == {Other(1), [type |-> "float"], [type |-> "array", items |-> <<Other(1), Other(2)>>]}
Entries2 == [key : {1, 2, 3}, value : {Other(1), [type |-> "float"]}]
AskCanonical ==
  Ask("canonical", Values1 \cup [type : {"map"}, entries : Upto(Entries2, 3)]
                   \cup [type : {"map"}, entries : Upto([key : {1, 2}, value : [type : {"map"}, entries : Upto([key : {1, 2}, value : {Other(1)}], 2)]], 2)])
\* What is padded, named or written canonically is read back (encodings of core
\* and nostr).
EncodingsComeBack ==
  /\ topic = "payload" => Es!PayloadComesBack(given.len, given.wrong)
  /\ topic = "entity" => Es!EntityComesBack(given.address, given.tail)
  /\ topic = "canonical" => Es!CanonicalIsUnique(given)

Phrase(n) == Vt!Seed([words |-> n, checks |-> TRUE], "")
Keyrings == {Vt!Keys(Phrase(12), <<>>), Vt!Keys(Phrase(12), Vt!FromSecret(7))}
Stranger == Vt!Keys(Phrase(24), <<>>)
AskEvent == Ask("event", [keys : Keyrings, account : Vt!Accounts, kind : Vt!Kinds, identifier : {<<"a">>, <<"a", "b">>}, nonce : {1}])
AskWrap == Ask("wrap", [keys : Keyrings, account : Vt!Accounts, text : {"blank", "hello"}, author : Vt!Accounts,
                        entropy : [ephemeral_secret : {0, 8}, seal_nonce : {1, 2}, wrap_nonce : {1, 2}, seal_created_at : {3, 7}, wrap_created_at : {3, 7}]])
\* Only the account an event is for opens it, and nothing of it is in its tags
\* (codec.rs, giftwrap.rs).
EventsStayPrivate ==
  /\ topic = "event" => Vt!EventStaysWhatItIs(given.keys, Stranger, given.account, given.kind, given.identifier, given.nonce)
  /\ topic = "wrap" =>
       /\ Vt!NoteDiscloses(given.keys, given.text)
       /\ Vt!WrapHidesItsAuthor(given.keys, Stranger, Vt!Keys(Phrase(12), Vt!FromSecret(6)), given.account,
            Vt!UnsignedEvent(Vt!Public(given.keys[given.author]), 5, 1, <<>>, [form |-> "text", fields |-> {given.text}]), given.entropy)

Text(t) == Rs!Str(t)
Cited == {Rs!Arr(<<>>), Rs!Arr(<<Rs!Num(0, TRUE)>>), Rs!Arr(<<Rs!Num(5, TRUE)>>), Rs!Arr(<<Rs!Num(1, FALSE)>>), Rs!Arr(<<Text(<<"a">>)>>), Text(<<"a">>),
          Rs!Arr(<<Rs!Num(5, TRUE), Rs!Num(1, TRUE)>>), Rs!Arr(<<Rs!Num(0, TRUE), Rs!Num(0, TRUE), Rs!Num(0, TRUE)>>), Rs!Num(-1, TRUE)}
PlainQuest == [kind |-> Text(<<"prediction">>), facet |-> Text(<<"lore">>), prompt |-> Text(<<"sp", "p">>), ghost_answer |-> Text(<<>>),
               confidence |-> Rs!Num(500, TRUE), difficulty |-> Rs!Num(0, TRUE), evidence |-> Rs!Arr(<<Rs!Num(0, TRUE)>>)]
PlainNote == [f \in Rs!NoteLists \cup {"valence", "arousal"} |-> IF f \in Rs!NoteLists THEN Rs!Arr(<<>>) ELSE Rs!Num(0, TRUE)]
Changed(fields, new) == {[fields EXCEPT ![f] = v] : f \in DOMAIN fields, v \in new} \cup {fields}
Variants(fields, new) ==
  Changed(fields, new) \cup {[g \in DOMAIN fields \ {f} |-> fields[g]] : f \in DOMAIN fields} \cup {fields @@ [extra |-> Text(<<>>)]}
Scalars == {Text(<<>>), Text(<<"sp">>), Text(<<"a", "b", "c">>), Text(<<"voice_probe">>), Rs!Num(1001, FALSE), Rs!Num(-1, TRUE), Rs!Num(1000, TRUE)}
QuestValues == {Rs!Obj(f) : f \in Variants(PlainQuest, Scalars \cup Cited)}
Replied == {Rs!Obj([quests |-> Rs!Arr(<<>>)]), Rs!Obj([x \in {} |-> 0]), Text(<<"a">>), Rs!Obj([quests |-> Rs!Arr(<<>>), extra |-> Text(<<>>)])}
           \cup {Rs!Obj([quests |-> Rs!Arr(<<q>>)]) : q \in QuestValues} \cup {Rs!Obj([quests |-> Rs!Arr(<<Rs!Obj(PlainQuest), q>>)]) : q \in QuestValues}
Keywords == {[type |-> "array"], [type |-> "object"], [items |-> [type |-> "integer"]], [required |-> {"a"}], [additionalProperties |-> FALSE],
             [properties |-> [a |-> [type |-> "string"]]], [enum |-> {Text(<<"a">>), Rs!Num(0, TRUE)}], [minItems |-> 1], [maxLength |-> 1],
             [maximum |-> 0], [pattern |-> "x"], [title |-> "x"]}
Small == {Rs!Obj([x \in {} |-> 0]), Rs!Obj([a |-> Text(<<"a">>)]), Rs!Obj([a |-> Rs!Num(0, TRUE), b |-> Text(<<>>)]), Rs!Arr(<<>>),
          Rs!Arr(<<Rs!Num(0, TRUE)>>), Rs!Arr(<<Rs!Num(7, FALSE)>>), Text(<<"a">>), Text(<<"a", "b">>), Rs!Num(0, TRUE), [type |-> "null"], [type |-> "boolean"]}
AskValue == Ask("value", [value : Replied \cup {Rs!Obj(f) : f \in Variants(PlainNote, Scalars \cup Cited)}, schema : {[title |-> "x"]}, extra : {[minItems |-> 1]}]
                         \cup [value : Small, schema : {j @@ k : j, k \in Keywords}, extra : Keywords])
Endings(provider) == IF provider = "anthropic" THEN {"end_turn", "max_tokens", "refusal"} ELSE {"stop", "length", "content_filter"}
AskReply == \E provider \in {"anthropic", "openai", "ollama"} : Ask("reply", [provider : {provider}, ids : {<<>>, <<7>>, <<7, 8>>},
  reply : {<<>>} \cup {<<Rs!Reply(e, p)>> : e \in Endings(provider), p \in
     {<<>>} \cup {<<Rs!Part("tool_use", n, <<v>>)>> : n \in {"written_quests", "other"}, v \in Replied}
        \cup {<<Rs!Part("text", "", t), Rs!Part("tool_use", n, <<Rs!Obj([quests |-> Rs!Arr(<<Rs!Obj(PlainQuest)>>)])>>)>> :
                 t \in {<<>>, <<[type |-> "garbage"]>>, <<Rs!Obj([quests |-> Rs!Arr(<<>>)])>>}, n \in {"written_quests", "other"}}}])
AskRequest == Ask("request", [provider : {"anthropic", "openai", "ollama"}, schema : {<<>>, <<Rs!NoteSchema>>, <<Rs!QuestSchema>>},
  request : [system : {"s"}, max_tokens : {0, 4096}, messages : Upto([role : {"user", "assistant", "corpus_data"}, content : {"s", "t"}], 2)]])
Vector(i, d) == [of |-> i, dimensions |-> d]
AskVectors == Ask("vectors", [inputs : {[i \in 1..n |-> i] : n \in 0..4}, dimensions : {1},
  replies : Upto({<<>>, <<Vector(1, 1)>>, <<Vector(1, 1), Vector(2, 1)>>, <<Vector(3, 1), Vector(4, 1)>>, <<Vector(3, 1)>>, <<Vector(3, 2)>>, <<Vector(2, 1), Vector(3, 1)>>}, 2)])
Faithful(v) == \A b \in DOMAIN v.replies : \A i \in DOMAIN v.replies[b] : v.replies[b][i].of = (b - 1) * Batch + i
\* A provider's answer is taken whole, in order and as the schema has it, or
\* refused; what was cut off is never taken (llm providers, schema.rs).
RepliesAreTaken ==
  /\ topic = "value" => Rs!SchemasAreReadable(given.value, given.schema, given.extra)
  /\ topic = "reply" => Rs!RepliesAreWhole(given.provider, given.reply, given.ids)
  /\ topic = "request" => Rs!NotesAreNotInstructions(given.provider, given.request, given.schema)
  /\ topic = "vectors" /\ Faithful(given) => Rs!VectorsAreTheirOwn(given.inputs, given.dimensions, given.replies)

AskSecret == Ask("secret", Upto({"a", "b", "-", "h", "H", ":", "I", "sp", "nl", "0"}, 4))
Figures == {"0", "1", "4", "9"}
AskCard == Ask("card", [digits : Upto(Figures, 3), wrong : Upto(Figures, 3)])
Person(n, name) == [id |-> n, rank |-> n, name |-> name, pseudonym |-> <<<<"P1">>, <<"P2">>, <<"P3">>>>[n]]
People == {Person(1, <<"a">>), Person(2, <<"a", "sp", "b">>), Person(3, <<"b">>), Person(3, <<"A", "sp", "a">>)}
AskNames == Ask("names", [text : Upto({"a", "b", "A", "I", "sp"}, 4), table : {t \in Upto(People, 2) : Len(t) = 2 => t[1].id # t[2].id}, wanted : {{}, {1}}])
\* The order of texts of at most two glyphs: "/" comes before letters.
TextRank(text) == FoldLeft(LAMBDA n, k : 4 * n + (IF k > Len(text) THEN 0 ELSE [g \in {"</corpus", "<corpus", "a"} |->
                    CASE g = "</corpus" -> 1 [] g = "<corpus" -> 2 [] OTHER -> 3][text[k]]), 0, <<1, 2>>)
Block(text, salience) == [text |-> text, rank |-> TextRank(text), salience |-> salience, trust |-> "first-party"]
Blocks == {Block(t, s) : t \in Upto({"<corpus", "</corpus", "a"}, 2), s \in {0, 500}}
AskPrompt == Ask("prompt", [blocks : Upto(Blocks, 2), turns : {<<>>, <<<<"a", "a">>>>}, budget : {4, 9, 14, 30}, overhead : {3, 12}])
AskRow == Ask("row", [entry : [at : {1, 8}, task : Rd!Tasks \cup {"later"}, bytes : {0, 7}, digest : {<<>>, <<"d">>}, deny_reason : {<<>>},
                              decision : {[type |-> "allow"], [type |-> "allow_redacted", plan |-> <<1>>], [type |-> "deny", reason |-> "secret_content"]}],
                      unknown : {"allow_later", "deny", "later"}])
\* In a text whose lower case is as long as the text each key and the first of
\* each kind of password is found where it stands, and a row of digits is a card or
\* not however it is spaced; every name that stands as a word of its own is
\* replaced, without regard to case where that moves no offset; no corpus text
\* opens or closes a block, and what is dropped is less salient or larger than
\* what is kept; and a row reads back as it was decided, an unknown one as a
\* denial (secrets.rs, pseudonym.rs, prompt.rs, audit rows of the engine).
PayloadsAreRedacted ==
  /\ topic = "secret" => Rd!SecretsAreSeen(given)
  /\ topic = "card" => Rd!CardsAreCards(given.digits, given.wrong)
  /\ topic = "names" => Rd!NamesAreReplaced(given.text, given.table, given.wanted)
  /\ topic = "prompt" => Rd!BlocksAreClosed(given.blocks, given.turns, given.budget, given.overhead)
  /\ topic = "row" => Rd!RowsComeBack(given.entry, given.unknown)

CrLf == <<"cr", "nl">>
Targets == {<<"/">>, <<"/", "a", "?", ".", ".">>, <<"/", ".", ".">>, <<"/", ".", "%", "2", "e">>, <<"/", "%", "2", "5", "2">>, <<"a">>, <<"/", "%", "2">>}
RequestLines == {<<m, "sp">> \o t \o v : m \in {"GET", "POST", "PUT"}, t \in Targets, v \in {<<>>, <<"sp", "v">>}}
HeaderLines == {<<"Host", ":", "here">>, <<"Content-Length", ":", "1">>, <<"Content-Length", ":", "3">>, <<"Content-Length", ":", "x">>, <<"sp", "Authorization", ":", "Bearer", "sp", "k", "sp">>,
                <<"Transfer-Encoding", ":", "x">>, <<"x">>}
Sent(l, hs, b) == l \o CrLf \o FlattenSeq([i \in DOMAIN hs |-> hs[i] \o CrLf]) \o CrLf \o b
AskBytes ==
  \/ Ask("bytes", [buf : {Sent(l, h, <<>>) : l \in RequestLines, h \in Upto({<<"Host", ":", "here">>}, 1)}, cut : 0..8])
  \/ Ask("bytes", [buf : {Sent(<<"POST", "sp", "/", "sp", "v">>, h, b) : h \in Upto(HeaderLines, 2), b \in {<<>>, <<"b">>, <<"b", "b">>}}
                        \cup {Sent(<<"GET", "sp", "/", "sp", "v">>, [i \in 1..4 |-> <<"x", ":">>], <<>>)}, cut : 4..28])
Keyed == [method : {"GET", "POST"}, bearer : {<<>>, <<<<"k">>>>, <<<<"j">>>>, <<<<"k", "k">>>>}, host : {<<<<"here">>>>, <<<<"HERE">>>>},
          origin : {<<>>, <<<<"http://", "here">>>>, <<<<"http://", "there">>>>, <<<<"null">>>>},
          path : {<<"/">>, <<"/", "x">>} \cup {<<"/", "api", "/">> \o r : r \in Rq!Reads \cup {<<"quests/", "issue">>, <<"journal">>, <<"quests/", "q1", "/answer">>, <<"quests/", "q2", "/answer">>, <<"quests/", "garbage", "/answer">>, <<"quests/", "q1">>}}]
Kinds == {[type |-> "prediction", claim |-> <<"c">>], [type |-> "voice_probe", prompt |-> <<"p">>, answer |-> <<"c">>],
          [type |-> "cloze", before |-> <<"p">>, after |-> <<"t">>, answer |-> <<"c">>]}
         \cup [type : {"preference"}, a : {<<"c">>}, b : {<<"d">>}, choice : {"a", "b"}]
Done(error) == [error |-> error, views |-> <<>>]
Engines == {[quests |-> ("q1" :> [kind |-> k]), read |-> Done(r), issue |-> Done("none"), journal |-> Done("none"), answer |-> Done(a)] :
              k \in Kinds, r \in {"none", "Locked"}, a \in {"none", "Expired", "CommitmentMismatch", "Other"}}
Said1 == [type : {"verdict"}, verdict : {"confirm", "Confirm", "correct", "reject", "unknown", "void", "maybe"}, text : {<<>>, <<<<"sp">>>>, <<<<"sp", "w">>>>}, severity : {<<>>, <<"major">>, <<"grave">>}]
AskPage == Ask("request to the page", [engine : {e \in Engines : e.quests["q1"].kind.type = "cloze"}, request : Keyed,
                                       body : {[type |-> "garbage"], [type |-> "journal", note |-> <<"sp">>]} \cup {b \in Said1 : b.verdict = "confirm" /\ b.severity = <<>>}])
AskQuest == Ask("quest", [kind : Kinds])
AskVerdict == Ask("verdict", Said1)
\* A request is read the same in whatever pieces it arrives, and answered only
\* if it comes from this page with this token (http.rs, api.rs).
RequestsAreTheirOwn ==
  /\ topic = "bytes" => Rq!ArrivalIsNoMatter(given.buf, given.cut)
  /\ topic = "request to the page" => Rq!OnlyTheHolderIsTold(given.engine, <<"k">>, given.request, given.body)
  /\ topic = "quest" => Rq!AnswerIsShownOnce(given)
  /\ topic = "verdict" => Rq!VerdictsAreSaid(given)

Dek == <<"k">>
Remembered(id, occurred, salience, sensitivity) ==
  [id |-> id, source |-> 5, occurred |-> occurred, ingested |-> [ms |-> 7, off |-> 1], kind |-> "fact", text |-> <<"t">>,
   structured |-> <<"s">>, redactions |-> <<1>>, entities |-> {1}, salience |-> salience, sensitivity |-> sensitivity,
   external_id |-> <<"e">>, url |-> <<>>, raw_hash |-> 3, ghost |-> TRUE, salt |-> 4, supersedes |-> <<2>>, embedding |-> <<1>>]
AskMemoryRow ==
  Ask("memory row", {[Remembered(1, o, s, v) EXCEPT !.kind = k, !.ghost = g, !.structured = x] :
    o \in {<<>>, <<[ms |-> 3, off |-> 2]>>}, s \in {0, 4, 5, 14, 15, 19, 20, 21}, v \in {"public", "private", "secret"},
    k \in {"utterance", "observation", "artifact"}, g \in BOOLEAN, x \in {<<>>, <<"s">>}})
AskTag == Ask("tag", {"public", "private", "secret", "first_party", "self_reported", "third_party", "Private", "", "shared", "unlisted", "first party"})
AskDayRow ==
  Ask("day row", {[seq |-> n, date |-> n, tz |-> "home", from |-> [ms |-> n, off |-> off], to |-> [ms |-> n + 1, off |-> off], empty |-> e,
    story |-> <<"s", n>>, root |-> 1, prev |-> 2, link |-> 3, leaf_count |-> c, version |-> v, sealed_at |-> [ms |-> 9, off |-> off]] :
    n \in 1..2, off \in 0..2, e \in BOOLEAN, c \in 1..2, v \in {"memories_only", "with_quests", "with_more"}})
NewSource(id, kind, config, trust) == [id |-> id, kind |-> kind, config |-> config, trust |-> trust, sensitivity |-> "private"]
AskSourceRow ==
  Ask("source row", {[first |-> NewSource(1, k, c, t), second |-> s] :
    k \in {"journal", "verdict_holdout"}, c \in {<<>>, <<"sp">>, <<"a">>, <<"sp", "a", "sp">>, <<"a", "sp", "a">>}, t \in {"first_party", "third_party"},
    s \in {NewSource(2, k2, c2, "first_party") : k2 \in {"journal", "verdict_holdout"}, c2 \in {<<>>, <<"a">>, <<"a", "sp", "a">>}}
           \cup {Rw!VerdictSource(h, 2) : h \in BOOLEAN}})
Asked == [id |-> 1, issued_for |-> 3, persona |-> <<1, "c">>, kind |-> "Cloze", facet |-> "voice", difficulty |-> 5, confidence |-> 15, commitment |-> "h",
          holdout |-> FALSE, decoy |-> FALSE, leaf_salt |-> 8, verdict_salt |-> 9, expires_at |-> 5, status |-> "open", verdict |-> <<>>]
AskLeaf ==
  Ask("leaf", {[quest |-> [Asked EXCEPT !.holdout = h, !.decoy = d, !.difficulty = r],
                other |-> [Asked EXCEPT !.holdout = h2, !.decoy = d2, !.difficulty = r2, !.confidence = c2, !.kind = k2, !.persona[1] = p2],
                verdict |-> v, at |-> at] :
    h \in BOOLEAN, d \in BOOLEAN, r \in {4, 5}, h2 \in BOOLEAN, d2 \in BOOLEAN, r2 \in {4, 14}, c2 \in {14, 15}, k2 \in {"Cloze", "Prediction"}, p2 \in 1..2,
    v \in {[type |-> "correct", severity |-> s, said |-> <<"z">>] : s \in {"minor", "major"}} \cup {[type |-> "confirm", said |-> <<>>]}, at \in {0, 4}})
Ids == [1..3 -> {"a", "b"}]
AskShortName ==
  Ask("short name", {{Rw!QuestRow(Dek, [Asked EXCEPT !.id = id]) : id \in ids} : ids \in {S \in SUBSET Ids : S # {} /\ Cardinality(S) <= 3}})
\* A row is read back as it was written, and foreign words in it grant nothing
\* (sqlite.rs).
RowsComeBack ==
  CASE topic = "memory row" -> Rw!MemoryComesBack(given, Dek, 1..3)
    [] topic = "tag" -> Rw!ForeignWordsGrantNothing(given)
    [] topic = "day row" -> Rw!DayComesBack(given, Dek)
    [] topic = "source row" -> Rw!SourcesAreKept(Dek, given.first, given.second)
    [] topic = "leaf" -> Rw!LeavesStay(Dek, given.quest, given.verdict, given.at, given.other)
    [] topic = "short name" -> Rw!NamesFindTheirOwn(Dek, given)
    [] OTHER -> TRUE

Candidate(id, at, sensitivity, similarity, length) ==
  [id |-> id, at |-> at, sensitivity |-> sensitivity, similarity |-> similarity, length |-> length, salience |-> 500]
Candidates(id) ==
  {Candidate(id, at, v, s, n) : at \in {<<>>, <<1>>, <<4>>}, v \in {"public", "secret"}, s \in {<<>>, <<-2000>>, <<600>>}, n \in {1, 3}}
AskSelection ==
  Ask("selection", {[query |-> [ceiling |-> "private", exclude |-> x, bias |-> b], candidates |-> <<c, d>> \o e, budget |-> n] :
    x \in {{}, {2}}, b \in {0, 500, 1200}, c \in {k \in Candidates(1) : k.sensitivity = "public"}, d \in Candidates(2),
    e \in {<<>>} \cup {<<Candidate(3, <<2>>, v, s, 2)>> : v \in {"public", "private"}, s \in {<<0>>, <<600>>}}, n \in {1, 2}})
AskCorpus ==
  Ask("corpus", {[i \in DOMAIN vs |-> [id |-> i, sensitivity |-> vs[i]]] : vs \in Upto({"public", "private", "secret"}, 4)})
AskExemplars ==
  Ask("exemplars", {[exemplars |-> ids, texts |-> ts] : ids \in Upto(1..3, 3), ts \in [1..3 -> {"text", "missing", "shredded", "unreadable"}]})
AskStage ==
  Ask("stage", {v \in [memories : 0..2, own : 0..2, sources : 0..2, persona : BOOLEAN, open : 0..2] : v.own <= v.memories /\ (v.open > 0 => v.persona)})
\* Selection keeps its ceiling and budget, secrets are withheld and counted, and
\* where all that is held is the owner's own the advice of a stage leads on
\* (retrieval.rs, ops.rs).
ReadingsAreHonest ==
  CASE topic = "selection" -> Rg!SelectionIsFair(given.query, given.candidates, given.budget)
    [] topic = "corpus" -> Rg!SecretsAreWithheld(given)
    [] topic = "exemplars" -> Rg!VoiceSurvivesShredding(given.exemplars, given.texts)
    [] topic = "stage" -> given.own = given.memories => Rg!AdviceLeadsOn(given)
    [] OTHER -> TRUE
\* Fails: a stage counts what was shredded, and what others wrote.
AdviceIsGood == topic = "stage" => Rg!AdviceLeadsOn(given)
\* Fails: recency is measured between all candidates.
HoldoutHasNoPart == topic = "selection" => Rg!ExcludedHasNoPart(given.query, given.candidates, given.budget)

World(env, typed, vault, failing, relays, intact) ==
  [env |-> env, typed |-> typed, vault |-> vault, failing |-> failing, relays |-> relays, intact |-> intact, short |-> "memoria" \in failing,
   noticed |-> relays, zones |-> {"UTC"}, days |-> {1}, provider |-> <<>>]
Whole == [chain |-> TRUE, roots |-> TRUE]
Commands ==
  Cm!GhostCommand({"some"}) \cup Cm!JournalCommand({"some"}) \cup Cm!PersonaCommand \cup Cm!EgressCommand \cup Cm!FootageCommand
  \cup Cm!SourceCommand({"journal", "nostr", "mastodon"}, {"some"},
       {[npub |-> n, key |-> k, digits |-> d, hex |-> TRUE, text |-> "f"] : n \in BOOLEAN, k \in {<<>>, <<"key">>}, d \in {63, 64}}, {"r"})
  \cup Cm!QuestCommand({"yesterday", "12", "some"}, {"a"}, {"Confirm", "correct", "no", "void", "maybe"}, Texts, {" Major", "maybe"})
  \cup Cm!Command({"Today", "some"}, {[form |-> f, host |-> h, port |-> 80] : f \in {"address", "port", "host", "none"}, h \in {"::1", "0.0.0.0"}}, {"Mars"})
AskInvocation ==
  Ask("invocation", {[command |-> c, world |-> World(<<"p">>, <<>>, <<"p">>, f, r, Whole)] : c \in Commands, r \in BOOLEAN,
    f \in {{}, {"upgrade_anchors"}, {"adopt_persona", "fidelity"}, {"find_quest", "memoria", "fidelity"}, {"answer_quest", "manifest"}}})
AskTerminal ==
  Ask("terminal", {[command |-> c, world |-> World(e, t, v, f, TRUE, k)] :
    c \in {d \in Commands : d.name \in {"init", "passphrase", "verify", "journal add", "memoria"}}, e \in {<<>>, <<"p">>, <<"q">>}, t \in Upto({"p", "q"}, 3),
    v \in {<<>>, <<"p">>}, f \in {{}, {"change_passphrase"}}, k \in [chain : BOOLEAN, roots : BOOLEAN]})
AskConfig ==
  Ask("config", Upto({<<"#", "auto_seal", "=", "true">>, <<"sp">>, <<"auto_seal", "sp", "=", "true">>, <<"auto_seal", "=", "quote", "true", "quote">>,
    <<"auto_seal", "=", "false">>, <<"auto_seal", "=", "yes">>, <<"relays", "=", "[", "quote", "a", "quote", ",", "quote", "b", "quote", "]">>,
    <<"publish_scopes", "=", "backup", ",", "sp", "notes">>, <<"publish_scopes", "=", "[", "]">>, <<"seal_grace_hours", "=", "12">>,
    <<"seal_grace_hours", "=", "x">>, <<"auto_anhcor", "=", "true">>, <<"true">>}, 3))
AskSpoken ==
  Ask("spoken", [verdict : {"confirm", "Confirm", "yes", "correct", "reject", "no", "unknown", "void", "maybe"},
                 text : {<<>>} \cup {<<t>> : t \in Texts}, severity : {<<>>, <<"major">>, <<" Major">>, <<"maybe">>}])
CommandHolds(world, command, s) ==
  Cm!RefusedChangesNothing(world, s) /\ Cm!ExitTells(world, s) /\ Cm!OnlyWhatWasSaid(command, s)
\* A refused command changes nothing, the exit code tells, and a switch is off
\* unless it was written on (main.rs, config.rs).
CommandsDoWhatTheySay ==
  CASE topic \in {"invocation", "terminal"} -> CommandHolds(given.world, given.command, Cm!Invoked(given.world, given.command))
    [] topic = "config" -> Cm!ConfigSaysWhatIsWritten(given)
    [] topic = "spoken" -> Cm!SameVerdict(given, Rq!ParseVerdict)
    [] OTHER -> TRUE
\* Fails: the new passphrase may come from where the old one did.
PassphraseChanged == topic = "terminal" => Cm!OldNoLongerOpens(given.world, Cm!Invoked(given.world, given.command))

Body(name, pubkey) == [name |-> name, pubkey |-> pubkey, kind |-> 1, at |-> 1, p |-> "p", for |-> "c", content |-> name]
By(key, body) == [id |-> body, body |-> body, sig |-> [key |-> key, of |-> body]]
Bodies == {[Body("e", k) EXCEPT !.kind = n, !.at = t, !.p = p] : k \in {"k", "l"}, n \in 1..2, t \in 1..2, p \in {"p", "q"}}
AskFilter ==
  Ask("filter", {[filter |-> [Wi!AnyFilter EXCEPT !.authors = a, !.kinds = k, !.raw_kinds = r, !.p_tags = p, !.since = s], event |-> By(b.pubkey, b)] :
    a \in SUBSET {"k"}, k \in SUBSET {1}, r \in SUBSET {1, 2}, p \in SUBSET {"p"}, s \in {<<>>, <<2>>}, b \in Bodies})
AskBunker ==
  Ask("bunker", {[scheme |-> s, key |-> [hex |-> TRUE, bytes |-> n, key |-> k], query |-> q] : s \in {"bunker", "nostrconnect"}, n \in {31, 32}, k \in {"k", "x"},
    q \in Upto({[name |-> "relay", value |-> v] : v \in {<<"wss://", "%", "a", "b">>, <<"%", "c", "d", "h">>, <<"http://", "h">>, <<>>}}
                \cup {[name |-> n2, value |-> <<"v", "%">>] : n2 \in {"secret", "perms"}}, 3)})
\* A filter asks for what it means, and a bunker's address is one (wire.rs, bunker.rs).
AddressesAreMeant ==
  CASE topic = "filter" -> Wi!FilterMeansWhatItSays(given.filter, given.event)
    [] topic = "bunker" -> Wi!BunkerIsNamed(given, (<<"a", "b">> :> "h") @@ (<<"c", "d">> :> "ws://"))
    [] OTHER -> TRUE

Sprouts == {At!Pending("c"), At!Bitcoin("h1")}
Trees == Sprouts \cup {At!Op("a", s) : s \in Sprouts} \cup {At!Fork(s, t) : s, t \in Sprouts \cup {At!Pending("d"), At!Op("a", At!Pending("c"))}}
         \cup {At!Op("b", At!Fork(At!Pending("d"), At!Op("a", At!Pending("c")))), At!Fork(At!Fork(At!Pending("c"), At!Pending("d")), At!Bitcoin("h2"))}
Answers == {[kind |-> "none", what |-> "", next |-> <<>>], At!Junk, At!Bitcoin("h3"), At!Op("e", At!Bitcoin("h1")), At!Pending("c"), At!Op("e", At!Pending("d"))}
AskProof == Ask("proof", [digest : {"m", "n"}, file : [digest : {"m"}, step : Trees], answers : [{"c", "d"} -> Answers]])
AskSubmission ==
  Ask("submission", [calendars : {<<>>, <<"c">>, <<"d", "c">>}, posts : [{"c", "d"} -> {[kind |-> "none"], [kind |-> "empty"], [kind |-> "body", of |-> "c"], [kind |-> "body", of |-> "d"]}]])
AskAttestation ==
  Ask("attestation", [window : {"rolling30", "all", "decade"},
    vault : [chain : {"c"}, ghost : {"g"}, identity : {"i"}, genesis : {"l1"}, persona : {<<>>, <<3>>}, device : {<<>>}, scopes : SUBSET {"fidelity", "ghost_notes"},
             score : {<<>>} \cup {<<[overall |-> 700, seq |-> n]>> : n \in 0..2}, links : {<<>>, <<"l1">>, <<"l1", "l2">>},
             proofs : {[n \in N |-> <<n, 250>>] : N \in SUBSET {1, 2}}, accepting : BOOLEAN]])
AskLetters == Ask("letters", Upto({0, 1, 77, 250, 255}, 4))
NamedDays == [seq : {1, 2}, date : {3, 12}, tz : {<<>>, <<"u">>, <<"u", "v">>}, count : {0, 1}]
AskMeta == Ask("meta", NamedDays \X NamedDays)
\* An upgrade loses no attestation of a proof and adds only what was answered,
\* and an attestation passes the checks of its reader (ots.rs, ghost.rs).
ProofsAndClaimsHold ==
  CASE topic = "proof" -> At!ProofsOnlyGrow(given.digest, given.file, given.answers)
    [] topic = "submission" -> At!SubmissionsAreProofs(given.calendars, given.posts)
    [] topic = "attestation" -> At!AttestationsHold(given.vault, given.window) /\ At!NotesNameTheirPrincipal(given.vault)
    [] topic = "letters" -> At!LettersComeBack(given)
    [] topic = "meta" -> At!DaysAreNamed(given[1], given[2])
    [] OTHER -> TRUE

AskVerified ==
  Ask("verified", {r \in [days : 0..3, chain_ok : BOOLEAN, roots_ok : BOOLEAN, unchecked : 0..3, first_bad : {<<>>, <<2>>}, anchored : 0..3, pending : 0..3] :
    /\ r.unchecked <= r.days /\ r.anchored + r.pending <= r.days
    /\ r.first_bad = <<>> <=> r.chain_ok /\ r.roots_ok})
ShownKinds == {[type |-> "preference", a |-> "x", b |-> "y", choice |-> c] : c \in {"a", "b"}}
              \cup {[type |-> "cloze", context |-> <<"s", w, "t">>, start |-> n, end |-> n + 1, word |-> w] : w \in {"u", "v"}, n \in 1..2}
Showable == [id : {"q"}, facet : {"voice"}, kind : ShownKinds, persona : {3}, expires : {9}, commitment : {"c"}, confidence : {400, 900},
             verdict : {<<>>, <<"confirm">>}, decoy : BOOLEAN, holdout : {TRUE}]
AskShownQuest == Ask("shown quest", Showable \X Showable)
ShownDays == [seq : {4}, empty : {FALSE}, memories : {<<"m">>}, link : {"l"}, prev : {"p"}, root : {"r"}, highlights : {<<>>, <<"h">>}, threads : {<<>>, <<"t">>},
              closed : 0..1, unresolved : {<<>>}, amendments : {<<>>, <<"a">>}]
AskRecap ==
  Ask("recap", {r \in [recap : [sealed : BOOLEAN, day : ShownDays \cup {[d EXCEPT !.empty = TRUE, !.memories = <<>>, !.highlights = <<>>, !.closed = 0] : d \in ShownDays}], quests : 0..1, verdicts : 0..1, link : {"k"}] :
                  ~r.recap.sealed => r.recap.day.amendments = <<>>})
AskUpgraded == Ask("upgraded", [asked : 0..3, confirmed : 0..3, still_pending : 0..3, abandoned : 0..1])
AskListing ==
  Ask("listing", [records : Upto([at : {1, 2}, decision : {"allow", "deny"}, bytes : {0}, deny : {<<>>, <<"why">>}, entities : 0..1, digest : {<<>>, <<"d">>}], 2),
                  days : {<<>>, <<[seq |-> 1, memories |-> <<>>, link |-> "l1"], [seq |-> 2, memories |-> <<"m">>, link |-> "l2"]>>},
                  anchors : {<<>>, <<<<>>, <<[state |-> "pending"]>>>>}])
AskBanner == Ask("banner", [bind : {<<>>, <<"127.0.0.1">>, <<"0.0.0.0">>}, token : {"tok"}, hostname : {"", "box"}])
AskScoreText ==
  Ask("score text", [overall : {0, 500, 995}, sample : {0, 4}, interval : {<<0, 900>>}, trend : {<<>>} \cup {<<t>> : t \in {0, 491, 509, 510, 1000}}, ece : {5}, seq : {2},
                     by_facet : {<<>>, <<[facet |-> "voice", score |-> 1, sample |-> 1]>>}, decoy_rate : {0}, decoys : {0}, fast : {0}, streak : {0}, expiry : {0}, converged : BOOLEAN])
AskPhrase == Ask("phrase", [npub : {"n"}, genesis : {"g"}, mnemonic : {<<>>, <<"w", "v", "w">>}, imported : BOOLEAN])
Manifests == [ghost_pubkey : {"g", "h"}, chain_id : {"c"}, ordinal : 0..1, sealing_device : {"", "d"}, status : {"active", "suspended", "revoked"},
              policy : [may_publish_notes : BOOLEAN, may_reply : {FALSE}, publishes_fidelity : BOOLEAN]]
AskManifests == Ask("manifests", Manifests \X Manifests)
\* What is not checked is not called OK, an open quest does not tell its answer,
\* a preview has no link, and counts add up (render.rs).
ShownIsTrue ==
  CASE topic = "verified" -> Sh!VerifyOverstatesNothing(given)
    [] topic = "shown quest" -> Sh!OpenQuestsStaySealed(given[1], given[2], [k \in ShownKinds |-> Qs!Present(k)])
    [] topic = "recap" -> Sh!PreviewsCommitNothing(given.recap, given.quests, given.verdicts, given.link)
    [] topic = "upgraded" -> Sh!UpgradesAddUp(given)
    [] topic = "listing" -> Sh!NothingIsSkipped(given.records, given.days, given.anchors)
    [] topic = "banner" -> Sh!BannerIsTold(given.bind, given.token, Loopback, given.hostname)
    [] topic = "score text" -> Sh!FidelityIsNeverBare(given)
    [] topic = "phrase" -> Sh!PhraseIsTold(given)
    [] topic = "manifests" -> Sh!ManifestsAreTold(given[1], given[2])
    [] OTHER -> TRUE
\* Fails: of a day without memories neither its amendments nor its threads are
\* told, and a preview of one says that it sealed.
CorrectionsAreShown == topic = "recap" => Sh!AmendmentsAreShown(given.recap)
PreviewsSayNoSeal == topic = "recap" => Sh!PreviewSaysNoSeal(given.recap)

-----------------------------------------------------------------------------
(* What is checked of all of it. *)

\* A batch gives every facet with evidence its turn, asks nothing that is open
\* or was asked, keeps the share of held-out and decoy quests, and no screen
\* can show the word a cloze hides (generate.rs, view.rs).
QuestsAreFair == BatchesAreFair /\ AnswersStaySealed
\* A persona rests on what its owner wrote, whatever the order of the notes, a
\* claim on memories, and a held-out correction has no part in it (distill.rs).
PersonasAreGrounded == VoicesAreStable /\ ProposalsAreGrounded
\* Whatever a day's notes say, its draft is one that seals, and a summary is
\* made of its note's own sentences (compose.rs, summarize.rs, pipeline.rs).
DaysSealAsWritten == DaysAreSealable /\ SummariesAreExtracts
\* Two trees with one root have the same leaves, a padded payload and a
\* canonical value are read back, an event or a wrap is opened by the account
\* it is for and by no other, a filter or an address means what it says, a
\* proof only grows and what a stranger is shown passes the checks he makes
\* (merkle.rs, canonical.rs, codec.rs, wire.rs, bunker.rs, ots.rs, ghost.rs).
EncodingsHold == RootsAreExact /\ EncodingsComeBack /\ EventsStayPrivate /\ AddressesAreMeant /\ ProofsAndClaimsHold
\* The page and the terminal do what was said and no more, refuse without a
\* trace, and what they show is what is so (http.rs, api.rs, main.rs, render.rs).
ScreensAreTrue == RequestsAreTheirOwn /\ CommandsDoWhatTheySay /\ ShownIsTrue
\* A row is read back as it was written, under the key of its own vault; a
\* prompt is made of what it may be made of (sqlite.rs, retrieval.rs, ops.rs).
ReadsAreHonest == RowsComeBack /\ ReadingsAreHonest

Next == AskVerified \/ AskShownQuest \/ AskRecap \/ AskUpgraded \/ AskListing \/ AskBanner \/ AskScoreText \/ AskPhrase \/ AskManifests
        \/ AskProof \/ AskSubmission \/ AskAttestation \/ AskLetters \/ AskMeta
        \/ AskFilter \/ AskBunker
        \/ AskInvocation \/ AskTerminal \/ AskConfig \/ AskSpoken
        \/ AskSelection \/ AskCorpus \/ AskExemplars \/ AskStage
        \/ AskMemoryRow \/ AskTag \/ AskDayRow \/ AskSourceRow \/ AskLeaf \/ AskShortName
        \/ AskBytes \/ AskPage \/ AskQuest \/ AskVerdict \/ AskSecret \/ AskCard \/ AskNames \/ AskPrompt \/ AskRow \/ AskValue \/ AskReply \/ AskRequest \/ AskVectors \/ AskEvent \/ AskWrap \/ AskTree \/ AskPayload \/ AskEntity \/ AskCanonical \/ AskSummary \/ AskDay \/ AskVoice \/ AskProposal \/ AskBatch \/ AskCloze \/ AskReport \/ AskTrend
Spec == Init /\ [][Next]_vars
=============================================================================
