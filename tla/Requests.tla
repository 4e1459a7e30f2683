------------------------------- MODULE Requests -----------------------------
(***************************************************************************)
(* What one request to the page is read as and what it is answered: the    *)
(* HTTP parser, the routes, the views of quests and verdicts.              *)
(*                                                                         *)
(* Bytes are glyphs; a known word (a header's name, a method, a scheme) is *)
(* one glyph. A status is a string; the engine, its operations and the     *)
(* JSON values in bodies are given.                                        *)
(***************************************************************************)
EXTENDS Integers, FiniteSets, SequencesExt

CONSTANTS MaxRequestLine, MaxHeaderBytes, MaxHeaders, MaxBody, MaxRequest,
          LowerName,  \* a header's name or host -> its lower case
          Lowered,    \* a word -> it without spaces around it, in lower case
          Figure,     \* digit glyph -> its value
          Hex         \* two glyphs after % -> the glyph they stand for

Ends == <<"cr", "nl", "cr", "nl">>
IsAt(buf, part, i) == i + Len(part) - 1 <= Len(buf) /\ SubSeq(buf, i, i + Len(part) - 1) = part
Least(S) == CHOOSE n \in S : \A k \in S : n <= k
LeastOr0(S) == IF S = {} THEN 0 ELSE Least(S)
HeadEnd(buf) == LeastOr0({i \in DOMAIN buf : IsAt(buf, Ends, i)})
\* The first of the separators in the text, or 0.
FirstOf(text, seps) == LeastOr0({i \in DOMAIN text : text[i] \in seps})
RECURSIVE SplitFrom(_, _, _)
SplitFrom(text, seps, at) ==
  IF at = 0 THEN <<text>>
  ELSE <<SubSeq(text, 1, at - 1)>> \o SplitFrom(SubSeq(text, at + 1, Len(text)), seps, FirstOf(SubSeq(text, at + 1, Len(text)), seps))
SplitAt(text, seps) == SplitFrom(text, seps, FirstOf(text, seps))
RECURSIVE Trim(_)
Trim(text) ==
  IF text = <<>> THEN text
  ELSE IF Head(text) \in {"sp", "cr"} THEN Trim(Tail(text)) ELSE IF Last(text) \in {"sp", "cr"} THEN Trim(Front(text)) ELSE text
StripCr(line) == IF line # <<>> /\ Last(line) = "cr" THEN Front(line) ELSE line

-----------------------------------------------------------------------------
(* The parser. *)

Refused(status) == [done |-> "refused", status |-> status]

\* <<>> for an escape that is none.
Before(c, rest) == IF rest = <<>> THEN <<>> ELSE <<<<c>> \o rest[1]>>
RECURSIVE PercentDecode(_)
PercentDecode(path) ==
  IF path = <<>> THEN <<<<>>>>
  ELSE IF Head(path) # "%" THEN Before(Head(path), PercentDecode(Tail(path)))
  ELSE IF Len(path) < 3 \/ SubSeq(path, 2, 3) \notin DOMAIN Hex THEN <<>>
  ELSE Before(Hex[SubSeq(path, 2, 3)], PercentDecode(SubSeq(path, 4, Len(path))))

Goes(path) == \A i \in 1..Len(path) - 1 : ~(path[i] = "." /\ path[i + 1] = ".")

Walkable(path) == IF path # <<>> /\ path[1] # <<>> /\ Head(path[1]) = "/" /\ Goes(path[1]) THEN path ELSE <<>>
PathOf(target) == Walkable(PercentDecode(SplitAt(target, {"?", "#"})[1]))

\* A method, a target and a version.
Asking(method, path) == IF path = <<>> THEN Refused("BadRequest") ELSE [done |-> "line", method |-> method, path |-> path[1]]
LineOf(parts) ==
  IF parts[1] \notin {<<"GET">>, <<"POST">>} THEN Refused("MethodNotAllowed")
  ELSE IF Len(parts) < 3 THEN Refused("BadRequest")
  ELSE Asking(parts[1][1], PathOf(parts[2]))
ParseRequestLine(line) == LineOf(SplitAt(line, {"sp"}))

Number(text) ==
  IF text = <<>> \/ \E i \in DOMAIN text : text[i] \notin DOMAIN Figure THEN <<>>
  ELSE <<FoldLeft(LAMBDA n, c : 10 * n + Figure[c], 0, text)>>

\* A second length is refused, whether or not it says the same; of the other
\* names the last counts.
Lengthened(sofar, number) ==
  IF sofar.length # <<>> \/ number = <<>> THEN Refused("BadRequest")
  ELSE IF number[1] > MaxBody THEN Refused("PayloadTooLarge") ELSE [sofar EXCEPT !.length = number]
Bearer(value) == IF IsAt(value, <<"Bearer", "sp">>, 1) THEN <<Trim(SubSeq(value, 3, Len(value)))>> ELSE <<>>
Lowercase(text) == [i \in DOMAIN text |-> LowerName[text[i]]]
Named(sofar, name, value) ==
  CASE name = <<"transfer-encoding">> -> Refused("BadRequest")
    [] name = <<"content-length">> -> Lengthened(sofar, Number(value))
    [] name = <<"authorization">> -> [sofar EXCEPT !.bearer = Bearer(value)]
    [] name = <<"origin">> -> [sofar EXCEPT !.origin = <<value>>]
    [] name = <<"host">> -> [sofar EXCEPT !.host = <<value>>]
    [] OTHER -> sofar
HeaderOf(sofar, line, colon) ==
  IF sofar.done = "refused" \/ line = <<>> THEN sofar
  ELSE IF sofar.count = MaxHeaders THEN Refused("PayloadTooLarge")
  ELSE IF colon = 0 THEN Refused("BadRequest")
  ELSE Named([sofar EXCEPT !.count = @ + 1], Lowercase(Trim(SubSeq(line, 1, colon - 1))), Trim(SubSeq(line, colon + 1, Len(line))))
Header(sofar, raw) == HeaderOf(sofar, StripCr(raw), FirstOf(StripCr(raw), {":"}))
NoHeaders == [done |-> "headers", count |-> 0, length |-> <<>>, bearer |-> <<>>, origin |-> <<>>, host |-> <<>>]

TotalOf(headEnd, length) == headEnd + 3 + length

Whole(buf, end, line, headers, total) ==
  IF Len(buf) < total THEN [done |-> "body", total |-> total]
  ELSE [done |-> "request", method |-> line.method, path |-> line.path, bearer |-> headers.bearer,
        origin |-> headers.origin, host |-> headers.host, body |-> SubSeq(buf, end + 4, total)]
ParsedOf(buf, end, line, headers) ==
  IF line.done = "refused" THEN line
  ELSE IF headers.done = "refused" THEN headers
  ELSE Whole(buf, end, line, headers, TotalOf(end, IF headers.length = <<>> THEN 0 ELSE headers.length[1]))
ParseLines(buf, end, lines) ==
  IF Len(StripCr(lines[1])) > MaxRequestLine THEN Refused("PayloadTooLarge")
  ELSE ParsedOf(buf, end, ParseRequestLine(StripCr(lines[1])), FoldLeft(Header, NoHeaders, Tail(lines)))
ParseHead(buf, end) ==
  IF end # 0 THEN ParseLines(buf, end, SplitAt(SubSeq(buf, 1, end - 1), {"nl"}))
  ELSE IF Len(buf) > MaxRequestLine + MaxHeaderBytes THEN Refused("PayloadTooLarge") ELSE [done |-> "more"]
Parse(buf) == ParseHead(buf, HeadEnd(buf))

\* Chunk after chunk, until it is whole or is refused; then the rest is not read.
RECURSIVE ReadOn(_, _, _)
ReadOn(buf, chunks, parsed) ==
  IF parsed.done \in {"request", "refused"} THEN parsed
  ELSE IF (parsed.done = "body" /\ parsed.total > MaxRequest) \/ Len(buf) >= MaxRequest THEN Refused("PayloadTooLarge")
  ELSE IF chunks = <<>> THEN Refused("BadRequest")
  ELSE ReadOn(buf \o Head(chunks), Tail(chunks), Parse(buf \o Head(chunks)))
ReadRequest(buf, chunks) == ReadOn(buf, chunks, Parse(buf))

-----------------------------------------------------------------------------
(* The routes. *)

Response(status, rule, says, views) == [status |-> status, rule |-> rule, says |-> says, views |-> views]
Refusal(status, rule) == Response(status, rule, "error", <<>>)
ErrorResponse(status) == Refusal(status, "")
Matches(token, presented) == Len(token) = Len(presented) /\ \A i \in DOMAIN token : token[i] = presented[i]
SameOrigin(origin, host) ==
  /\ host # <<>> /\ host[1] # <<>>
  /\ origin # <<>> /\ Head(origin) \in {"http://", "https://"}
  /\ Lowercase(Tail(origin)) = Lowercase(host[1])
Shell == {<<"/">>, <<"/", "index.html">>, <<"/", "manifest.webmanifest">>, <<"/", "icon.svg">>, <<"/", "icon.png">>}

Classify(error) ==
  CASE error \in {"AlreadyAnswered", "Expired"} -> "Conflict"
    [] error = "CommitmentMismatch" -> "Forbidden"
    [] error \in {"InsufficientSample", "Config"} -> "Unprocessable"
    [] error = "Locked" -> "Unauthorized"
    [] OTHER -> "ServerError"

\* What an operation did, or the error it ended with.
Outcome(result) == IF result.error = "none" THEN Response("Ok", "", "done", result.views)
                   ELSE IF Classify(result.error) = "Forbidden" THEN Refusal("Forbidden", "commitment_mismatch")
                   ELSE ErrorResponse(Classify(result.error))

Said(text) == IF text = <<>> \/ Trim(text[1]) = <<>> THEN <<>> ELSE <<Trim(text[1])>>
Void(words) == IF words = <<>> THEN <<>> ELSE <<[type |-> "void", reason |-> words[1]]>>
Correct(words, severity) ==
  IF words = <<>> \/ (severity # <<>> /\ severity[1] \notin {"major", "minor"}) THEN <<>>
  ELSE <<[type |-> "correct", correction |-> words[1], severity |-> IF severity = <<>> THEN "minor" ELSE severity[1]]>>
VerdictOf(word, words, severity) ==
  CASE word \in {"confirm", "unknown"} -> <<[type |-> word]>>
    [] word = "reject" -> <<[type |-> "reject", note |-> words]>>
    [] word = "void" -> Void(words)
    [] word = "correct" -> Correct(words, severity)
    [] OTHER -> <<>>
ParseVerdict(body) == VerdictOf(Lowered[body.verdict], Said(body.text), body.severity)

NoView == [prompt |-> <<>>, ghost_answer |-> <<>>, tail |-> <<>>, options |-> <<>>]
QuestView(kind) ==
  CASE kind.type = "prediction" -> [NoView EXCEPT !.prompt = kind.claim, !.tail = <<"by">>]
    [] kind.type \in {"voice_probe", "counterfactual", "recall"} -> [NoView EXCEPT !.prompt = kind.prompt, !.ghost_answer = kind.answer]
    [] kind.type = "preference" -> [NoView EXCEPT !.options = <<kind.a, kind.b>>]
    [] kind.type = "cloze" -> [NoView EXCEPT !.prompt = kind.before, !.tail = kind.after]

CommittedAnswer(kind) ==
  CASE kind.type = "prediction" -> kind.claim [] kind.type = "preference" -> IF kind.choice = "a" THEN kind.a ELSE kind.b
    [] OTHER -> kind.answer

RevealsUpfront(kind) == kind.type \notin {"cloze", "preference"}
AnsweredView(quest) ==
  [choice |-> IF quest.kind.type = "preference" THEN <<quest.kind.choice>> ELSE <<>>,
   answer |-> IF RevealsUpfront(quest.kind) THEN <<>> ELSE <<CommittedAnswer(quest.kind)>>]

\* The id ends in /answer and can be read; so can the body, and its verdict.
Answer(engine, rest, body) ==
  IF Len(rest) # 2 \/ rest[2] # "/answer" THEN ErrorResponse("NotFound")
  ELSE IF rest[1] = "garbage" \/ body.type # "verdict" THEN ErrorResponse("BadRequest")
  ELSE IF ParseVerdict(body) = <<>> THEN ErrorResponse("BadRequest")
  ELSE IF rest[1] \notin DOMAIN engine.quests THEN ErrorResponse("ServerError")
  ELSE Outcome([engine.answer EXCEPT !.views = <<AnsweredView(engine.quests[rest[1]])>>])
Journal(engine, body) ==
  IF body.type # "journal" \/ Trim(body.note) = <<>> THEN ErrorResponse("BadRequest") ELSE Outcome(engine.journal)

Reads == {<<"status">>, <<"quests">>, <<"fidelity">>, <<"recap">>}
Api(engine, method, rest, body) ==
  IF method = "GET" /\ rest = <<"quests">>
  THEN Outcome([engine.read EXCEPT !.views = SetToSeq({QuestView(engine.quests[q].kind) : q \in DOMAIN engine.quests})])
  ELSE IF method = "GET" /\ rest \in Reads THEN Outcome(engine.read)
  ELSE IF method = "POST" /\ rest = <<"quests/", "issue">> THEN Outcome(engine.issue)
  ELSE IF method = "POST" /\ rest = <<"journal">> THEN Journal(engine, body)
  ELSE IF method = "POST" /\ rest # <<>> /\ Head(rest) = "quests/" THEN Answer(engine, Tail(rest), body)
  ELSE ErrorResponse("NotFound")

\* What stands before every route but the page itself.
Guard(token, request) ==
  IF request.origin # <<>> /\ ~SameOrigin(request.origin[1], request.host) THEN <<Refusal("Forbidden", "cross_origin")>>
  ELSE IF request.bearer = <<>> \/ ~Matches(token, request.bearer[1]) THEN <<ErrorResponse("Unauthorized")>>
  ELSE <<>>

Past(refusal, engine, request, body) ==
  IF refusal # <<>> THEN refusal[1]
  ELSE IF ~IsAt(request.path, <<"/", "api", "/">>, 1) THEN ErrorResponse("NotFound")
  ELSE Api(engine, request.method, SubSeq(request.path, 4, Len(request.path)), body)
Route(engine, token, request, body) ==
  IF request.method = "GET" /\ request.path \in Shell THEN Response("Ok", "", "page", <<>>)
  ELSE Past(Guard(token, request), engine, request, body)

-----------------------------------------------------------------------------
(* What the page promises. *)

\* However the bytes of a request are cut into chunks, within its limits it is
\* read as the same request, and as no more than that; its path goes nowhere up;
\* and nothing waits for a body that is there.
ReadAsSent(buf, whole, length) ==
  /\ whole.path # <<>> /\ Head(whole.path) = "/" /\ \A i \in 1..Len(whole.path) - 1 : <<whole.path[i], whole.path[i + 1]>> # <<".", ".">>
  /\ \E i \in DOMAIN buf : IsAt(buf, Ends, i) /\ IsAt(buf, whole.body, i + 4)
  /\ length # 0 /\ length < HeadEnd(buf) =>
       Number(<<buf[length + 2]>>) = <<Len(whole.body)>> /\ \A i \in length + 1..HeadEnd(buf) : buf[i] # "Content-Length"
SameInParts(buf, cut, whole) ==
  /\ ReadRequest(<<>>, <<SubSeq(buf, 1, cut), SubSeq(buf, cut + 1, Len(buf))>>) = whole
  /\ whole.done = "request" =>
       ReadAsSent(buf, whole, FirstOf(buf, {"Content-Length"})) /\ ReadRequest(<<>>, <<buf \o <<"x">>>>) = whole
ArrivalIsNoMatter(buf, cut) == SameInParts(buf, IF cut < Len(buf) THEN cut ELSE Len(buf), ReadRequest(<<>>, <<buf>>))

\* Without the key a request is told nothing but the page, whatever it asks;
\* another site's is refused even with it; and the page's own is let through.
ToldRightly(engine, token, request, told, stranger) ==
  /\ request.bearer # <<token>> => told.says = "page" \/ told = stranger
  /\ request.origin # <<>> /\ told.says # "page" /\ told.status # "Forbidden" =>
       request.host # <<>> /\ Lowercase(Tail(request.origin[1])) = Lowercase(request.host[1])
  /\ request.bearer = <<token>> /\ request.origin \in {<<>>, <<<<"http://">> \o request.host[1]>>} =>
       told.status # "Unauthorized" \/ "Locked" \in {engine.read.error, engine.answer.error}
OnlyTheHolderIsTold(engine, token, request, body) ==
  ToldRightly(engine, token, request, Route(engine, token, request, body),
              Route([engine EXCEPT !.quests = [q \in {} |-> 0]], token, [request EXCEPT !.path = <<"/", "x">>], body))

\* What the ghost committed to is shown before the answer or after it, never
\* both: a choice and a gap after.
ShownOnce(kind, before, after) ==
  /\ (after.answer = <<>>) <=> (CommittedAnswer(kind) \in {before.prompt, before.ghost_answer})
  /\ kind.type = "preference" =>
       /\ before = QuestView([kind EXCEPT !.choice = IF kind.choice = "a" THEN "b" ELSE "a"])
       /\ after.answer = <<before.options[IF after.choice = <<"a">> THEN 1 ELSE 2]>>
AnswerIsShownOnce(quest) == ShownOnce(quest.kind, QuestView(quest.kind), AnsweredView(quest))

\* A correction and a reason have words in them; a verdict that cannot be read
\* is none; what is counted is what was said.
SaidAs(body, verdict) ==
  verdict # <<>> =>
    /\ verdict[1].type = Lowered[body.verdict]
    /\ verdict[1].type = "correct" => verdict[1].correction # <<>> /\ (verdict[1].severity = "major" <=> body.severity = <<"major">>)
    /\ verdict[1].type = "void" => verdict[1].reason # <<>>
VerdictsAreSaid(body) == SaidAs(body, ParseVerdict(body))
=============================================================================
