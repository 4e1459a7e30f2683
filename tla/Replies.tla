------------------------------ MODULE Replies -------------------------------
(***************************************************************************)
(* What is asked of a model and what its reply is taken for: the request   *)
(* bodies of the three providers, their replies, the validator of          *)
(* structured output and the two schemas, what is prepared for notes and   *)
(* quests from it, and embeddings.                                         *)
(*                                                                         *)
(* A JSON value is a record with its type; a schema is a record of its     *)
(* keywords. Numbers are in thousandths. An operation that fails, however  *)
(* it fails, returns <<>>, any other <<its result>>.                       *)
(***************************************************************************)
EXTENDS Integers, FiniteSets, SequencesExt

CONSTANTS MaxItems,   \* the longest list a note extraction may hold, 32 or 16 in the code
          MaxQuests,  \* the most quests in one reply, 20
          MaxCited,   \* the most notes a quest may cite, 8
          MaxLength,  \* the longest text of a reply, 64 to 240
          SummaryLength, \* SUMMARY_CHARS
          Batch       \* MAX_BATCH

Map(Op(_), s) == [i \in DOMAIN s |-> Op(s[i])]

-----------------------------------------------------------------------------
(* The validator. *)

Str(text) == [type |-> "string", text |-> text]
Num(value, whole) == [type |-> "number", value |-> value, whole |-> whole]
Arr(items) == [type |-> "array", items |-> items]
Obj(fields) == [type |-> "object", fields |-> fields]

Supported == {"type", "properties", "required", "additionalProperties", "items", "enum", "minimum", "maximum",
              "minItems", "maxItems", "minLength", "maxLength", "title", "description", "$schema"}
TypeMatches(expected, value) ==
  IF expected = "integer" THEN value.type = "number" /\ value.whole
  ELSE expected \in {"object", "array", "string", "number", "boolean", "null"} /\ value.type = expected

Within(schema, low, high, n) ==
  /\ low \in DOMAIN schema => n >= schema[low]
  /\ high \in DOMAIN schema => n <= schema[high]

ExtraAllowed(schema) == "additionalProperties" \in DOMAIN schema => schema.additionalProperties

\* A keyword that is not known refuses whatever is there.
RECURSIVE Check(_, _)
Check(schema, value) ==
  /\ DOMAIN schema \subseteq Supported
  /\ "type" \in DOMAIN schema => TypeMatches(schema.type, value)
  /\ "enum" \in DOMAIN schema => value \in schema.enum
  /\ value.type = "object" =>
       /\ "required" \in DOMAIN schema => schema.required \subseteq DOMAIN value.fields
       /\ \A name \in DOMAIN value.fields :
            IF "properties" \in DOMAIN schema /\ name \in DOMAIN schema.properties
            THEN Check(schema.properties[name], value.fields[name])
            ELSE ExtraAllowed(schema)
  /\ value.type = "array" =>
       /\ Within(schema, "minItems", "maxItems", Len(value.items))
       /\ "items" \in DOMAIN schema => \A i \in DOMAIN value.items : Check(schema.items, value.items[i])
  /\ value.type = "string" => Within(schema, "minLength", "maxLength", Len(value.text))
  /\ value.type = "number" => Within(schema, "minimum", "maximum", value.value)

-----------------------------------------------------------------------------
(* The two schemas, and the types that are read from what they let through. *)

Texts(most) == [type |-> "array", maxItems |-> most, items |-> [type |-> "string", maxLength |-> MaxLength]]
NoteLists == {"people", "topics", "open_threads", "closed_loops", "questions"}
NoteSchema ==
  [name |-> "note_extraction",
   json |-> [type |-> "object", additionalProperties |-> FALSE, required |-> NoteLists \cup {"valence", "arousal"},
             properties |-> [f \in NoteLists |-> Texts(MaxItems)]
                            @@ [valence |-> [type |-> "number", minimum |-> -1000, maximum |-> 1000],
                                arousal |-> [type |-> "number", minimum |-> 0, maximum |-> 1000]]]]

Choice(names) == [enum |-> {Str(name) : name \in names}]
WrittenKinds == {<<"voice_probe">>, <<"counterfactual">>, <<"prediction">>}
WrittenFacets == {<<"voice">>, <<"opinion">>, <<"relationship">>, <<"routine">>, <<"lore">>}
Share == [type |-> "number", minimum |-> 0, maximum |-> 1000]
QuestProperties ==
  [kind |-> Choice(WrittenKinds), facet |-> Choice(WrittenFacets),
   prompt |-> [type |-> "string", maxLength |-> MaxLength], ghost_answer |-> [type |-> "string", maxLength |-> MaxLength],
   confidence |-> Share, difficulty |-> Share,
   evidence |-> [type |-> "array", maxItems |-> MaxCited, items |-> [type |-> "integer", minimum |-> 0]]]
QuestSchema ==
  [name |-> "written_quests",
   json |-> [type |-> "object", additionalProperties |-> FALSE, required |-> {"quests"},
             properties |-> [quests |-> [type |-> "array", maxItems |-> MaxQuests,
               items |-> [type |-> "object", additionalProperties |-> FALSE, required |-> DOMAIN QuestProperties,
                          properties |-> QuestProperties]]]]]

Field(value, name, default) == IF name \in DOMAIN value.fields THEN value.fields[name] ELSE default
AllItems(value, Test(_)) == value.type = "array" /\ \A i \in DOMAIN value.items : Test(value.items[i])
IsText(value) == value.type = "string"

\* Fields that are not there have a default, others are not read.
ReadNote(value) ==
  IF \/ value.type # "object"
     \/ \E f \in NoteLists : ~AllItems(Field(value, f, Arr(<<>>)), IsText)
     \/ \E f \in {"valence", "arousal"} : Field(value, f, Num(0, TRUE)).type # "number" THEN <<>>
  ELSE <<value>>
ReadQuest(value) ==
  IF \/ value.type # "object" \/ ~({"kind", "facet", "prompt", "ghost_answer"} \subseteq DOMAIN value.fields)
     \/ value.fields.kind \notin {Str(k) : k \in WrittenKinds} \/ value.fields.facet \notin {Str(f) : f \in WrittenFacets}
     \/ ~IsText(value.fields.prompt) \/ ~IsText(value.fields.ghost_answer)
     \/ \E f \in {"confidence", "difficulty"} : Field(value, f, Num(0, TRUE)).type # "number"
     \/ ~AllItems(Field(value, "evidence", Arr(<<>>)), LAMBDA v : v.type = "number" /\ v.whole /\ v.value >= 0) THEN <<>>
  ELSE <<value>>
ReadQuests(value) ==
  IF value.type # "object" \/ ~AllItems(Field(value, "quests", Arr(<<>>)), LAMBDA q : ReadQuest(q) # <<>>) THEN <<>>
  ELSE <<value>>

-----------------------------------------------------------------------------
(* Providers. *)

Blank(key) == key \in {"", " "}
OpenAi(config, key, endpoint) ==
  IF key = "unset" \/ Blank(key) THEN <<>>
  ELSE <<[provider |-> "openai", model |-> config.model, credential |-> <<"bearer", key>>,
          endpoint |-> IF endpoint = "unset" THEN "default" ELSE endpoint]>>
\* A key is preferred to a token; the model and the endpoint have defaults.
Anthropic(config, key, token, endpoint) ==
  LET given(x) == x # "unset" /\ ~Blank(x) IN
  IF ~given(key) /\ ~given(token) THEN <<>>
  ELSE <<[provider |-> "anthropic", model |-> IF Blank(config.model) THEN "default" ELSE config.model,
          credential |-> IF given(key) THEN <<"x-api-key", key>> ELSE <<"bearer", token>>,
          endpoint |-> IF given(endpoint) THEN endpoint ELSE "default"]>>
Remote(config, env) ==
  IF config.provider = "anthropic" THEN Anthropic(config, env.key, env.token, env.endpoint)
  ELSE OpenAi(config, env.key, env.endpoint)

Descriptor(provider) ==
  IF provider = "ollama" THEN [locality |-> "local", tier |-> "baseline"] ELSE [locality |-> "remote", tier |-> "strong"]
Accepts(provider, sensitivity) == Descriptor(provider).locality = "local" \/ sensitivity # "secret"

\* A note has the role of the user: no provider has one for data.
RoleOf(role) == IF role = "assistant" THEN "assistant" ELSE "user"
Turns(request) == Map(LAMBDA m : [role |-> RoleOf(m.role), content |-> m.content], request.messages)
System(request) == <<[role |-> "system", content |-> request.system]>>
OpenAiBody(request, schema) ==
  [messages |-> System(request) \o Turns(request), schema |-> schema, strict |-> schema # <<>>, max |-> request.max_tokens]
OllamaBody(request, schema) == [messages |-> System(request) \o Turns(request), schema |-> schema, max |-> request.max_tokens]
AnthropicBody(request, schema) ==
  [system |-> request.system, messages |-> Turns(request), tools |-> schema, choice |-> Map(LAMBDA s : s.name, schema),
   max |-> IF request.max_tokens = 0 THEN 1 ELSE request.max_tokens]
Body(provider, request, schema) ==
  IF provider = "anthropic" THEN AnthropicBody(request, schema)
  ELSE IF provider = "openai" THEN OpenAiBody(request, schema) ELSE OllamaBody(request, schema)

\* A reply: what it ended with and its parts, choices or blocks. No reply, or
\* one that cannot be read, is <<>>.
Reply(ended, parts) == [ended |-> ended, parts |-> parts]
Part(type, name, text) == [type |-> type, name |-> name, text |-> text]
\* Slip: every provider says it the same way.
CutTheSame(provider) == "length"

Cut(provider) == IF provider = "anthropic" THEN "max_tokens" ELSE "length"
FinishReason(provider, ended) ==
  IF ended = Cut(provider) THEN "length"
  ELSE IF <<provider, ended>> \in {<<"anthropic", "refusal">>, <<"openai", "content_filter">>} THEN "content_filter"
  ELSE "stop"

FirstText(parts) == IF parts = <<>> THEN <<>> ELSE parts[1].text
TextsOf(parts) == FlattenSeq(Map(LAMBDA p : p.text, SelectSeq(parts, LAMBDA p : p.type = "text")))
Complete(provider, reply) ==
  IF reply = <<>> \/ (provider = "anthropic" /\ reply[1].ended = "refusal") THEN <<>>
  ELSE <<[text |-> IF provider = "anthropic" THEN TextsOf(reply[1].parts) ELSE FirstText(reply[1].parts),
          finish |-> FinishReason(provider, reply[1].ended)]>>

\* What was cut off is not whole; a block must be the tool that was asked for.
CompleteWithSchema(provider, reply, schema) ==
  LET asked == IF provider = "anthropic" THEN SelectSeq(reply[1].parts, LAMBDA p : p.type = "tool_use" /\ p.name = schema.name)
               ELSE reply[1].parts IN
  IF reply = <<>> THEN <<>>
  ELSE IF reply[1].ended = Cut(provider) \/ (provider = "anthropic" /\ reply[1].ended = "refusal") THEN <<>>
  ELSE IF asked = <<>> THEN <<>> ELSE <<asked[1].text>>

\* The text is read as JSON, validated, and only then read as the type.
CompleteStructured(provider, reply, schema) ==
  LET raw == CompleteWithSchema(provider, reply, schema) IN
  IF raw = <<>> \/ Len(raw[1]) # 1 \/ raw[1][1].type = "garbage" THEN <<>>
  ELSE IF ~Check(schema.json, raw[1][1]) THEN <<>> ELSE IF schema = QuestSchema THEN ReadQuests(raw[1][1]) ELSE ReadNote(raw[1][1])

-----------------------------------------------------------------------------
(* What is made of replies. *)

RECURSIVE TrimLeft(_)
TrimLeft(text) == IF text # <<>> /\ Head(text) = "sp" THEN TrimLeft(Tail(text)) ELSE text
Trim(text) == Reverse(TrimLeft(Reverse(TrimLeft(text))))
ClampText(text, most) == Trim(SubSeq(text, 1, IF Len(text) < most THEN Len(text) ELSE most))

\* One request per distinct text; a note whose request fails has no summary.
Prepare(notes, answered) ==
  [n \in {n \in Range(notes) : answered[n] # <<>> /\ ClampText(Trim(answered[n][1]), SummaryLength) # <<>>} |->
     ClampText(Trim(answered[n][1]), SummaryLength)]
Summarize(prepared, note, most, naive) == IF note \in DOMAIN prepared THEN ClampText(prepared[note], most) ELSE naive

\* A number that is no note cites nothing; a prediction commits to its claim.
IntoDraft(quest, ids) ==
  [kind |-> quest.fields.kind.text, prompt |-> Trim(quest.fields.prompt.text),
   says |-> Trim(IF quest.fields.kind.text = <<"prediction">> THEN quest.fields.prompt.text ELSE quest.fields.ghost_answer.text),
   facet |-> quest.fields.facet.text, confidence |-> Field(quest, "confidence", Num(0, TRUE)).value,
   evidence |-> Map(LAMBDA v : ids[v.value + 1],
                    SelectSeq(Field(quest, "evidence", Arr(<<>>)).items, LAMBDA v : v.value < Len(ids)))]
WriteQuests(provider, reply, ids) ==
  LET written == CompleteStructured(provider, reply, QuestSchema) IN
  IF written = <<>> THEN <<>>
  ELSE SelectSeq(Map(LAMBDA q : IntoDraft(q, ids), Field(written[1], "quests", Arr(<<>>)).items),
                 LAMBDA d : d.evidence # <<>> /\ d.says # <<>>)

\* In batches; one that is short, long or of other dimensions fails them all.
Embed(inputs, dimensions, replies) ==
  LET batches == (Len(inputs) + Batch - 1) \div Batch
      sizeOf(b) == IF b < batches THEN Batch ELSE Len(inputs) - (b - 1) * Batch IN
  IF \/ Len(replies) < batches
     \/ \E b \in 1..batches : Len(replies[b]) # sizeOf(b) \/ \E i \in DOMAIN replies[b] : replies[b][i].dimensions # dimensions
  THEN <<>>
  ELSE <<[i \in DOMAIN inputs |-> [memory |-> inputs[i], vector |-> replies[((i - 1) \div Batch) + 1][((i - 1) % Batch) + 1]]]>>

-----------------------------------------------------------------------------
(* What a reply promises. *)

\* What the schemas let through is what the types read, never less; one more
\* constraint never lets more through; and a keyword nobody knows lets nothing.
SchemasAreReadable(value, schema, extra) ==
  /\ Check(NoteSchema.json, value) => /\ ReadNote(value) # <<>>
                                      /\ DOMAIN value.fields = NoteLists \cup {"valence", "arousal"}
  /\ Check(QuestSchema.json, value) => ReadQuests(value) # <<>>
  /\ Check(extra @@ schema, value) /\ DOMAIN extra \cap DOMAIN schema = {} /\ "properties" \notin DOMAIN extra =>
       Check(schema, value) /\ DOMAIN extra \subseteq Supported

\* Whatever a provider answers, nothing that was cut off, declined or not asked
\* for becomes a structure, what is written cites notes there are, and a plain
\* answer that was cut off says so.
RepliesAreWhole(provider, reply, ids) ==
  LET structured == CompleteStructured(provider, reply, QuestSchema)
      plain == Complete(provider, reply) IN
  /\ structured # <<>> =>
       /\ Check(QuestSchema.json, structured[1])
       /\ reply[1].ended \notin {"length", "max_tokens", "refusal"}
       /\ \E i \in DOMAIN reply[1].parts : /\ reply[1].parts[i].text = structured
                                           /\ provider = "anthropic" => reply[1].parts[i].name = "written_quests"
  /\ \A i \in DOMAIN WriteQuests(provider, reply, ids) :
       LET draft == WriteQuests(provider, reply, ids)[i] IN
       /\ Range(draft.evidence) # {} /\ Range(draft.evidence) \subseteq Range(ids)
       /\ draft.confidence \in 0..1000
  /\ plain # <<>> => ((plain[1].finish = "length") <=> reply[1].ended \in {"length", "max_tokens"})

\* A note goes out as what the user says, under one system prompt; the prompt
\* and a schema are there with every provider.
NotesAreNotInstructions(provider, request, schema) ==
  LET body == Body(provider, request, schema)
      system == SelectSeq(body.messages, LAMBDA m : m.role = "system") IN
  /\ provider = "anthropic" => system = <<>> /\ body.system = request.system /\ body.tools = schema
  /\ provider # "anthropic" => system = System(request) /\ body.schema = schema
  /\ \A i \in DOMAIN request.messages :
       LET sent == body.messages[i + Len(system)] IN
       /\ sent.content = request.messages[i].content
       /\ request.messages[i].role = "corpus_data" => sent.role = "user"

\* Every memory that was to be embedded has a vector, its own, or none has.
VectorsAreTheirOwn(inputs, dimensions, replies) ==
  LET made == Embed(inputs, dimensions, replies) IN
  made # <<>> =>
    /\ Len(made[1]) = Len(inputs)
    /\ \A i \in DOMAIN inputs : /\ made[1][i].memory = inputs[i] /\ made[1][i].vector.dimensions = dimensions
                                /\ made[1][i].vector.of = inputs[i]
=============================================================================
