--------------------------------- MODULE Gate ---------------------------------
(***************************************************************************)
(* Asking a model: the prompt, the egress gate before a remote one, its    *)
(* audit rows, and what an answer is taken for (ghostr-llm prompt, policy, *)
(* gate, schema and provider/, ghostr-engine/src/model.rs, the asking half *)
(* of ghostr-memoria/src/llm.rs and ghostr-quests/src/llm.rs).             *)
(*                                                                         *)
(* A note of the window is its sensitivity, its salience, the place of its *)
(* text among all texts, its length, the names in it and what the secret   *)
(* detector sees: nothing, a credential, or - "joined" - one that only     *)
(* stands there once a name is replaced.  No command changes a note.       *)
(* A payload is the notes in it and the names that are still real ones.    *)
(***************************************************************************)
EXTENDS Integers, Sequences, FiniteSets, Ranks

CONSTANTS Askers,     \* processes or threads that hold a model
          Notes,      \* the notes of the window, in its order
          Names,      \* entities
          Providers,  \* compiled in: "ollama" is local, the others are not
          Pairs,      \* <<provider, task>>: what the user may enable
          Budget,     \* of a prompt, in the unit of a note's length
          MaxAsked    \* bound: requests

Tasks == {"summarization", "extraction", "quest_generation"}
Structured == {"extraction", "quest_generation"}

ASSUME GateAssumption ==
  /\ IsFiniteSet(Askers)
  /\ Providers \subseteq {"anthropic", "openai", "ollama"}
  /\ DOMAIN Notes = 1 .. Len(Notes) /\ Len(Notes) \in Nat
  /\ \A i \in DOMAIN Notes :
       /\ Notes[i].sens \in {"public", "private", "secret"}
       /\ Notes[i].salience \in Nat /\ Notes[i].text \in Nat /\ Notes[i].size \in Nat
       /\ Notes[i].names \subseteq Names
       /\ Notes[i].credential \in {"none", "plain", "joined"}
  /\ Budget \in Nat /\ MaxAsked \in Nat

VARIABLES egress,   \* egress_enabled and egress_allow of config.toml
          known,    \* names in the entity table
          asked,    \* how many requests were built
          trail,    \* the egress table
          wire,     \* what reached a remote provider
          asker     \* the sessions, each with the last answer it took

gateVars == <<egress, known, asked, trail, wire, asker>>

NoRequest == [task |-> "none", supplied |-> {}, kept |-> {}, secret |-> FALSE]
NoSession == [pc |-> "idle", provider |-> "none", on |-> FALSE, allow |-> {}, masks |-> {},
              request |-> NoRequest, shown |-> "none", verdict |-> "none", taken |-> {}]

GateInit ==
  /\ egress = [on |-> FALSE, allow |-> {}]
  /\ known \in SUBSET Names
  /\ asked = 0 /\ trail = <<>> /\ wire = <<>>
  /\ asker = [p \in Askers |-> NoSession]

Asking(p, pc) == asker[p].pc = pc
Opened(c) == [NoSession EXCEPT !.pc = "open", !.provider = c.provider, !.on = c.on,
                                !.allow = c.allow, !.masks = c.masks]
Now(p, changed) == asker' = [asker EXCEPT ![p] = changed]
World == <<egress, known>>

-----------------------------------------------------------------------------
\* remote_model: the policy and the names are read once, for the session.  A
\* local model has no gate.
OpenModel(p) ==
  /\ Asking(p, "idle")
  /\ \E provider \in Providers :
       Now(p, IF provider = "ollama"
              THEN [NoSession EXCEPT !.pc = "open", !.provider = provider]
              ELSE [NoSession EXCEPT !.pc = "open", !.provider = provider,
                      !.on = egress.on, !.masks = known,
                      !.allow = IF egress.on THEN egress.allow ELSE {}])
  /\ UNCHANGED <<asked, trail, wire>> /\ UNCHANGED World

\* The prompt: whole notes, the least salient dropped first and equals by
\* their text, within the budget.  The ceiling is that of all that was supplied.
BySalience(i, j) ==
  \/ Notes[i].salience > Notes[j].salience
  \/ /\ Notes[i].salience = Notes[j].salience
     /\ \/ Notes[i].text < Notes[j].text
        \/ Notes[i].text = Notes[j].text /\ i < j

Trimmed(supplied) ==
  LET n == Cardinality(supplied)
      order == Ranked(supplied, BySalience)
      used[k \in 0 .. n] ==
        IF k = 0 THEN 0
        ELSE IF used[k - 1] + Notes[order[k]].size > Budget THEN used[k - 1]
        ELSE used[k - 1] + Notes[order[k]].size
  IN  {order[k] : k \in {k \in 1 .. n : used[k - 1] + Notes[order[k]].size <= Budget}}

SecretNote(i) == Notes[i].sens = "secret"

Build(task, supplied) ==
  [task |-> task, supplied |-> supplied, kept |-> Trimmed(supplied),
   secret |-> \E i \in supplied : SecretNote(i)]

\* prepare asks about one note at a time, whatever it is; write_quests about
\* all of the day that is not Secret.
Questions ==
  {Build("summarization", {i}) : i \in DOMAIN Notes}
    \cup {Build("extraction", {i}) : i \in DOMAIN Notes}
    \cup {Build("quest_generation", visible) :
            visible \in {{i \in DOMAIN Notes : ~SecretNote(i)}} \ {{}}}

Ask(p) ==
  /\ Asking(p, "open") /\ asked < MaxAsked
  /\ asked' = asked + 1
  /\ \E r \in Questions :
       Now(p, [asker[p] EXCEPT !.request = r,
                 !.pc = IF asker[p].provider = "ollama" THEN "wait" ELSE "gate"])
  /\ UNCHANGED <<trail, wire>> /\ UNCHANGED World

\* What a detector finds in the notes with these names replaced.
Detected(kept, masks) ==
  \E i \in kept :
    \/ Notes[i].credential = "plain"
    \/ Notes[i].credential = "joined" /\ Notes[i].names \cap masks # {}

\* StandardPolicy::evaluate, for a remote model.
Evaluate(c) ==
  IF c.request.secret THEN "secret"
  ELSE IF ~c.on THEN "disabled"
  ELSE IF <<c.provider, c.request.task>> \notin c.allow THEN "not enabled"
  ELSE IF Detected(c.request.kept, {}) THEN "detected" ELSE "allow"

\* Slip: the payload is not scanned again.
RescanNever(c) == "allow"

\* A replacement may have joined what the first scan saw apart.
Rescan(c) == IF Detected(c.request.kept, c.masks) THEN "detected" ELSE "allow"

Redacted(c) ==
  [notes |-> c.request.kept,
   real |-> (UNION {Notes[i].names : i \in c.request.kept}) \ c.masks]

\* dry_run: the policy, and the redaction.
DryRun(p) ==
  /\ Asking(p, "gate") /\ asker[p].shown = "none"
  /\ Now(p, [asker[p] EXCEPT !.shown = Evaluate(asker[p])])
  /\ UNCHANGED <<asked, trail, wire>> /\ UNCHANGED World

Admit(p) ==
  /\ Asking(p, "gate")
  /\ LET verdict == IF Evaluate(asker[p]) = "allow" THEN Rescan(asker[p]) ELSE Evaluate(asker[p])
     IN Now(p, [asker[p] EXCEPT !.pc = "record", !.verdict = verdict])
  /\ UNCHANGED <<asked, trail, wire>> /\ UNCHANGED World

\* The digest of a payload that was denied is not kept.  The row is written for
\* a conversation, at the epoch, whatever was asked and whenever.
TrailRow(c) ==
  [decision |-> c.verdict, task |-> "conversation",
   payload |-> IF c.verdict = "allow" THEN <<Redacted(c)>> ELSE <<>>]

\* Allowed or denied, the row comes first; without it the call fails.
RecordRow(p) ==
  /\ Asking(p, "record")
  /\ \/ /\ trail' = Append(trail, TrailRow(asker[p]))
        /\ Now(p, IF asker[p].verdict = "allow" THEN [asker[p] EXCEPT !.pc = "send"] ELSE Opened(asker[p]))
     \/ /\ UNCHANGED trail
        /\ Now(p, Opened(asker[p]))
  /\ UNCHANGED <<asked, wire>> /\ UNCHANGED World

\* The whole redacted text goes where the instructions go; the messages are
\* cleared.
Forward(c) == [system |-> {"instructions", "corpus"}, messages |-> {}]

Transmit(p) ==
  /\ Asking(p, "send")
  /\ wire' = Append(wire, [payload |-> Redacted(asker[p]), by |-> [Opened(asker[p]) EXCEPT !.request = asker[p].request],
                           form |-> Forward(asker[p])])
  /\ Now(p, [asker[p] EXCEPT !.pc = "wait"])
  /\ UNCHANGED <<asked, trail>> /\ UNCHANGED World

-----------------------------------------------------------------------------
\* What can come back: how the provider stopped, whether the output is that of
\* the tool that was asked for and fits its schema, and the note a question
\* cites, by position.
Replies ==
  [stop : {"end", "length", "refusal"}, form : {"asked", "other tool", "loose"}, cite : {0}]
    \cup [stop : {"end"}, form : {"asked"}, cite : 1 .. Len(Notes)]

\* complete_with_schema of the three providers.
Finished(provider, reply) ==
  /\ reply.stop # "length"
  /\ provider = "anthropic" => reply.form # "other tool" /\ reply.stop # "refusal"

\* complete of the three: a refusal is an error of one of them.
Plain(provider, reply) == provider = "anthropic" => reply.stop # "refusal"

\* complete_structured: parsed, validated, then deserialised.
Taken(c, reply) ==
  IF c.request.task \in Structured
  THEN Finished(c.provider, reply) /\ reply.form = "asked"
  ELSE Plain(c.provider, reply)

\* into_draft: a position is looked up in the list that was supplied, and one
\* that is not there is dropped.
Cited(c, reply) ==
  {Nth(c.request.supplied, k, <) : k \in {reply.cite + 1} \cap 1 .. Cardinality(c.request.supplied)}

Meant(c, reply) ==
  {Nth(c.request.kept, k, BySalience) : k \in {reply.cite + 1} \cap 1 .. Cardinality(c.request.kept)}

Answer(p) ==
  /\ Asking(p, "wait")
  /\ \E reply \in Replies :
       /\ Taken(asker[p], reply)
       /\ Now(p, [asker[p] EXCEPT !.pc = "took",
                 !.taken = {[reply |-> reply, cited |-> Cited(asker[p], reply),
                             meant |-> Meant(asker[p], reply)]}])
  /\ UNCHANGED <<asked, trail, wire>> /\ UNCHANGED World

\* The answer is used; or there is none that can be taken, and the
\* deterministic path stands in.
GoOn(p) ==
  /\ asker[p].pc \in {"took", "wait"}
  /\ Now(p, Opened(asker[p]))
  /\ UNCHANGED <<asked, trail, wire>> /\ UNCHANGED World

CloseModel(p) ==
  /\ ~Asking(p, "idle")
  /\ Now(p, NoSession)
  /\ UNCHANGED <<asked, trail, wire>> /\ UNCHANGED World

\* The user edits config.toml: an entry that is no provider and task is dropped.
Configure ==
  /\ \E on \in BOOLEAN, allow \in SUBSET Pairs :
       /\ egress # [on |-> on, allow |-> allow]
       /\ egress' = [on |-> on, allow |-> allow]
  /\ UNCHANGED <<known, asked, trail, wire, asker>>

\* A seal meets a name.
Learn ==
  /\ \E n \in Names \ known : known' = known \cup {n}
  /\ UNCHANGED <<egress, asked, trail, wire, asker>>

AskerStep(p) ==
  \/ OpenModel(p) \/ Ask(p) \/ DryRun(p) \/ Admit(p) \/ RecordRow(p)
  \/ Transmit(p) \/ Answer(p) \/ GoOn(p) \/ CloseModel(p)

GateNext == Configure \/ Learn \/ \E p \in Askers : AskerStep(p)

GateSpec == GateInit /\ [][GateNext]_gateVars

-----------------------------------------------------------------------------
Sent(payload) == Cardinality({i \in DOMAIN wire : wire[i].payload = payload})
Allowed(payload) == Cardinality({j \in DOMAIN trail : trail[j].payload = <<payload>>})

\* Every payload that reached a provider has a row of its own that allowed it,
\* digest for digest, also when two sessions send the same one, a row cannot be
\* written or a session dies (gate.rs: "A failure to write the audit entry
\* fails the call").
SentIsLogged ==
  \A i \in DOMAIN wire : Sent(wire[i].payload) <= Allowed(wire[i].payload)

\* No Secret note, no name the session knew, nothing the detector can see and
\* no task that was not enabled for that provider when the session began has
\* left the device: not even a secret that the redaction itself put together, or
\* a note whose prompt was trimmed.
NothingForbiddenLeaves ==
  \A i \in DOMAIN wire :
    LET c == wire[i].by IN
    /\ \A n \in wire[i].payload.notes : ~SecretNote(n)
    /\ wire[i].payload.real \cap c.masks = {}
    /\ ~Detected(wire[i].payload.notes, c.masks)
    /\ c.on /\ <<c.provider, c.request.task>> \in c.allow

\* The gate's whole promise: what left was allowed, and said to have left.
NothingLeavesUnseen == SentIsLogged /\ NothingForbiddenLeaves

\* Structured output is never taken from an answer that was cut off, refused,
\* given to another tool or does not fit the schema (FinishReason::Length:
\* "truncated JSON that happens to parse is worse than no output").
OnlyCheckedIsUsed ==
  \A p \in Askers : asker[p].request.task \in Structured =>
    \A t \in asker[p].taken :
      /\ t.reply.form = "asked" /\ t.reply.stop # "length"
      /\ asker[p].provider = "anthropic" => t.reply.stop = "end"

\* Corpus text never enters the instructions of a request (CompletionRequest:
\* "Authored by Ghostr, never by corpus content").  Behind the gate it always
\* does: the redacted text, notes and all, becomes the system prompt.
CorpusStaysData == \A i \in DOMAIN wire : "corpus" \notin wire[i].form.system

\* What a dry run allows, the call sends (DryRun: "this cannot drift from what
\* actually happens").  The dry run does not scan a second time.
DryRunIsTrue ==
  \A p \in Askers :
    asker[p].pc = "record" /\ asker[p].shown # "none" => asker[p].verdict = asker[p].shown

\* A written question cites the note its author read there (ghostr-quests
\* llm.rs: a wrong citation "would attach a quest to a memory the model never
\* read").  Positions are of the prompt, which is sorted and trimmed; they are
\* looked up in the list before that.
CitesWhatItRead ==
  \A p \in Askers : asker[p].request.task = "quest_generation" =>
    \A t \in asker[p].taken : t.cited \subseteq t.meant

\* The audit log says what a payload was sent for (EgressEntry).  Every row of
\* the gate says conversation.
RowsSayWhy ==
  \A i \in DOMAIN wire : \E j \in DOMAIN trail :
    trail[j].payload = <<wire[i].payload>> /\ trail[j].task = wire[i].by.request.task
=============================================================================
