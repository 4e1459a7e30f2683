----------------------------- MODULE Distilling -----------------------------
(***************************************************************************)
(* How a persona version is computed: what is counted off the footage, how *)
(* corrections weaken what rests on the memory they are about, what is     *)
(* refused, and the changes a reviewer is shown before it is adopted.      *)
(*                                                                         *)
(* Ids, topics and patterns are numbers, in their order; ratios are        *)
(* thousandths. The voice is measured by Voice.                            *)
(***************************************************************************)
EXTENDS Integers, FiniteSets, SequencesExt

CONSTANTS MinCorpus, MaxCadence, MinThreads, Notable, ReviewThreshold,
          MaxTics, MaxExemplars, MinExemplarWords

LOCAL V == INSTANCE Voice

Clamp(x) == IF x < 0 THEN 0 ELSE IF x > 1000 THEN 1000 ELSE x
Distance(a, b) == IF a < b THEN b - a ELSE a - b
Map(Op(_), seq) == [i \in DOMAIN seq |-> Op(seq[i])]
Ids(memories) == {memories[i].id : i \in DOMAIN memories}

-----------------------------------------------------------------------------
(* What a delta does.                                                      *)

\* Slip: a stance nothing is left of goes.
CorrectedAway(facets, delta) ==
  [facets EXCEPT !.opinions =
     SelectSeq(Map(LAMBDA s : IF delta.memory \notin s.evidence THEN s
                              ELSE [s EXCEPT !.strength = Clamp(@ - delta.weight),
                                             !.contradicted_by = @ \cup delta.correction], @),
               LAMBDA s : s.strength > 0)]

\* A correction weakens what rests on the memory it is about, and stands next
\* to a stance it contradicts, once.
Corrected(facets, delta) ==
  CASE delta.facet = "opinion" ->
         [facets EXCEPT !.opinions =
            Map(LAMBDA s : IF delta.memory \notin s.evidence THEN s
                           ELSE [s EXCEPT !.strength = Clamp(@ - delta.weight),
                                          !.contradicted_by = @ \cup delta.correction], @)]
    [] delta.facet = "lore" ->
         [facets EXCEPT !.lore =
            Map(LAMBDA l : IF delta.memory \notin l.evidence THEN l
                           ELSE [l EXCEPT !.strength = Clamp(@ - delta.weight)], @)]
    [] OTHER -> facets

ApplyDeltas(facets, deltas) == FoldLeft(Corrected, facets, deltas)

-----------------------------------------------------------------------------
(* What is counted off the footage: a sequence of days, each with the      *)
(* people in it and the threads open at its end.                           *)

ByStrength(a, b) == a.strength > b.strength \/ (a.strength = b.strength /\ a.key < b.key)
Positions(days, field) == UNION {{<<d, k>> : k \in DOMAIN days[d][field]} : d \in DOMAIN days}
Days(footage) == IF footage = <<>> THEN 1 ELSE Len(footage)

\* A person's appearances: the beats that rest on something trusted.
Relationships(footage, trusted) ==
  LET seen == {p \in Positions(footage, "people") :
                 footage[p[1]].people[p[2]].memories \cap trusted # {}}
      Beat(p) == footage[p[1]].people[p[2]]
      Of(e) == {p \in seen : Beat(p).entity = e}
      Span(e) == Max({p[1] : p \in Of(e)}) - Min({p[1] : p \in Of(e)})
      Often(e) == Cardinality(Of(e)) - 1
      Relation(e) ==
        [key |-> e, strength |-> Clamp((1000 * Cardinality(Of(e))) \div Days(footage)),
         cadence |-> IF Span(e) > 0 /\ Span(e) <= MaxCadence * Often(e)
                     THEN (10 * Span(e)) \div Often(e) ELSE 0,
         evidence |-> UNION {Beat(p).memories \cap trusted : p \in Of(e)}] IN
  SetToSortSeq({Relation(e) : e \in {Beat(p).entity : p \in seen}}, ByStrength)

\* A title that named enough different threads is a routine.
Routines(footage, trusted) ==
  LET Thread(p) == footage[p[1]].threads[p[2]]
      seen == {p \in Positions(footage, "threads") : Thread(p).memories \cap trusted # {}}
      Named(t) == {p \in seen : Thread(p).title = t}
      Times(t) == Cardinality({Thread(p).id : p \in Named(t)})
      Routine(t) ==
        [key |-> t, schedule |-> <<Times(t), Len(footage)>>,
         strength |-> Clamp((1000 * Times(t)) \div Days(footage)),
         evidence |-> UNION {Thread(p).memories \cap trusted : p \in Named(t)}] IN
  SetToSortSeq({Routine(t) : t \in {Thread(p).title : p \in {q \in seen : Times(Thread(q).title) >= MinThreads}}},
               ByStrength)

-----------------------------------------------------------------------------
(* A version. prior is empty or has the version to go on from.             *)

Claims(facets) == facets.opinions \o facets.relationships \o facets.routines
                    \o facets.boundaries \o facets.lore
IsSupported(facets) == \A i \in DOMAIN Claims(facets) : Claims(facets)[i].evidence # {}

\* What the name of a version is a hash of.
ContentHash(facets) ==
  LET Of(seq, fields) == Map(LAMBDA c : [f \in fields |-> c[f]], seq) IN
  <<facets.voice,
    Of(facets.opinions, {"key", "position", "strength"}),
    Of(facets.relationships, {"key", "strength"}),
    Of(facets.routines, {"key", "schedule", "strength"}),
    Of(facets.boundaries, {"key", "strength"}),
    Of(facets.lore, {"key", "strength"})>>

Carried(prior, facet) == IF prior = <<>> THEN <<>> ELSE prior[1].facets[facet]

\* input: the footage, what the user wrote, what a claim may rest on, and the
\* corrections.
DistillOf(prior, input, trusted, facets) ==
  CASE \E i \in DOMAIN input.deltas : input.deltas[i].holdout -> [error |-> "HoldoutLeak"]
    [] Len(input.first_party) < MinCorpus -> [error |-> "InsufficientCorpus"]
    [] ~IsSupported(facets) -> [error |-> "UnsupportedClaim"]
    [] OTHER -> [error |-> "none",
                 version |-> <<input.next_ordinal, ContentHash(facets)>>,
                 parent |-> IF prior = <<>> THEN <<>> ELSE prior[1].version,
                 facets |-> facets, derived_from |-> trusted]
Counted(prior, input, trusted) ==
  [voice |-> V!Profile(input.first_party), opinions |-> Carried(prior, "opinions"),
   relationships |-> Relationships(input.footage, trusted), routines |-> Routines(input.footage, trusted),
   boundaries |-> Carried(prior, "boundaries"), lore |-> Carried(prior, "lore")]
Distill(prior, input) ==
  DistillOf(prior, input, Ids(input.claimable), ApplyDeltas(Counted(prior, input, Ids(input.claimable)), input.deltas))

\* When the scheduler should ask for one.
ShouldDistill(days, pending, weekly) == Len(pending) >= 10 \/ (weekly /\ days >= 7)

-----------------------------------------------------------------------------
(* What a reviewer is shown.                                               *)

Change(facet, kind, key, causes) == [facet |-> facet, kind |-> kind, key |-> key, caused_by |-> causes]
Keys(claims) == {claims[i].key : i \in DOMAIN claims}
\* The last claim of a key: a topic is a key of a map.
About(claims, key) == LET at == {i \in DOMAIN claims : claims[i].key = key} IN claims[Max(at)]
Moved(a, b) == Distance(a, b) >= Notable

VoiceChanges(from, to) ==
  LET registers == {n \in DOMAIN from.voice.register : Moved(from.voice.register[n], to.voice.register[n])}
      sentences == IF Distance(from.voice.syntax.mean, to.voice.syntax.mean) < 20 THEN {} ELSE {"sentences"} IN
  {Change("voice", "adjusted", name, {}) : name \in registers \cup sentences}

Gone(facet, from, to) ==
  {Change(facet, "removed", k, About(from, k).evidence) : k \in Keys(from) \ Keys(to)}
New(facet, from, to) ==
  {Change(facet, "added", k, About(to, k).evidence) : k \in Keys(to) \ Keys(from)}
Adjusted(facet, from, to, keys) ==
  {Change(facet, "adjusted", k, About(to, k).evidence) :
     k \in {j \in keys : Moved(About(from, j).strength, About(to, j).strength)}}

\* A stance that turned is reported as that, one that is newly contradicted
\* as that, and only then as firmer or less firm.
OpinionChanges(from, to) ==
  LET both == Keys(from) \cap Keys(to)
      turned == {k \in both : About(from, k).position # About(to, k).position}
      disputed == {k \in both \ turned : Cardinality(About(to, k).contradicted_by)
                                           > Cardinality(About(from, k).contradicted_by)} IN
  New("opinion", from, to) \cup Gone("opinion", from, to)
  \cup {Change("opinion", "reversed", k, About(to, k).evidence) : k \in turned}
  \cup {Change("opinion", "contradicted", k, About(to, k).contradicted_by) : k \in disputed}
  \cup Adjusted("opinion", from, to, both \ (turned \cup disputed))

\* Nothing compares boundaries or lore.
Diff(from, to) ==
  VoiceChanges(from, to)
  \cup OpinionChanges(from.opinions, to.opinions)
  \cup New("relationship", from.relationships, to.relationships)
  \cup Adjusted("relationship", from.relationships, to.relationships,
                Keys(from.relationships) \cap Keys(to.relationships))
  \cup Gone("relationship", from.relationships, to.relationships)
  \cup New("routine", from.routines, to.routines)
  \cup Gone("routine", from.routines, to.routines)

WarrantsReview(changes) ==
  Cardinality(changes) >= ReviewThreshold \/ \E c \in changes : c.kind = "reversed"

FirstVersionChanges(facets) ==
  {Change("voice", "added", Len(facets.voice.exemplars), {})}
  \cup {Change(f, "added", Len(facets[f]), {}) :
          f \in {g \in {"opinions", "relationships", "routines", "lore"} : facets[g] # <<>>}}

\* A candidate for review. The first one always is reviewed.
Changes(head, facets) == IF head = <<>> THEN FirstVersionChanges(facets) ELSE Diff(head[1].facets, facets)
ProposeOf(head, model) ==
  IF model.error # "none" THEN model
  ELSE [error |-> "none", model |-> model, diff |-> Changes(head, model.facets),
        replaces |-> IF head = <<>> THEN <<>> ELSE head[1].version,
        warrants_review |-> head = <<>> \/ WarrantsReview(Changes(head, model.facets))]
Propose(head, input) == ProposeOf(head, Distill(head, input))

-----------------------------------------------------------------------------
(* What a proposal promises.                                               *)

\* Every claim that was counted rests on something a claim may rest on, and
\* everything claimed is derived from what the version names (distill.rs
\* filters both by what is claimable).
Grounded(candidate) ==
  \A i \in DOMAIN (candidate.model.facets.relationships \o candidate.model.facets.routines) :
    LET claim == (candidate.model.facets.relationships \o candidate.model.facets.routines)[i] IN
    claim.evidence # {} /\ claim.evidence \subseteq candidate.model.derived_from

\* Corrections never delete or turn what was claimed, and each stance one of
\* them is about is shown to the reviewer with it.
CorrectionsAreShown(head, input, candidate) ==
  LET was == head.facets
      is == candidate.model.facets IN
  /\ Keys(was.opinions) = Keys(is.opinions) /\ Keys(was.lore) = Keys(is.lore)
  /\ \A k \in Keys(was.opinions) : About(was.opinions, k).position = About(is.opinions, k).position
  /\ \A i \in DOMAIN input.deltas, j \in DOMAIN was.opinions :
       LET delta == input.deltas[i]
           stance == was.opinions[j] IN
       ( /\ delta.facet = "opinion" /\ delta.memory \in stance.evidence
         /\ delta.correction \ stance.contradicted_by # {} )
       => \E c \in candidate.diff : /\ c.kind = "contradicted" /\ c.key = stance.key
                                    /\ delta.correction \subseteq c.caused_by

\* Distilling the same corpus again with nothing to correct gives the version
\* there is: the same content, and nothing to review.
Settles(again, candidate) ==
  again.error = "none" /\ again.diff = {} /\ again.model.version = candidate.model.version

GroundedIn(head, input, candidate) ==
  candidate.error = "none" =>
    /\ Grounded(candidate)
    /\ Settles(Propose(<<candidate.model>>, [input EXCEPT !.deltas = <<>>]), candidate)
    /\ head # <<>> => CorrectionsAreShown(head[1], input, candidate)
GroundedProposal(head, input) == GroundedIn(head, input, Propose(head, input))

\* A fact a correction is about is shown to the reviewer as well.
LoreIsShown(head, input) ==
  LET candidate == Propose(head, input) IN
  (candidate.error = "none" /\ head # <<>>
     /\ candidate.model.facets.lore # head[1].facets.lore) =>
    \E c \in candidate.diff : c.facet = "lore"
=============================================================================
