-------------------------------- MODULE Index --------------------------------
(***************************************************************************)
(* Two tables beside the corpus (ghostr-store/src/sqlite.rs): entity, the  *)
(* people a vault knows and the pseudonyms they go by, and vector, the     *)
(* embeddings of memories (with ghostr-store/src/vector.rs).               *)
(*                                                                         *)
(* resolve_entity looks a name up, counts the entities of its kind and     *)
(* inserts, three statements; upsert reads the width of the index and      *)
(* inserts; rebuild writes the model, then the width, then drops rows.     *)
(* Processes do so at once and die in between.                             *)
(*                                                                         *)
(* Abstractions.  A name is what is left of it once trimmed and lowercased,*)
(* with the form it was written in; an embedding is its model and width,   *)
(* and how similar it is to the one query there is.                        *)
(***************************************************************************)
EXTENDS Integers, Sequences, FiniteSets, SequencesExt, Ranks

CONSTANTS Hands,      \* processes that use the tables
          Written,    \* names as they are written: <<name, form>>
          Kinds,      \* kinds of entity
          Letters,    \* how many letters a pseudonym counts with (26)
          Embedded,   \* memory ids
          Models,     \* embedding models
          Width,      \* Width[m]: what they embed into
          Likeness    \* Likeness[m]: similarity of a memory to the query

ASSUME IndexAssumption ==
  /\ Letters \in Nat \ {0}
  /\ Width \in [Models -> Nat \ {0}]
  /\ IsFiniteSet(Embedded) /\ Embedded \subseteq Int
  /\ Likeness \in [Embedded -> Int]

VARIABLES entities,  \* table entity, in the order of insertion
          corpus,    \* table memory: absent, live or shredded
          vectors,   \* table vector: <<>> or <<the embedding of the memory>>
          declared,  \* meta vector_model and vector_dimensions
          hand,      \* what each process is in the middle of
          together   \* history: two processes have resolved a name at once

indexVars == <<entities, corpus, vectors, declared, hand, together>>

-----------------------------------------------------------------------------
(* Entities. *)

\* The keyed digest of the normalised name.
NameTag(w) == <<w[1]>>

ByTag(tag) == {i \in DOMAIN entities : entities[i].tag = tag}

\* Slip: counting starts over after the last letter.
OneLetter(n) == <<n % Letters>>

\* Columns of a spreadsheet: A to Z, then AA.
Label(n) ==
  LET label[m \in 0..n] ==
        IF m < Letters THEN <<m>> ELSE Append(label[m \div Letters - 1], m % Letters)
  IN label[n]

OfKind(kind) == Cardinality({i \in DOMAIN entities : entities[i].kind = kind})

Free == [pc |-> "none"]
Resolving(h) == hand[h].pc \in {"count", "insert"}
Put(h, call) == hand' = [hand EXCEPT ![h] = call]
MarkTogether(h) == together' = (together \/ \E g \in Hands \ {h} : Resolving(g))

\* resolve_entity: a known name is found (and touched) and that is all.
LookUp(h) ==
  /\ hand[h].pc = "none"
  /\ \E w \in Written, kind \in Kinds :
       IF ByTag(NameTag(w)) # {} THEN UNCHANGED hand
       ELSE Put(h, [pc |-> "count", written |-> w, kind |-> kind])
  /\ MarkTogether(h)
  /\ UNCHANGED <<entities, corpus, vectors, declared>>

NextPseudonym(h) ==
  /\ hand[h].pc = "count"
  /\ Put(h, [pc |-> "insert", written |-> hand[h].written, kind |-> hand[h].kind,
             pseudonym |-> Label(OfKind(hand[h].kind))])
  /\ UNCHANGED <<entities, corpus, vectors, declared, together>>

\* The tag is UNIQUE: where another process was first, the insert fails.
InsertEntity(h) ==
  /\ hand[h].pc = "insert"
  /\ LET tag == NameTag(hand[h].written) IN
     entities' = IF ByTag(tag) # {} THEN entities
                 ELSE Append(entities, [tag |-> tag, written |-> hand[h].written,
                                        kind |-> hand[h].kind, pseudonym |-> hand[h].pseudonym])
  /\ Put(h, Free)
  /\ UNCHANGED <<corpus, vectors, declared, together>>

-----------------------------------------------------------------------------
(* Embeddings. *)
Live == {m \in Embedded : corpus[m] = "live"}
HasVector(m) == vectors[m] # <<>>
AtWidth(m, width) == HasVector(m) /\ Width[vectors[m][1]] = width

PutRow(m) ==
  /\ corpus[m] = "absent"
  /\ corpus' = [corpus EXCEPT ![m] = "live"]
  /\ UNCHANGED <<entities, vectors, declared, hand, together>>

\* shred empties the row of the memory, and does nothing else.
ShredRow(m) ==
  /\ corpus[m] = "live"
  /\ corpus' = [corpus EXCEPT ![m] = "shredded"]
  /\ UNCHANGED <<entities, vectors, declared, hand, together>>

RemoveVector(m) ==
  /\ HasVector(m)
  /\ vectors' = [vectors EXCEPT ![m] = <<>>]
  /\ UNCHANGED <<entities, corpus, declared, hand, together>>

\* What lacks a vector of the declared width: the work of a rebuild.
Unembedded == {m \in Live : ~AtWidth(m, declared.width)}

\* An embedding by some model, for a memory of that list; upsert refuses any
\* width but that of the index.
BeginUpsert(h) ==
  /\ hand[h].pc = "none"
  /\ \E m \in Unembedded, model \in Models :
       /\ declared.width \in {0, Width[model]}
       /\ Put(h, [pc |-> "upsert", memory |-> m, model |-> model, empty |-> declared.width = 0])
  /\ UNCHANGED <<entities, corpus, vectors, declared, together>>

Upsert(h) ==
  /\ hand[h].pc = "upsert"
  /\ vectors' = [vectors EXCEPT ![hand[h].memory] = <<hand[h].model>>]
  /\ Put(h, IF hand[h].empty THEN [hand[h] EXCEPT !.pc = "settle"] ELSE Free)
  /\ UNCHANGED <<entities, corpus, declared, together>>

\* The first vector of an empty index settles its width.
Settle(h) ==
  /\ hand[h].pc = "settle"
  /\ declared' = [declared EXCEPT !.width = Width[hand[h].model]]
  /\ Put(h, Free)
  /\ UNCHANGED <<entities, corpus, vectors, together>>

\* rebuild: the model, the width, and the rows of any other width go.
RebuildModel(h) ==
  /\ hand[h].pc = "none"
  /\ \E model \in Models :
       /\ declared' = [declared EXCEPT !.model = model]
       /\ Put(h, [pc |-> "width", model |-> model])
  /\ UNCHANGED <<entities, corpus, vectors, together>>

RebuildWidth(h) ==
  /\ hand[h].pc = "width"
  /\ declared' = [declared EXCEPT !.width = Width[hand[h].model]]
  /\ Put(h, [hand[h] EXCEPT !.pc = "drop"])
  /\ UNCHANGED <<entities, corpus, vectors, together>>

RebuildDrop(h) ==
  /\ hand[h].pc = "drop"
  /\ vectors' = [m \in Embedded |->
       IF AtWidth(m, Width[hand[h].model]) THEN vectors[m] ELSE <<>>]
  /\ Put(h, Free)
  /\ UNCHANGED <<entities, corpus, declared, together>>

\* Slip: every row is scanned, whatever its width.
ScanAll(floor) == {m \in Embedded : HasVector(m) /\ Likeness[m] >= floor}

\* The rows a search compares with its query, which has the declared width.
Scan(floor) == {m \in Embedded : AtWidth(m, declared.width) /\ Likeness[m] >= floor}

Likelier(a, b) == Likeness[a] > Likeness[b] \/ (Likeness[a] = Likeness[b] /\ a < b)

\* knn: the k likest, ties by id.
Knn(k, floor, only, exclude) ==
  LET found == {m \in Scan(floor) : (only = {} \/ m \in only) /\ m \notin exclude}
      n == IF declared.width = 0 THEN 0 ELSE IF k < Cardinality(found) THEN k ELSE Cardinality(found)
  IN  [i \in 1..n |-> Nth(found, i, Likelier)]

Progress == [completed |-> Cardinality({m \in Embedded : AtWidth(m, declared.width)}),
             total |-> Cardinality(Live)]

-----------------------------------------------------------------------------
HandDies(h) ==
  /\ hand[h] # Free
  /\ Put(h, Free)
  /\ UNCHANGED <<entities, corpus, vectors, declared, together>>

IndexInit ==
  /\ entities = <<>>
  /\ corpus = [m \in Embedded |-> "absent"]
  /\ vectors = [m \in Embedded |-> <<>>]
  /\ declared = [model |-> "none", width |-> 0]
  /\ hand = [h \in Hands |-> Free]
  /\ together = FALSE

PeopleNext == \E h \in Hands : LookUp(h) \/ NextPseudonym(h) \/ InsertEntity(h) \/ HandDies(h)

VectorNext ==
  \/ \E m \in Embedded : PutRow(m) \/ ShredRow(m) \/ RemoveVector(m)
  \/ \E h \in Hands : \/ BeginUpsert(h) \/ Upsert(h) \/ Settle(h)
                      \/ RebuildModel(h) \/ RebuildWidth(h) \/ RebuildDrop(h) \/ HandDies(h)

IndexNext == PeopleNext \/ VectorNext

IndexSpec == IndexInit /\ [][IndexNext]_indexVars

-----------------------------------------------------------------------------
\* A person is one entity however the name is written.  Two entities of a kind
\* go by two pseudonyms, unless two processes have resolved names at once.
PeopleAreToldApart ==
  \A i, j \in DOMAIN entities :
    /\ entities[i].written[1] = entities[j].written[1] => i = j
    /\ ~together /\ entities[i].kind = entities[j].kind
         /\ entities[i].pseudonym = entities[j].pseudonym => i = j

\* Two entities of a kind never share a pseudonym.  They do where two processes
\* count before either inserts (sqlite.rs, next_pseudonym: "A remote model can
\* follow Person A through a conversation").
PseudonymsDiffer ==
  \A i, j \in DOMAIN entities :
    entities[i].kind = entities[j].kind /\ entities[i].pseudonym = entities[j].pseudonym => i = j

\* One search: how many it gives, which, and in what order.
Comparable(k, floor, only, exclude) ==
  LET found == Knn(k, floor, only, exclude) IN
  /\ Len(found) <= k /\ ToSet(found) \cap exclude = {}
  /\ Len(found) <= Progress.completed
  /\ \A i, j \in DOMAIN found :
       /\ Width[vectors[found[i]][1]] = Width[vectors[found[j]][1]]
       /\ i < j => found[i] # found[j] /\ Likeness[found[i]] >= Likeness[found[j]]

\* Whatever a search is given, the vectors it ranks are of one width, each at
\* most once, likest first - also while an index is rebuilt under it.  What a
\* rebuild reports as done is what a search has to choose from.
NeighboursAreComparable ==
  \A k \in 1..2, exclude \in {{}, {CHOOSE m \in Embedded : TRUE}} : Comparable(k, 0, {}, exclude)

\* vector.rs says that shred removes the embedding of a memory, for it could be
\* read back from it.
ShreddedIsGone == \A m \in Embedded : corpus[m] = "shredded" => ~HasVector(m)

\* vector.rs says that a model change never mixes two vector spaces.
OneSpace == \A m \in Embedded : AtWidth(m, declared.width) => vectors[m][1] = declared.model
=============================================================================
