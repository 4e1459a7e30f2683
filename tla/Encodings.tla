----------------------------- MODULE Encodings ------------------------------
(***************************************************************************)
(* What is turned into bytes and back: the padding and the frame of an     *)
(* encrypted payload (NIP-44), the records of a bech32 entity (NIP-19),    *)
(* the canonical form that is hashed, identifiers, and the Merkle tree     *)
(* that commits to a day: its order, its root, the path that proves a leaf *)
(* is in it and the check of such a path.                                  *)
(*                                                                         *)
(* Every decoder returns <<>> for a refusal and <<value>> otherwise.       *)
(***************************************************************************)
EXTENDS Integers, FiniteSets, SequencesExt

-----------------------------------------------------------------------------
(* NIP-44, in lengths: the sizes of the frame are those of the standard.   *)

MaxPlaintext == 65535
MinDecoded == 99
MaxDecoded == 65603
MinEncoded == 132
MaxEncoded == 87472

Power(n) == 2^(CHOOSE d \in 0..17 : 2^d >= n /\ (d = 0 \/ 2^(d - 1) < n))

PadToBucket(len) ==
  IF len <= 32 THEN 32
  ELSE LET chunk == IF Power(len) <= 256 THEN 32 ELSE Power(len) \div 8 IN
       chunk * ((len - 1) \div chunk + 1)

\* A length in front, the text, and zeros up to the bucket.
Pad(text) ==
  IF text.len \notin 1..MaxPlaintext THEN <<>> ELSE <<[len |-> text.len, text |-> text, size |-> 2 + PadToBucket(text.len)]>>
Unpad(padded) ==
  IF \/ padded.size < 2 \/ padded.len = 0 \/ padded.len + 2 > padded.size
     \/ padded.size # 2 + PadToBucket(padded.len) THEN <<>>
  ELSE <<padded.text>>

MessageKeys(key, nonce) == [cipher |-> <<"chacha", key, nonce>>, mac |-> <<"hmac", key, nonce>>]
Mac(keys, nonce, ciphertext) == <<keys.mac, nonce, ciphertext>>
Base64(len) == 4 * ((len + 2) \div 3)

\* Both parties derive one key, whichever of the two keys is the secret one.
ConversationKey(secret, public) == {secret, public}

Encrypt(key, text, nonce) ==
  IF Pad(text) = <<>> THEN <<>>
  ELSE LET keys == MessageKeys(key, nonce)
           ciphertext == <<keys.cipher, Pad(text)[1]>> IN
       <<[version |-> 2, nonce |-> nonce, ciphertext |-> ciphertext, mac |-> Mac(keys, nonce, ciphertext),
          decoded |-> 1 + 32 + Pad(text)[1].size + 32]>>

\* In this order: the sizes, the version, the tag, and only then the padding.
Decrypt(key, payload) ==
  LET keys == MessageKeys(key, payload.nonce) IN
  IF \/ Base64(payload.decoded) \notin MinEncoded..MaxEncoded
     \/ payload.decoded \notin MinDecoded..MaxDecoded
     \/ payload.version # 2
     \/ payload.mac # Mac(keys, payload.nonce, payload.ciphertext)
     \/ payload.ciphertext[1] # keys.cipher THEN <<>>
  ELSE Unpad(payload.ciphertext[2])

-----------------------------------------------------------------------------
(* NIP-19. A byte is 0..MaxByte, a key KeySize bytes and a kind four bytes *)
(* of which the value must fit two: here two, and one.                     *)

CONSTANTS MaxByte, KeySize
Special == 0
Relay == 1
Author == 2
KindTag == 3

PushTlv(tag, value) == <<tag, Len(value)>> \o value
Fits(value) == Len(value) <= MaxByte
IsAscii(value) == \A i \in DOMAIN value : value[i] < MaxByte
IsKey(value) == Len(value) = KeySize

RECURSIVE ParseTlv(_)
ParseTlv(bytes) ==
  IF bytes = <<>> THEN <<<<>>>>
  ELSE IF Len(bytes) < 2 \/ Len(bytes) < 2 + bytes[2] THEN <<>>
  ELSE LET rest == ParseTlv(SubSeq(bytes, 3 + bytes[2], Len(bytes))) IN
       IF rest = <<>> THEN <<>>
       ELSE <<<<[tag |-> bytes[1], value |-> SubSeq(bytes, 3, 2 + bytes[2])]>> \o rest[1]>>

Records(records, tag) == SelectSeq(records, LAMBDA r : r.tag = tag)
Values(records) == [i \in DOMAIN records |-> records[i].value]
Relays(relays) == FlattenSeq([i \in DOMAIN relays |-> PushTlv(Relay, relays[i])])

EncodeProfile(p) ==
  IF \A i \in DOMAIN p.relays : Fits(p.relays[i])
  THEN <<PushTlv(Special, p.pubkey) \o Relays(p.relays)>> ELSE <<>>
EncodeAddress(a) ==
  IF Fits(a.identifier) /\ \A i \in DOMAIN a.relays : Fits(a.relays[i])
  THEN <<PushTlv(Special, a.identifier) \o Relays(a.relays) \o PushTlv(Author, a.pubkey)
           \o PushTlv(KindTag, <<0, a.kind>>)>> ELSE <<>>

\* The first of a record that may be there once, all the relays, and nothing
\* of a record it does not know.
DecodeProfile(bytes) ==
  LET records == ParseTlv(bytes)[1]
      keys == Records(records, Special)
      relays == Records(records, Relay) IN
  IF ParseTlv(bytes) = <<>> \/ keys = <<>> \/ ~IsKey(keys[1].value)
       \/ \E i \in DOMAIN relays : ~IsAscii(relays[i].value) THEN <<>>
  ELSE <<[pubkey |-> keys[1].value, relays |-> Values(relays)]>>
DecodeAddress(bytes) ==
  LET records == ParseTlv(bytes)[1]
      Of(tag) == Records(records, tag) IN
  IF \/ ParseTlv(bytes) = <<>> \/ \E tag \in {Special, Author, KindTag} : Of(tag) = <<>>
     \/ ~IsKey(Of(Author)[1].value)
     \/ Len(Of(KindTag)[1].value) # 2 \/ Of(KindTag)[1].value[1] # 0
     \/ \E i \in DOMAIN Of(Relay) : ~IsAscii(Of(Relay)[i].value) THEN <<>>
  ELSE <<[identifier |-> Of(Special)[1].value, pubkey |-> Of(Author)[1].value,
          kind |-> Of(KindTag)[1].value[2], relays |-> Values(Of(Relay))]>>

\* A key or a note on its own: the prefix says which.
EncodeKey(prefix, bytes) == [prefix |-> prefix, data |-> bytes]
DecodeKey(prefix, entity) ==
  IF entity.prefix = prefix /\ IsKey(entity.data) THEN <<entity.data>> ELSE <<>>

-----------------------------------------------------------------------------
(* The canonical form. A value is [type |-> "map", entries], a sequence of *)
(* [key, value]; [type |-> "array", items]; [type |-> "float"]; or         *)
(* [type |-> "other", value]. Keys are numbers, in the order of their      *)
(* encodings.                                                              *)

RECURSIVE Canonical(_)
Canonical(v) ==
  CASE v.type = "float" -> <<>>
    [] v.type = "other" -> <<v>>
    [] v.type = "array" ->
         IF \E i \in DOMAIN v.items : Canonical(v.items[i]) = <<>> THEN <<>>
         ELSE <<[v EXCEPT !.items = [i \in DOMAIN @ |-> Canonical(@[i])[1]]]>>
    [] v.type = "map" ->
         LET sorted == SortSeq(v.entries, LAMBDA a, b : a.key < b.key) IN
         IF \/ Cardinality({v.entries[i].key : i \in DOMAIN v.entries}) # Len(v.entries)
            \/ \E i \in DOMAIN v.entries : Canonical(v.entries[i].value) = <<>> THEN <<>>
         ELSE <<[v EXCEPT !.entries = [i \in DOMAIN sorted |->
                   [key |-> sorted[i].key, value |-> Canonical(sorted[i].value)[1]]]]>>

\* Bytes name the value they encode, so bytes are compared as values.
FromCanonical(v) == IF Canonical(v) = <<v>> THEN <<v>> ELSE <<>>

\* Ratios in millionths; what is no ratio has no canonical form.
Fixed(ratio) == IF ratio \in 0..1000 THEN <<1000 * ratio>> ELSE <<>>
SignedFixed(ratio) == IF ratio \in -1000..1000 THEN <<1000 * (ratio + 1000)>> ELSE <<>>
ToRatio(fixed) == fixed \div 1000

-----------------------------------------------------------------------------
(* Identifiers: the time in front, and then what was drawn.                *)
NewId(millis, random) == <<millis, random>>
Shown(prefix, id) == <<prefix, id>>
ShownShort(prefix, id) == <<prefix, <<id[2]>>>>
ParseId(prefix, text) ==
  IF text[1] \in {prefix, "none"} /\ Len(text[2]) = 2 THEN <<text[2]>> ELSE <<>>

-----------------------------------------------------------------------------
(* The tree over a day's leaves. A digest is the term it is the digest of: *)
(* <<tag, parts>>. Digests have an order that has nothing to do with what  *)
(* they are of; here a leaf is ordered by the number it carries, and only  *)
(* leaves are ever ordered.                                                *)
Tags == {"memory-leaf", "quest-leaf", "verdict-leaf", "meta-leaf", "node", "footage-root",
         "link", "genesis", "quest-answer", "persona", "egress"}
TaggedHash(tag, parts) == <<tag, parts>>

\* The tag of a leaf keeps a memory from being read as a verdict.
LeafTag(kind) ==
  CASE kind = "memory" -> "memory-leaf" [] kind = "quest" -> "quest-leaf"
    [] kind = "verdict" -> "verdict-leaf" [] kind = "meta" -> "meta-leaf"
Leaf(kind, salt, bytes) == TaggedHash(LeafTag(kind), <<salt, bytes>>)
Node(a, b) == TaggedHash("node", <<a, b>>)

\* Sorted, and refused when empty or when a leaf is there twice. A tree is its
\* leaves; <<>> stands for a refusal.
Build(leaves) ==
  IF Cardinality(Range(leaves)) # Len(leaves) THEN <<>>
  ELSE SortSeq(leaves, LAMBDA a, b : a[2][1] < b[2][1])

\* Slip: an odd node is hashed with itself.
LevelDoubled(level) ==
  [i \in 1..((Len(level) + 1) \div 2) |->
     Node(level[2 * i - 1], level[IF 2 * i > Len(level) THEN 2 * i - 1 ELSE 2 * i])]

\* The next level up: pairs, and an odd node goes up as it is.
Level(level) ==
  [i \in 1..((Len(level) + 1) \div 2) |->
     IF 2 * i > Len(level) THEN level[2 * i - 1] ELSE Node(level[2 * i - 1], level[2 * i])]

RECURSIVE Root(_)
Root(level) == IF Len(level) = 1 THEN level[1] ELSE Root(Level(level))

\* The siblings on the way up from a place; a node without one has none there.
RECURSIVE Siblings(_, _)
Siblings(level, at) ==
  IF Len(level) = 1 THEN <<>>
  ELSE LET right == at % 2 = 0
           sibling == IF right THEN at - 1 ELSE at + 1 IN
       (IF sibling \notin DOMAIN level THEN <<>>
        ELSE <<[hash |-> level[sibling], side |-> IF right THEN "left" ELSE "right"]>>)
         \o Siblings(Level(level), (at + 1) \div 2)

Prove(tree, leaf) ==
  IF leaf \notin Range(tree) THEN <<>>
  ELSE <<[leaf |-> leaf, leaf_count |-> Len(tree),
          siblings |-> Siblings(tree, CHOOSE i \in DOMAIN tree : tree[i] = leaf)]>>

\* No path is longer than a tree of that many leaves is deep.
Depth(n) == CHOOSE d \in 0..n : 2^d >= n /\ (d = 0 \/ 2^(d - 1) < n)

VerifyInclusion(proof, root) ==
  /\ proof.leaf_count # 0
  /\ Len(proof.siblings) <= Depth(proof.leaf_count)
  /\ root = FoldLeft(LAMBDA hash, s : IF s.side = "left" THEN Node(s.hash, hash) ELSE Node(hash, s.hash),
                     proof.leaf, proof.siblings)

-----------------------------------------------------------------------------
(* What an encoding promises.                                              *)

\* Everything that can be encrypted can be decrypted, by either party, at
\* every length up to the limit; what was encrypted to somebody else, or had
\* its length or its text changed, cannot.
PayloadComesBack(len, wrong) ==
  LET key == ConversationKey("me", "you")
      payload == Encrypt(key, [len |-> len, id |-> 1], "nonce")[1] IN
  /\ Decrypt(ConversationKey("you", "me"), payload) = <<[len |-> len, id |-> 1]>>
  /\ Decrypt(ConversationKey("me", "me"), payload) = <<>>
  /\ Decrypt(key, [payload EXCEPT !.ciphertext[2].len = wrong]) = <<>>
  /\ PadToBucket(len) >= len /\ (len > 256 => 4 * PadToBucket(len) <= 5 * len)

\* An address and a profile come back as they were, with the relays in their
\* order; an entity is never read as one of another kind; and what is behind
\* the known records changes nothing.
EntityComesBack(address, tail) ==
  LET profile == [pubkey |-> address.pubkey, relays |-> address.relays] IN
  /\ \A b \in Range(EncodeAddress(address)) :
       DecodeAddress(b) = <<address>> /\ DecodeAddress(b \o tail) = <<address>>
  /\ \A b \in Range(EncodeProfile(profile)) :
       DecodeProfile(b) = <<profile>> /\ DecodeProfile(b \o tail) = <<profile>>
  /\ DecodeKey("npub", EncodeKey("nsec", address.pubkey)) = <<>>

\* Two writings of one value have one canonical form, which reads back as
\* itself; no other writing does.
CanonicalIsUnique(v) ==
  LET canonical == Canonical(v) IN
  /\ canonical # <<>> => FromCanonical(canonical[1]) = canonical
  /\ FromCanonical(v) # <<>> <=> canonical = <<v>>
  /\ v.type = "map" =>
       Canonical([v EXCEPT !.entries = Reverse(@)]) = canonical

\* Leaves come in any order; exactly the leaves of the tree can be proved, each
\* by its own path and by no other leaf's; and two days with different leaves,
\* one more or one less included, have different roots.
RootIsExact(leaves, others) ==
  LET tree == Build(leaves)
      shuffled == Build(Reverse(leaves)) IN
  /\ shuffled = tree
  /\ \A leaf \in Range(leaves) : /\ Prove(tree, leaf) # <<>>
                                 /\ VerifyInclusion(Prove(tree, leaf)[1], Root(tree))
  /\ \A leaf \in Range(others) :
       \A known \in Range(leaves) :
         VerifyInclusion([Prove(tree, known)[1] EXCEPT !.leaf = leaf], Root(tree)) <=> leaf = known
  /\ Root(tree) = Root(Build(others)) <=> Range(leaves) = Range(others)
=============================================================================
