------------------------------- MODULE Events -------------------------------
(***************************************************************************)
(* Keys and the events they sign: one seed and the accounts derived from   *)
(* it, event ids and signatures, the nine kinds and their payloads, the    *)
(* mirror of an event, notes of the ghost and gift wraps.                  *)
(*                                                                         *)
(* Cryptography is symbolic: a secret is how it was derived, a signature   *)
(* says what it is over and by whom, a ciphertext says which two keys open *)
(* it. Texts are within the bounds of the payload format, see Encodings.   *)
(* An operation that refuses returns <<>>, any other <<its result>>.       *)
(***************************************************************************)
EXTENDS Integers, FiniteSets, SequencesExt

CONSTANTS HexDigits, \* digits of a key or a digest, 64 in the code
          MaxTime    \* the last second of a u64

-----------------------------------------------------------------------------
(* Accounts. *)

Index == [identity |-> 0, ghost |-> 1, anchor |-> 2, data |-> 3, signer_channel |-> 4]
Accounts == DOMAIN Index
Hardened(i) == <<i, "hardened">>
DerivationPath(account) == <<Hardened(44), Hardened(1237), Hardened(Index[account]), <<0>>, <<0>>>>

EntropyBytes(words) == IF words = 12 THEN 16 ELSE 32
Generate(words, entropy) == IF entropy # EntropyBytes(words) THEN <<>> ELSE <<[words |-> words, checks |-> TRUE]>>
\* Spaces between the words do not matter; words that fail the checksum do.
Parse(phrase) == IF ~phrase.checks \/ phrase.words \notin {12, 24} THEN <<>> ELSE <<phrase>>
Seed(phrase, passphrase) == <<"seed", phrase, passphrase>>

FromSeed(seed) == <<"master", seed>>
Public(secret) == <<"public", secret>>
\* A hardened child needs the parent's secret, any other its public half.
DeriveChild(secret, index) == <<"child", IF Len(index) = 2 THEN secret ELSE Public(secret), index>>
DeriveAccount(master, account) == FoldLeft(DeriveChild, master, DerivationPath(account))

\* Zero is no secret key.
FromSecret(scalar) == IF scalar = 0 THEN <<>> ELSE <<<<"scalar", scalar>>>>

\* What an unlocked vault holds; an imported key takes the place of the identity only.
Keys(seed, nsec) ==
  [a \in Accounts |-> IF a = "identity" /\ nsec # <<>> THEN nsec[1] ELSE DeriveAccount(FromSeed(seed), a)]

\* Digits of either case are read as the same key.
PublicFromHex(text) == IF Len(text) # HexDigits \/ "other" \in Range(text) THEN <<>> ELSE <<"key">>
\* A digest has one spelling here, but not when it is read from a JSON record.
DigestFromHex(text) == IF Len(text) # HexDigits \/ {"other", "upper"} \cap Range(text) # {} THEN <<>> ELSE <<"digest">>
DigestFromRecord(text) == IF Len(text) # HexDigits \/ "other" \in Range(text) THEN <<>> ELSE <<"digest">>

-----------------------------------------------------------------------------
(* Events. *)

UnsignedEvent(pubkey, at, kind, tags, content) ==
  [pubkey |-> pubkey, created_at |-> at, kind |-> kind, tags |-> tags, content |-> content]

\* Every field is in the id, and nothing else is.
Id(event) == <<"id", event.pubkey, event.created_at, event.kind, event.tags, event.content>>
Sign(secret, message) == [over |-> message, by |-> Public(secret)]
Verify(pubkey, message, sig) == sig.over = message /\ sig.by = pubkey
Signed(secret, event) == [id |-> Id(event), event |-> event, sig |-> Sign(secret, Id(event))]
VerifyEvent(signed) ==
  /\ Id(signed.event) = signed.id
  /\ Verify(signed.event.pubkey, signed.id, signed.sig)

\* A signer puts its name only under what is said to be by it.
SignEvent(keys, account, event) ==
  IF Public(keys[account]) # event.pubkey THEN <<>> ELSE <<Sign(keys[account], Id(event))>>

Conversation(secret, peer) == {Public(secret), peer}
Nip44Encrypt(secret, recipient, plaintext, nonce) ==
  [form |-> "nip44", parties |-> Conversation(secret, recipient), nonce |-> nonce, text |-> plaintext]
Nip44Decrypt(secret, sender, payload) ==
  IF payload.form # "nip44" \/ payload.parties # Conversation(secret, sender) THEN <<>> ELSE <<payload.text>>

-----------------------------------------------------------------------------
(* Kinds: the number, the account that signs, and whether it is encrypted. *)

Number == [ghost_manifest |-> 31780, source_descriptor |-> 31781, persona_version |-> 31782,
           footage_record |-> 31783, anchor_receipt |-> 31784, quest_set |-> 31785,
           fidelity_attestation |-> 31786, device_registration |-> 31787, revocation_notice |-> 31788]
Kinds == DOMAIN Number
AppData == 30078
TextNote == 1

IsEncrypted(kind) == kind \notin {"ghost_manifest", "anchor_receipt", "fidelity_attestation", "revocation_notice"}
SigningAccount(kind) ==
  IF kind \in {"ghost_manifest", "fidelity_attestation", "revocation_notice", "device_registration"} THEN "identity"
  ELSE IF kind = "anchor_receipt" THEN "anchor" ELSE "data"

Slug == [ghost_manifest |-> "ghost", source_descriptor |-> "source", persona_version |-> "persona",
         footage_record |-> "footage", anchor_receipt |-> "anchor", quest_set |-> "quests",
         fidelity_attestation |-> "fidelity", device_registration |-> "device", revocation_notice |-> "revocation"]
\* A text is the sequence of what stands between its slashes.
DTag(kind, identifier) == <<"ghostr", "v1", Slug[kind]>> \o identifier
FromDTag(text) ==
  LET named == {k \in Kinds : Slug[k] = text[3]} IN
  IF Len(text) < 4 \/ SubSeq(text, 1, 2) # <<"ghostr", "v1">> \/ named = {} THEN <<>>
  ELSE <<CHOOSE k \in named : TRUE>>

\* The fields a payload cannot be read without.
GhostManifest == {"chain_id", "ghost_pubkey", "created_at", "persona_ordinal", "genesis_link", "chain_version",
                  "status", "policy", "sealing_device"}
AnchorReceipt == {"chain_id", "seq", "link", "ots_base64"}
FidelityAttestation == {"chain_id", "as_of", "window", "overall", "sample_size", "ci", "ece", "decoy_confirm_rate",
                        "converged", "committed_at_seq", "link", "ots_base64"}
RevocationNotice == {"target", "pubkey", "revoked_at", "reason"}
DeviceRegistration == {"device_id", "label", "role", "registered_at"}
Footage == {"seq", "date", "tz", "window", "empty", "highlights", "people", "mood", "open_threads", "closed_loops",
            "unresolved", "memory_ids", "amendments", "persona_version", "commitment", "sealed_at"}
Required(kind) ==
  CASE kind = "ghost_manifest" -> GhostManifest [] kind = "anchor_receipt" -> AnchorReceipt
    [] kind = "fidelity_attestation" -> FidelityAttestation [] kind = "revocation_notice" -> RevocationNotice
    [] kind = "device_registration" -> DeviceRegistration [] OTHER -> Footage
Payload(kind) == [form |-> "json", fields |-> Required(kind)]
Reads(kind, plain) == plain # <<>> /\ plain[1].form = "json" /\ Required(kind) \subseteq plain[1].fields

-----------------------------------------------------------------------------
(* The codec. *)

\* The values of the first tag of that name.
FirstTag(event, name) ==
  LET named == {i \in DOMAIN event.tags : event.tags[i][1] = name} IN
  IF named = {} THEN <<>> ELSE Tail(event.tags[CHOOSE i \in named : \A j \in named : i <= j])

\* A kind is signed by its own account, and the private ones are encrypted to it.
Encode(keys, account, kind, identifier, at, payload, nonce) ==
  LET author == Public(keys[account]) IN
  IF account # SigningAccount(kind) THEN <<>>
  ELSE <<UnsignedEvent(author, at, Number[kind], <<<<"d", DTag(kind, identifier)>>>>,
           IF IsEncrypted(kind) THEN Nip44Encrypt(keys[account], author, payload, nonce) ELSE payload)>>

\* The number may be that of a mirror; the d tag may not be another kind's.
Decode(keys, account, kind, event, mirror) ==
  LET d == FirstTag(event, "d")
      plain == IF IsEncrypted(kind) THEN Nip44Decrypt(keys[account], event.pubkey, event.content) ELSE <<event.content>> IN
  IF event.kind \notin {Number[kind]} \cup (IF mirror THEN {AppData} ELSE {}) THEN <<>>
  ELSE IF d = <<>> \/ FromDTag(d[1]) # <<kind>> THEN <<>>
  ELSE IF ~Reads(kind, plain) THEN <<>>
  ELSE plain

MirrorAsNip78(event) ==
  LET d == FirstTag(event, "d") IN
  IF d = <<>> \/ {Number[k] : k \in Range(FromDTag(d[1]))} # {event.kind} THEN <<>>
  ELSE <<[event EXCEPT !.kind = AppData]>>

DisclosureTag == <<"ghostr", "v1", "ghost-authored">>
Key == [i \in 1..HexDigits |-> "lower"]
GhostNote(ghost, principal, text, at) ==
  IF text = "blank" THEN <<>>
  ELSE <<UnsignedEvent(ghost, at, TextNote, <<DisclosureTag, <<"p", Key, principal>>, <<"client", "ghostr">>>>,
                       [form |-> "text", fields |-> {text}])>>
HasDisclosure(event) ==
  LET p == FirstTag(event, "p") IN
  DisclosureTag \in Range(event.tags) /\ p # <<>> /\ PublicFromHex(p[1]) # <<>>

JitterCreatedAt(base, drawn, window) ==
  IF window = 0 THEN base
  ELSE LET later == base + (drawn % window) IN IF later > MaxTime THEN MaxTime ELSE later

\* A seal by the author around the rumor, a wrap by a key used once around the seal.
GiftWrap(keys, account, recipient, rumor, entropy) ==
  LET once == FromSecret(entropy.ephemeral_secret)
      seal == UnsignedEvent(Public(keys[account]), entropy.seal_created_at, 13, <<>>,
                            Nip44Encrypt(keys[account], recipient, rumor, entropy.seal_nonce))
      wrap == UnsignedEvent(Public(once[1]), entropy.wrap_created_at, 1059, <<<<"p", Key, recipient>>>>,
                            Nip44Encrypt(once[1], recipient, Signed(keys[account], seal), entropy.wrap_nonce)) IN
  IF \/ entropy.seal_created_at > rumor.created_at \/ entropy.wrap_created_at > rumor.created_at
     \/ entropy.seal_nonce = entropy.wrap_nonce
     \/ once = <<>> THEN <<>>
  ELSE <<Signed(once[1], wrap)>>

-----------------------------------------------------------------------------
(* What an event promises. *)

Tampered(event) ==
  {[event EXCEPT !.created_at = @ + 1], [event EXCEPT !.kind = AppData], [event EXCEPT !.tags = Append(@, <<"d", <<"x">>>>)],
   [event EXCEPT !.content = [form |-> "json", fields |-> {}]], [event EXCEPT !.pubkey = Public(<<"scalar", 9>>)]}

\* Whoever has the event reads it as the kind it was written as, and a private
\* one only with the account that wrote it, under its own number or mirrored; a
\* mirror passes only where one is asked for. Only the author's account signs it,
\* and no field of it can be changed afterwards.
EventStaysWhatItIs(keys, stranger, account, kind, identifier, nonce) ==
  LET made == Encode(keys, account, kind, identifier, 5, Payload(kind), nonce)
      event == made[1]
      mirror == MirrorAsNip78(event)[1]
      twoTags(e) == [e EXCEPT !.tags = @ \o <<<<"d", DTag("quest_set", <<"x">>)>>>>]
      readable(holder, a, k) == k = kind /\ (IsEncrypted(k) => holder = keys /\ a = account) IN
  made # <<>> =>
    /\ MirrorAsNip78(event) # <<>> /\ account # "signer_channel"
    /\ \A holder \in {keys, stranger}, a \in Accounts, k \in Kinds :
         /\ Decode(holder, a, k, event, FALSE) = (IF readable(holder, a, k) THEN <<Payload(k)>> ELSE <<>>)
         /\ Decode(holder, a, k, twoTags(mirror), TRUE) = Decode(holder, a, k, event, FALSE)
         /\ Decode(holder, a, k, mirror, FALSE) = <<>>
    /\ \A a \in Accounts : (SignEvent(keys, a, event) # <<>>) <=> a = account
    /\ VerifyEvent(Signed(keys[account], event))
    /\ \A other \in Tampered(event) : ~VerifyEvent([Signed(keys[account], event) EXCEPT !.event = other])

\* A wrap shows neither its author nor when the rumor was written, and only its
\* recipient gets at the two layers, both signed or hidden by the author.
WrapHidesItsAuthor(keys, recipient, stranger, account, rumor, entropy) ==
  LET made == GiftWrap(keys, account, Public(recipient["identity"]), rumor, entropy)
      wrap == made[1]
      open(holder, a, e) == Nip44Decrypt(holder[a], e.pubkey, e.content) IN
  made # <<>> =>
    /\ VerifyEvent(wrap) /\ wrap.event.created_at <= rumor.created_at
    /\ \A holder \in {keys, stranger}, a \in Accounts : /\ wrap.event.pubkey # Public(holder[a])
                                                        /\ open(holder, a, wrap.event) = <<>>
    /\ LET seal == open(recipient, "identity", wrap.event)[1] IN
       /\ VerifyEvent(seal) /\ seal.event.pubkey = Public(keys[account])
       /\ open(recipient, "identity", seal.event) = <<rumor>>
       /\ seal.event.content.nonce # wrap.event.content.nonce

\* A note of the ghost always says so, and blank ones are not written; a note
\* without the marks is not taken for one. Times are scattered forward only.
NoteDiscloses(keys, text) ==
  LET made == GhostNote(Public(keys["ghost"]), Public(keys["identity"]), text, 5) IN
  /\ (made = <<>>) <=> text = "blank"
  /\ made # <<>> => /\ HasDisclosure(made[1])
                    /\ \A a \in Accounts : (SignEvent(keys, a, made[1]) # <<>>) <=> a = "ghost"
                    /\ ~HasDisclosure([made[1] EXCEPT !.tags = Tail(@)])
  /\ \A base, drawn \in 0..MaxTime, window \in 0..3 :
       JitterCreatedAt(base, drawn, window) \in base..(IF window = 0 THEN base ELSE base + window - 1)
=============================================================================
