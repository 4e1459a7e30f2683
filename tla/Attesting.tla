------------------------------ MODULE Attesting ------------------------------
(***************************************************************************)
(* Two things a stranger is shown: the proof that a day's link is older    *)
(* than a block, and the attestation that binds a score to such a day.     *)
(*                                                                         *)
(* A proof is a tree of steps: an operation on the message so far, a fork, *)
(* or an attestation of it. A message is the sequence of operations that   *)
(* made it; the calendars' answers are trees too, or junk.                 *)
(***************************************************************************)
EXTENDS Integers, FiniteSets, SequencesExt

-----------------------------------------------------------------------------
(* Proofs (ghostr-anchor/src/ots.rs). *)

Pending(uri) == [kind |-> "pending", what |-> uri, next |-> <<>>]
Bitcoin(height) == [kind |-> "bitcoin", what |-> height, next |-> <<>>]
Op(name, child) == [kind |-> "op", what |-> name, next |-> <<child>>]
Fork(a, b) == [kind |-> "fork", what |-> "", next |-> <<a, b>>]
Junk == [kind |-> "junk", what |-> "", next |-> <<>>]

\* What is asked of which calendar: its leaves, each with the message there.
RECURSIVE PendingRequests(_, _)
PendingRequests(step, message) ==
  LET here == IF step.kind = "op" THEN Append(message, step.what) ELSE message IN
  (IF step.kind = "pending" THEN <<[uri |-> step.what, commitment |-> message]>> ELSE <<>>)
    \o FlattenSeq([i \in DOMAIN step.next |-> PendingRequests(step.next[i], here)])

\* The height of the first attestation of a block, <<>> if there is none.
RECURSIVE BitcoinHeight(_)
BitcoinHeight(step) ==
  LET below == [i \in DOMAIN step.next |-> BitcoinHeight(step.next[i])]
      found == SelectSeq(below, LAMBDA h : h # <<>>)
  IN  IF step.kind = "bitcoin" THEN <<step.what>> ELSE IF found = <<>> THEN <<>> ELSE found[1]

\* The first leaf that asked becomes a fork of itself and the answer; <<>> if
\* none did.
RECURSIVE Graft(_, _, _, _)
Graft(step, message, request, addition) ==
  LET here == IF step.kind = "op" THEN Append(message, step.what) ELSE message
      below == [i \in DOMAIN step.next |-> Graft(step.next[i], here, request, addition)]
      at == {i \in DOMAIN below : below[i] # <<>>}
      first == CHOOSE i \in at : \A j \in at : i <= j
  IN  IF step.kind = "pending" /\ step.what = request.uri /\ message = request.commitment THEN <<Fork(step, addition)>>
      ELSE IF at = {} THEN <<>> ELSE <<[step EXCEPT !.next[first] = below[first][1]]>>

ToDetachedFile(digest, body) == IF body.kind = "junk" THEN <<>> ELSE <<[digest |-> digest, step |-> body]>>
ReadDetachedFile(file, expected) == file.digest = expected

\* Every calendar that is waited for is asked; what is no timestamp is nothing.
Upgrade(digest, file, answers) ==
  LET asked == PendingRequests(file.step, <<file.digest>>)
      grow(step, request) ==
        IF answers[request.uri].kind \in {"junk", "none"} \/ Graft(step, <<file.digest>>, request, answers[request.uri]) = <<>> THEN step
        ELSE Graft(step, <<file.digest>>, request, answers[request.uri])[1]
      grown == FoldLeft(grow, file.step, asked)
  IN  IF ~ReadDetachedFile(file, digest) THEN <<>>
      ELSE <<[file |-> [file EXCEPT !.step = grown], written |-> grown # file.step, height |-> BitcoinHeight(grown)]>>

DefaultCalendars == <<"a.pool", "b.pool">>
\* Each calendar is posted to; the first body that comes is the proof.
Submit(calendars, posts) ==
  LET accepted == SelectSeq(calendars, LAMBDA c : posts[c].kind \notin {"none", "empty"}) IN
  IF accepted = <<>> THEN [state |-> "failed", attempts |-> Len(calendars), calendars |-> <<>>, body |-> <<>>]
  ELSE [state |-> "pending", attempts |-> Len(calendars), calendars |-> accepted, body |-> <<posts[accepted[1]]>>]

-----------------------------------------------------------------------------
(* What is signed and published (ghostr-engine/src/ghost.rs). *)

WindowTag(window) == CASE window = "rolling30" -> <<"rolling_30">> [] window = "rolling90" -> <<"rolling_90">>
                       [] window = "all" -> <<"all_time">> [] OTHER -> <<>>
GhostPolicy(scopes) == [may_publish_notes |-> "ghost_notes" \in scopes, may_reply |-> FALSE, publishes_fidelity |-> "fidelity" \in scopes]
Manifest(vault, status) ==
  [chain_id |-> vault.chain, ghost_pubkey |-> vault.ghost, genesis_link |-> vault.genesis, ordinal |-> IF vault.persona = <<>> THEN 0 ELSE vault.persona[1],
   status |-> status, policy |-> GhostPolicy(vault.scopes), sealing_device |-> IF vault.device = <<>> THEN "" ELSE vault.device[1]]

Padding == 64
\* Six bits a letter: of one byte two, of two three, of three four; the rest is padding.
Base64Encode(bytes) ==
  LET chunks == (Len(bytes) + 2) \div 3
      byte(i) == IF i <= Len(bytes) THEN bytes[i] ELSE 0
      chunk(k) ==
        LET n == byte(3 * k + 1) * 65536 + byte(3 * k + 2) * 256 + byte(3 * k + 3)
            has == IF Len(bytes) - 3 * k >= 3 THEN 3 ELSE Len(bytes) - 3 * k
            letters == <<n \div 262144, (n \div 4096) % 64, (n \div 64) % 64, n % 64>>
        IN  [i \in 1..4 |-> IF i - 1 > has THEN Padding ELSE letters[i]]
  IN  FlattenSeq([k \in 1..chunks |-> chunk(k - 1)])

\* The score, the link of the day it was taken at, and that day's proof if any.
Attestation(vault, window) ==
  IF vault.score = <<>> \/ WindowTag(window) = <<>> THEN <<>>
  ELSE LET seq == vault.score[1].seq IN
       IF seq \notin DOMAIN vault.links THEN <<>>
       ELSE <<[chain_id |-> vault.chain, window |-> WindowTag(window)[1], overall |-> vault.score[1].overall, committed_at_seq |-> seq,
               link |-> vault.links[seq], ots |-> IF seq \in DOMAIN vault.proofs THEN Base64Encode(vault.proofs[seq]) ELSE <<>>]>>

Event(pubkey, kind, d, p, content) == [pubkey |-> pubkey, kind |-> kind, d |-> d, p |-> p, content |-> content]
Signed(key, event) == [event |-> event, sig |-> [key |-> key, over |-> event]]
ScopeTag(scope) == IF scope \in {"backup", "manifest", "anchor_receipts", "fidelity", "ghost_notes", "revocation", "remote_signer"} THEN scope ELSE "unrecognised"
\* A row for the publish, whatever comes of it; accepted by none is an error.
PublishLogged(vault, signed, scope, kind) ==
  [row |-> [provider |-> kind, policy |-> ScopeTag(scope), digest |-> signed.event.content],
   sent |-> IF scope = "revocation" \/ scope \in vault.scopes THEN <<signed>> ELSE <<>>,
   ok |-> (scope = "revocation" \/ scope \in vault.scopes) /\ vault.accepting]
Nothing == [row |-> <<>>, sent |-> <<>>, ok |-> FALSE]

PublishManifestUnder(vault, status, scope) ==
  PublishLogged(vault, Signed(vault.identity, Event(vault.identity, 31780, vault.chain, "", Manifest(vault, status))), scope, "ghost_manifest")
PublishManifest(vault, status) == PublishManifestUnder(vault, status, "manifest")
PublishAttestation(vault, window) ==
  LET payload == Attestation(vault, window) IN
  IF payload = <<>> THEN Nothing
  ELSE PublishLogged(vault, Signed(vault.identity, Event(vault.identity, 31786, payload[1].window, "", payload[1])), "fidelity", "fidelity_attestation")
PublishNote(vault, text) ==
  IF ~GhostPolicy(vault.scopes).may_publish_notes THEN Nothing
  ELSE PublishLogged(vault, Signed(vault.ghost, Event(vault.ghost, 1, "", vault.identity, text)), "ghost_notes", "ghost_note")

NoLink == "zero"
CheckAttestation(signed, author) ==
  [signature_valid |-> signed.sig = [key |-> signed.event.pubkey, over |-> signed.event], author_matches |-> signed.event.pubkey = author,
   chain_bound |-> signed.event.content.committed_at_seq > 0 /\ signed.event.content.link # NoLink, proof_present |-> signed.event.content.ots # <<>>]

\* The leaf that says which day it is: widths are fixed but for the zone's name.
MetaLeaf(seq, date, tz, count) == <<"meta", <<seq, date>> \o tz \o <<count>>>>

-----------------------------------------------------------------------------

RECURSIVE Leaves(_, _)
Leaves(step, message) ==
  LET here == IF step.kind = "op" THEN Append(message, step.what) ELSE message IN
  (IF step.kind \in {"pending", "bitcoin"} THEN {<<step.kind, step.what, message>>} ELSE {})
    \cup UNION {Leaves(step.next[i], here) : i \in DOMAIN step.next}

\* A pass over a proof loses no attestation of it, adds only what a calendar
\* that was asked answered, from the commitment it was asked for, and says
\* confirmed only if a block is attested there; a foreign proof is refused.
ProofsOnlyGrow(digest, file, answers) ==
  LET done == Upgrade(digest, file, answers)
      asked == {PendingRequests(file.step, <<file.digest>>)[i] : i \in DOMAIN PendingRequests(file.step, <<file.digest>>)}
      before == Leaves(file.step, <<file.digest>>)
      told == UNION {Leaves(answers[r.uri], r.commitment) : r \in {q \in asked : answers[q.uri].kind \notin {"junk", "none"}}}
  IN  /\ done = <<>> <=> file.digest # digest
      /\ done # <<>> =>
           LET after == Leaves(done[1].file.step, <<digest>>) IN
           /\ before \subseteq after /\ after \subseteq before \cup told
           /\ done[1].height # <<>> <=> \E leaf \in after : leaf[1] = "bitcoin"
           /\ done[1].written <=> done[1].file.step # file.step
           /\ told = {} => ~done[1].written
\* A submitted proof is one calendar's own, and every calendar was tried.
SubmissionsAreProofs(calendars, posts) ==
  LET s == Submit(calendars, posts) IN
  /\ s.attempts = Len(calendars)
  /\ s.state = "pending" <=> \E i \in DOMAIN calendars : posts[calendars[i]].kind \notin {"none", "empty"}
  /\ s.body # <<>> => \E i \in DOMAIN s.calendars : s.body[1] = posts[s.calendars[i]]

\* An attestation that went out passes every check a reader of it makes, and
\* says of the day the score was taken at what the chain says of it.
AttestationsHold(vault, window) ==
  LET out == PublishAttestation(vault, window) IN
  out.sent # <<>> =>
    LET check == CheckAttestation(out.sent[1], vault.identity)
        said == out.sent[1].event.content
    IN  /\ check.signature_valid /\ check.author_matches /\ check.chain_bound
        /\ said.link = vault.links[said.committed_at_seq] /\ said.committed_at_seq = vault.score[1].seq /\ said.overall = vault.score[1].overall
        /\ check.proof_present <=> said.committed_at_seq \in DOMAIN vault.proofs
        /\ Manifest(vault, "active").policy.publishes_fidelity
        /\ ~CheckAttestation(out.sent[1], vault.ghost).author_matches
        /\ ~CheckAttestation([out.sent[1] EXCEPT !.event.content.overall = @ + 1], vault.identity).signature_valid
\* A note is the ghost's, names its principal, and goes out of a vault whose
\* manifest says that it may.
NotesNameTheirPrincipal(vault) ==
  LET out == PublishNote(vault, "t") IN
  /\ out.sent # <<>> => /\ Manifest(vault, "active").policy.may_publish_notes
                        /\ out.sent[1].event.p = vault.identity /\ out.sent[1].event.pubkey = Manifest(vault, "active").ghost_pubkey
                        /\ out.sent[1].sig.key = vault.ghost
  /\ out.ok => out.sent # <<>> /\ out.row.digest = "t"
\* Bytes are read back from their letters.
LettersComeBack(bytes) ==
  LET text == Base64Encode(bytes)
      value(i) == IF text[i] = Padding THEN 0 ELSE text[i]
      padding == Cardinality({i \in DOMAIN text : text[i] = Padding})
      byte(i) == LET k == 4 * ((i - 1) \div 3)
                     n == value(k + 1) * 262144 + value(k + 2) * 4096 + value(k + 3) * 64 + value(k + 4)
                 IN  <<n \div 65536, (n \div 256) % 256, n % 256>>[((i - 1) % 3) + 1]
  IN  [i \in 1..((3 * Len(text)) \div 4) - padding |-> byte(i)] = bytes
\* No two days have the same meta leaf.
DaysAreNamed(a, b) == MetaLeaf(a.seq, a.date, a.tz, a.count) = MetaLeaf(b.seq, b.date, b.tz, b.count) <=> a = b
=============================================================================
