--------------------------------- MODULE Wire --------------------------------
(***************************************************************************)
(* One conversation with a relay, and one with a remote signer: what is    *)
(* sent, what of the answer is taken, and what a relay or a signer that    *)
(* says anything at all can make of it.                                    *)
(*                                                                         *)
(* A frame is a sequence of JSON values, each with its type. An event is a *)
(* record whose id stands for its body; [key, of] is a signature of the    *)
(* body of by key.                                                         *)
(***************************************************************************)
EXTENDS Integers, FiniteSets, SequencesExt

CONSTANTS MaxFramesPerWait,
          Points   \* the keys that are points of the curve

ASSUME WireAssumption == MaxFramesPerWait \in Nat

Str(v) == <<"string", v>>
Bool(v) == <<"bool", v>>
Obj(v) == <<"event", v>>
\* The frames of a websocket that hold no text.
CloseFrame == << <<"close", "">> >>
PingFrame == << <<"ping", "">> >>
Verifies(event) == event.id = event.body /\ event.sig = [key |-> event.body.pubkey, of |-> event.body]

-----------------------------------------------------------------------------
(* Messages to a relay. *)

PublishScope == {"backup", "manifest", "anchor_receipts", "fidelity", "ghost_notes", "revocation", "remote_signer"}
AnyFilter == [authors |-> {}, kinds |-> {}, raw_kinds |-> {}, d_tags |-> {}, p_tags |-> {}, since |-> <<>>, until |-> <<>>, limit |-> <<>>]

\* Only what is set is written: an empty list would ask for nothing.
FilterToJson(f) ==
  LET lists == [authors |-> f.authors, kinds |-> f.kinds \cup f.raw_kinds, d |-> f.d_tags, p |-> f.p_tags]
      numbers == [since |-> f.since, until |-> f.until, limit |-> f.limit]
      set == {l \in DOMAIN lists : lists[l] # {}} \cup {n \in DOMAIN numbers : numbers[n] # <<>>}
  IN  [k \in set |-> IF k \in DOMAIN lists THEN lists[k] ELSE numbers[k]]

ToJson(message) ==
  CASE message.verb = "EVENT" -> <<Str("EVENT"), Obj(message.event)>>
    [] message.verb = "REQ" -> <<Str("REQ"), Str(message.subscription), <<"filter", FilterToJson(message.filter)>>>>
    [] message.verb = "CLOSE" -> <<Str("CLOSE"), Str(message.subscription)>>

-----------------------------------------------------------------------------
(* Messages of a relay. "malformed" ones are skipped like unsupported ones. *)

Is(frame, i, type) == i <= Len(frame) /\ frame[i][1] = type
TextAt(frame, i) == IF Is(frame, i, "string") THEN frame[i][2] ELSE ""

Parse(frame) ==
  IF ~Is(frame, 1, "string") THEN [verb |-> "malformed"] ELSE
  CASE frame[1][2] = "OK" ->
         [verb |-> "OK", id |-> TextAt(frame, 2), accepted |-> Len(frame) >= 3 /\ frame[3] = Bool(TRUE), message |-> TextAt(frame, 4)]
    [] frame[1][2] = "EVENT" ->
         IF Is(frame, 2, "string") /\ Is(frame, 3, "event") THEN [verb |-> "EVENT", subscription |-> frame[2][2], event |-> frame[3][2]]
         ELSE [verb |-> "malformed"]
    [] frame[1][2] \in {"EOSE", "CLOSED"} ->
         IF Is(frame, 2, "string") THEN [verb |-> frame[1][2], subscription |-> frame[2][2]] ELSE [verb |-> "malformed"]
    [] frame[1][2] = "NOTICE" -> [verb |-> "NOTICE", message |-> TextAt(frame, 2)]
    [] OTHER -> [verb |-> "unsupported"]

\* The messages one wait reads: up to a close, the end of what is sent or the
\* limit, and of those the text frames.
Frames(sent) ==
  LET closed == {i \in DOMAIN sent : sent[i] = CloseFrame}
      end == IF closed = {} THEN Len(sent) ELSE (CHOOSE i \in closed : \A j \in closed : i <= j) - 1
      last == IF end > MaxFramesPerWait THEN MaxFramesPerWait ELSE end
  IN  [i \in 1..last |-> IF sent[i] = PingFrame THEN [verb |-> "unsupported"] ELSE Parse(sent[i])]
\* The place of the first one that is wanted, 0 if none comes.
First(at) == IF at = {} THEN 0 ELSE CHOOSE i \in at : \A j \in at : i <= j
WaitFor(frames, wanted) == First({i \in DOMAIN frames : frames[i] \in wanted})

-----------------------------------------------------------------------------
(* The relay client. *)

New(relays, enabled) == [relays |-> relays, enabled |-> enabled]
Connect(relay) == relay.host /\ relay.answers
Answer(frames, at) == IF at = 0 THEN "unreachable" ELSE IF frames[at].accepted THEN "accepted" ELSE "rejected"
OkOf(frames, event) == Answer(frames, WaitFor(frames, {m \in Range(frames) : m.verb = "OK" /\ m.id = event.id.name}))
\* Slip: the first OK is taken for the one that is waited for.
PublishAnyOk(relay, event) ==
  IF Connect(relay) THEN Answer(Frames(relay.sends), WaitFor(Frames(relay.sends), {m \in Range(Frames(relay.sends)) : m.verb = "OK"})) ELSE "unreachable"

PublishOne(relay, event) == IF Connect(relay) THEN OkOf(Frames(relay.sends), event) ELSE "unreachable"

Permits(client, scope) == scope = "revocation" \/ scope \in client.enabled
Reported(verdicts) ==
  [accepted |-> {i \in DOMAIN verdicts : verdicts[i] = "accepted"}, rejected |-> {i \in DOMAIN verdicts : verdicts[i] = "rejected"},
   unreachable |-> {i \in DOMAIN verdicts : verdicts[i] = "unreachable"}]
SomeAccepted(report) == IF report.accepted = {} THEN <<>> ELSE <<report>>
\* <<>> is an error.
Publish(client, event, scope) ==
  IF ~Permits(client, scope) \/ ~Verifies(event) THEN <<>>
  ELSE SomeAccepted(Reported([i \in DOMAIN client.relays |-> PublishOne(client.relays[i], event)]))

\* What one relay gives: its verified events of this subscription until it
\* says that it is done, is closed or falls silent.
Given(seen, subscription, done) ==
  {seen[i].event : i \in {j \in DOMAIN seen : (done = 0 \/ j < done) /\ seen[j].verb = "EVENT"
                                             /\ seen[j].subscription = subscription /\ Verifies(seen[j].event)}}
GivenUntilDone(seen, subscription) ==
  Given(seen, subscription, WaitFor(seen, {m \in Range(seen) : m.verb \in {"EOSE", "CLOSED"} /\ m.subscription = subscription}))
Gives(relay, subscription) == GivenUntilDone(Frames(relay.sends), subscription)
Fetch(client) ==
  LET reached == {i \in DOMAIN client.relays : Connect(client.relays[i])} IN
  IF reached = {} /\ client.relays # <<>> THEN [error |-> TRUE, events |-> {}]
  ELSE [error |-> FALSE, events |-> UNION {Gives(client.relays[i], "ghostr-fetch") : i \in reached}]

\* The first relay that answers; its frames are read as they come.
Subscribe(client) ==
  LET reached == {i \in DOMAIN client.relays : Connect(client.relays[i])} IN
  IF reached = {} THEN <<>>
  ELSE <<[sends |-> client.relays[CHOOSE i \in reached : \A j \in reached : i <= j].sends, subscription |-> "ghostr-sub", closed |-> FALSE]>>
CloseSub(sub) == [sub EXCEPT !.closed = TRUE]
\* The next event and what is left; anything else ends it for good.
Took(sub, frames, at) ==
  IF at = 0 \/ frames[at].verb = "CLOSED" THEN [sub |-> CloseSub(sub), event |-> <<>>]
  ELSE [sub |-> [sub EXCEPT !.sends = SubSeq(@, at + 1, Len(@))], event |-> <<frames[at].event>>]
Wanted(sub, m) == m.verb \in {"EVENT", "CLOSED"} /\ m.subscription = sub.subscription /\ (m.verb = "EVENT" => Verifies(m.event))
TookNext(sub, frames) == Took(sub, frames, WaitFor(frames, {m \in Range(frames) : Wanted(sub, m)}))
NextEvent(sub) == IF sub.closed THEN [sub |-> sub, event |-> <<>>] ELSE TookNext(sub, Frames(sub.sends))

-----------------------------------------------------------------------------
(* A remote signer: one call each, answered with anything. <<>> is an error. *)

Method == {"connect", "get_public_key", "sign_event", "nip44_encrypt", "nip44_decrypt", "ping"}
Signer(account, pubkey) == [account |-> account, user_pubkey |-> pubkey, next_id |-> 0]
AsRequest(signer, method, params) == [id |-> signer.next_id, method |-> method, params |-> params]
\* The reply to this request, if it is one and says no error.
CallSigner(request, reply) ==
  IF reply.malformed \/ reply.id # request.id \/ reply.error # <<>> THEN <<>> ELSE reply.result
CheckKey(signer, account) == account = signer.account

ParsePubkey(text) == IF text.hex /\ text.bytes = 32 THEN <<text.key>> ELSE <<>>
\* connect, and then the key is asked for and pinned.
Pinned(unconnected, key) ==
  IF key = <<>> THEN <<>> ELSE IF ParsePubkey(key[1]) = <<>> THEN <<>>
  ELSE <<[unconnected EXCEPT !.user_pubkey = ParsePubkey(key[1])[1], !.next_id = 2]>>
Connected(unconnected, hello, second) ==
  IF hello = <<>> THEN <<>>
  ELSE Pinned(unconnected, CallSigner(AsRequest([unconnected EXCEPT !.next_id = 1], "get_public_key", <<>>), second))
ConnectSigner(account, signerKey, secret, first, second) ==
  Connected(Signer(account, signerKey), CallSigner(AsRequest(Signer(account, signerKey), "connect", <<signerKey>> \o secret), first), second)
PublicKey(signer, account) == IF CheckKey(signer, account) THEN <<signer.user_pubkey>> ELSE <<>>
Ping(signer, reply) == CallSigner(AsRequest(signer, "ping", <<>>), reply) = <<"pong">>

SignatureOf(signer, body, signed) ==
  IF signed = <<>> THEN <<>>
  ELSE IF signed[1].id # body \/ signed[1].body.pubkey # signer.user_pubkey \/ ~Verifies(signed[1]) THEN <<>>
  ELSE <<signed[1].sig>>
SignEvent(signer, account, body, reply) ==
  IF ~CheckKey(signer, account) \/ body.pubkey # signer.user_pubkey THEN <<>>
  ELSE SignatureOf(signer, body, CallSigner(AsRequest(signer, "sign_event", <<body>>), reply))
RemoteEncrypt(signer, account, recipient, text, reply) ==
  IF CheckKey(signer, account) THEN CallSigner(AsRequest(signer, "nip44_encrypt", <<recipient, text>>), reply) ELSE <<>>
RemoteDecrypt(signer, account, sender, payload, reply) ==
  IF CheckKey(signer, account) THEN CallSigner(AsRequest(signer, "nip44_decrypt", <<sender, payload>>), reply) ELSE <<>>
\* There is no such method: the author could not be hidden.
RemoteGiftWrap(signer, rumor) == <<>>

\* The envelope of a request, and the reply that is taken: the first of the
\* signer's own that opens.
Envelope(transport, request) ==
  [pubkey |-> transport.client, kind |-> 24133, p |-> transport.signer, for |-> transport.signer, content |-> request]
RoundTrip(transport, fetched) ==
  LET mine == {i \in DOMAIN fetched : fetched[i].body.pubkey = transport.signer /\ fetched[i].body.for = transport.client} IN
  IF mine = {} THEN <<>> ELSE <<fetched[CHOOSE i \in mine : \A j \in mine : i <= j].body.content>>

\* An escape that is none stands as it is written.
Decoded(text, glyph) ==
  LET escaped(i) == text[i] = "%" /\ i + 2 <= Len(text) /\ SubSeq(text, i + 1, i + 2) \in DOMAIN glyph
      from[i \in 1..(Len(text) + 1)] ==
        IF i > Len(text) THEN <<>>
        ELSE IF escaped(i) THEN <<glyph[SubSeq(text, i + 1, i + 2)]>> \o from[i + 3]
        ELSE <<text[i]>> \o from[i + 1]
  IN  from[1]
\* bunker://key?relay=..&secret=..: the last secret, every relay, and no
\* relay that is not a websocket.
BunkerOf(url, relays, secrets) ==
  IF url.scheme # "bunker" \/ ParsePubkey(url.key) = <<>> \/ url.key.key \notin Points \/ relays = <<>>
     \/ \E i \in DOMAIN relays : relays[i].value = <<>> \/ Head(relays[i].value) \notin {"wss://", "ws://"}
  THEN <<>>
  ELSE <<[signer |-> url.key.key, relays |-> [i \in DOMAIN relays |-> relays[i].value],
          secret |-> IF secrets = <<>> THEN <<>> ELSE <<Last(secrets).value>>]>>
BunkerFrom(url, pairs) == BunkerOf(url, SelectSeq(pairs, LAMBDA p : p.name = "relay"), SelectSeq(pairs, LAMBDA p : p.name = "secret"))
ParseBunker(url, glyph) ==
  BunkerFrom(url, [i \in DOMAIN url.query |-> [name |-> url.query[i].name, value |-> Decoded(url.query[i].value, glyph)]])

-----------------------------------------------------------------------------

\* A relay that reads the filter serves what the filter means: each field that
\* is set narrows, one that is not does not, and both lists of kinds are one.
Serves(json, e) ==
  /\ "authors" \in DOMAIN json => e.body.pubkey \in json.authors
  /\ "kinds" \in DOMAIN json => e.body.kind \in json.kinds
  /\ "p" \in DOMAIN json => e.body.p \in json.p
  /\ "since" \in DOMAIN json => e.body.at >= json.since[1]
FilterMeansWhatItSays(f, e) ==
  Serves(FilterToJson(f), e) <=>
    /\ f.authors = {} \/ e.body.pubkey \in f.authors
    /\ f.kinds \cup f.raw_kinds # {} => e.body.kind \in f.kinds \/ e.body.kind \in f.raw_kinds
    /\ f.p_tags = {} \/ e.body.p \in f.p_tags
    /\ f.since = <<>> \/ e.body.at >= f.since[1]

\* Whatever relays say: a publish is accepted where an OK for this very event
\* said true, and each relay is counted once; what is fetched or subscribed
\* to verifies, was sent under the client's subscription, and a relay that
\* misbehaves hides nothing that another one gave.
Says(relay, start) == \E frame \in Range(relay.sends) : Len(frame) >= Len(start) /\ SubSeq(frame, 1, Len(start)) = start
ReportIsTold(client, event, scope, report) ==
  /\ \A i \in report.accepted : Says(client.relays[i], <<Str("OK"), Str(event.id.name), Bool(TRUE)>>)
  /\ UNION {report.accepted, report.rejected, report.unreachable} = DOMAIN client.relays
  /\ scope # "revocation" => scope \in client.enabled
FetchIsTold(client, fetched) ==
  \A e \in fetched.events :
    Verifies(e) /\ \E i \in DOMAIN client.relays : Says(client.relays[i], <<Str("EVENT"), Str("ghostr-fetch"), Obj(e)>>)
HidesNothing(alone, fetched) == alone.events \subseteq fetched.events /\ (~alone.error => ~fetched.error)
NextIsTold(first, second) == \A e \in {first, second} : e # <<>> => Verifies(e[1]) /\ first # <<>>
RelaysAreNotBelieved(client, event, scope) ==
  /\ \A report \in Range(Publish(client, event, scope)) : ReportIsTold(client, event, scope, report)
  /\ \A fetched \in {Fetch(client)} :
       /\ FetchIsTold(client, fetched)
       /\ \A i \in DOMAIN client.relays : HidesNothing(Fetch([client EXCEPT !.relays = <<client.relays[i]>>]), fetched)
  /\ \A sub \in Range(Subscribe(client)) :
       /\ \A first \in {NextEvent(sub)} : NextIsTold(first.event, NextEvent(first.sub).event)
       /\ NextEvent(CloseSub(sub)).event = <<>>

\* Whatever the signer answers: a signature is of the event that was asked
\* for, by the key that was pinned; an answer to another request is none.
SignatureIsOurs(signer, account, body, asked, sig) ==
  sig # <<>> => sig[1] = [key |-> signer.user_pubkey, of |-> body] /\ asked = account /\ body.pubkey = signer.user_pubkey
SignerIsNotBelieved(account, signerKey, first, second, body, asked, reply) ==
  \A signer \in Range(ConnectSigner(account, signerKey, <<"s">>, first, second)) :
    /\ SignatureIsOurs(signer, account, body, asked, SignEvent(signer, asked, body, reply))
    /\ (\E result \in {SignEvent(signer, asked, body, reply), RemoteEncrypt(signer, asked, signerKey, "t", reply),
                         RemoteDecrypt(signer, asked, signerKey, "t", reply)} : result # <<>>) =>
         reply.id = 2 /\ reply.error = <<>> /\ PublicKey(signer, asked) # <<>>

\* A bunker's address is taken only with a key that is one and with relays it
\* names; pairs nobody knows change nothing.
BunkerIsNamed(url, glyph) ==
  /\ \A bunker \in Range(ParseBunker(url, glyph)) :
       /\ bunker.signer \in Points /\ bunker.relays # <<>>
       /\ \A i \in DOMAIN bunker.relays : Head(bunker.relays[i]) \in {"wss://", "ws://"}
  /\ \A i \in DOMAIN url.query :
       url.query[i].name \notin {"relay", "secret"} => ParseBunker([url EXCEPT !.query = RemoveAt(@, i)], glyph) = ParseBunker(url, glyph)
=============================================================================
