--------------------------- MODULE OutboundProofs ---------------------------
(***************************************************************************)
(* What leaves the device, for any number of days, commands, relays and    *)
(* calls: a session with the signer is one identity and takes each         *)
(* approval once, a day confirmed is proved and stays so where commands    *)
(* leave it alone, a revocation is neither announced before it is made nor *)
(* taken back, and a model is told nothing forbidden or unlogged.          *)
(*                                                                         *)
(* The last needs a count (GateInv): each payload that was sent, or is     *)
(* bound to be sent by a session that has written its row, has a row of    *)
(* its own.                                                                *)
(***************************************************************************)
EXTENDS Anchor, Ghost, Bunker, Gate, FiniteSetTheorems, SequenceTheorems, TLAPS

-----------------------------------------------------------------------------
(* The remote signer. *)

SentRequests == [session : Sessions, n : Nat, method : Methods, body : Bodies \cup {"none"}]

ReplyRecords == [id : {Id(s, n) : s \in Sessions, n \in Nat} \cup {<<"none", 0>>}, at : Nat,
            re : [session : Sessions \cup {"none"}, n : Nat],
            answer : Signatures \cup {Key(k) : k \in Keys} \cup {Nothing, Refusal}]

Calls == [pc : {"idle", "wait", "check"}, n : Nat, method : Methods \cup {"none"},
          body : Bodies \cup {"none"}, sent : Nat, tries : Nat, reply : ReplyRecords]

BunkerTypes ==
  /\ clockSec \in Nat /\ held \in Keys /\ nextId \in [Sessions -> Nat]
  /\ pinned \in [Sessions -> SUBSET Keys] /\ offered \in [Sessions -> SUBSET Keys]
  /\ replies \subseteq ReplyRecords /\ call \in [Sessions -> Calls]

\* No two requests of a session have one number.
Numbered ==
  /\ requests \subseteq SentRequests
  /\ \A r \in requests : r.n < nextId[r.session]
  /\ \A q, r \in requests : q.session = r.session /\ q.n = r.n => q = r

\* A reply carries the id of the request it answers, and a key that was held
\* since it was asked for.
AnswersTo(reply, r) ==
  /\ reply.re = [session |-> r.session, n |-> r.n]
  /\ reply.id = Id(r.session, r.n)
  /\ r.method = "get_public_key" =>
       \A k \in Keys : reply.answer = Key(k) => k \in offered[r.session]

Answered == \A reply \in replies : \E r \in requests : AnswersTo(reply, r)

\* A running call is about a request that was sent, and looks at a reply there
\* is; a key is asked for once.
Calling ==
  \A s \in Sessions :
    /\ call[s].pc # "idle" =>
         \E r \in requests : r.session = s /\ r.n = call[s].n /\ r.method = call[s].method
    /\ call[s].pc = "check" => call[s].reply \in replies
    /\ call[s].method = "get_public_key" => pinned[s] = {}

HeldIsOffered == \A r \in requests : r.method = "get_public_key" => held \in offered[r.session]

BunkerInv ==
  /\ BunkerTypes /\ Numbered /\ Answered /\ Calling
  /\ SessionIsOneIdentity
  /\ \A a \in accepted : a.by.session \in Sessions
  /\ HeldIsOffered

LEMMA NoCallIsIdle == NoCall.pc = "idle" /\ NoCall.method = "none" /\ NoCall \in Calls
  BY DEF NoCall, Calls, ReplyRecords, Methods

LEMMA BunkerInitInv == BunkerInit => BunkerInv
  <1> SUFFICES ASSUME BunkerInit PROVE BunkerInv
    OBVIOUS
  <1>1. BunkerTypes
    BY NoCallIsIdle DEF BunkerInit, BunkerTypes
  <1>2. Numbered /\ Answered /\ HeldIsOffered
    BY DEF BunkerInit, Numbered, Answered, HeldIsOffered
  <1>3. Calling
    BY NoCallIsIdle DEF BunkerInit, Calling
  <1> QED
    BY <1>1, <1>2, <1>3 DEF BunkerInv, BunkerInit, SessionIsOneIdentity

\* More requests, replies and keys offered leave what was answered answered.
LEMMA StillAnswered ==
  ASSUME BunkerTypes, Numbered, Answered, requests \subseteq requests', replies' = replies,
         \A s \in Sessions : offered[s] \subseteq offered'[s]
  PROVE  Answered'
  <1> SUFFICES ASSUME NEW reply \in replies PROVE \E r \in requests' : AnswersTo(reply, r)'
    BY DEF Answered
  <1>1. PICK r \in requests : AnswersTo(reply, r)
    BY DEF Answered
  <1>2. r.session \in Sessions
    BY DEF Numbered, SentRequests
  <1>3. AnswersTo(reply, r)'
    BY <1>1, <1>2 DEF AnswersTo
  <1> QED
    BY <1>3

LEMMA RequestKeeps ==
  ASSUME BunkerInv, NEW s \in Sessions, Request(s)
  PROVE  BunkerInv'
  <1> USE DEF BunkerInv
  <1> DEFINE method == NextMethod(s)
  <1>1. PICK body \in Bodies \cup {"none"} :
          /\ Goes(s, [NoCall EXCEPT !.pc = "wait", !.n = nextId[s], !.method = method,
                                    !.body = body, !.sent = clockSec])
          /\ requests' = requests \cup {[session |-> s, n |-> nextId[s], method |-> method, body |-> body]}
    BY DEF Request
  <1>2. method \in Methods /\ (method = "get_public_key" => pinned[s] = {})
    BY DEF NextMethod, Methods
  <1>3. /\ offered' = IF method = "get_public_key" THEN [offered EXCEPT ![s] = @ \cup {held}] ELSE offered
        /\ nextId' = [nextId EXCEPT ![s] = @ + 1]
        /\ UNCHANGED <<clockSec, held, replies, pinned, accepted, refused>>
    BY DEF Request
  <1> DEFINE x == [NoCall EXCEPT !.pc = "wait", !.n = nextId[s], !.method = method,
                                 !.body = body, !.sent = clockSec]
             new == [session |-> s, n |-> nextId[s], method |-> method, body |-> body]
  <1>4. /\ x.pc = "wait" /\ x.n = nextId[s] /\ x.method = method
        /\ x \in Calls
    BY <1>1, <1>2, NoCallIsIdle DEF Calls, BunkerTypes
  <1>5. new.session = s /\ new.n = nextId[s] /\ new.method = method /\ new \in SentRequests
    BY <1>1, <1>2 DEF SentRequests, BunkerTypes
  <1>6. Goes(s, x) /\ requests' = requests \cup {new}
    BY <1>1
  <1> HIDE DEF x, new, method
  <1>7. /\ call' \in [Sessions -> Calls] /\ call'[s] = x
        /\ \A t \in Sessions \ {s} : call'[t] = call[t]
    BY <1>4, <1>6 DEF Goes, BunkerTypes
  <1>8. /\ offered' \in [Sessions -> SUBSET Keys]
        /\ \A t \in Sessions : offered[t] \subseteq offered'[t]
    BY <1>3 DEF BunkerTypes
  <1>9. BunkerTypes'
    <2>1. nextId' \in [Sessions -> Nat]
      BY <1>3 DEF BunkerTypes
    <2>2. UNCHANGED <<clockSec, held, replies, pinned>>
      BY <1>3
    <2> QED
      BY <1>7, <1>8, <2>1, <2>2 DEF BunkerTypes
  <1>10. Numbered'
    BY <1>3, <1>5, <1>6 DEF Numbered, SentRequests, BunkerTypes
  <1>11. Answered'
    BY <1>3, <1>6, <1>8, StillAnswered
  <1>12. Calling'
    BY <1>2, <1>3, <1>4, <1>5, <1>6, <1>7 DEF Calling
  <1>13. SessionIsOneIdentity'
    BY <1>3, <1>8 DEF SessionIsOneIdentity
  <1>14. HeldIsOffered'
    <2>1. method = "get_public_key" => held \in offered'[s]
      BY <1>3 DEF BunkerTypes
    <2>2. \A r \in requests : r.session \in Sessions
      BY DEF Numbered, SentRequests
    <2> QED
      BY <1>3, <1>5, <1>6, <1>8, <2>1, <2>2 DEF HeldIsOffered
  <1> QED
    BY <1>3, <1>9, <1>10, <1>11, <1>12, <1>13, <1>14

LEMMA ReplyKeeps ==
  ASSUME BunkerInv, SignerReplies
  PROVE  BunkerInv'
  <1> USE DEF BunkerInv
  <1>0. PICK r \in requests : \E a \in Answers(r) :
          replies' = replies \cup {[id |-> Id(r.session, r.n), at |-> clockSec,
                                    re |-> [session |-> r.session, n |-> r.n], answer |-> a]}
    BY DEF SignerReplies
  <1>1. PICK a \in Answers(r) :
          replies' = replies \cup {[id |-> Id(r.session, r.n), at |-> clockSec,
                                    re |-> [session |-> r.session, n |-> r.n], answer |-> a]}
    BY <1>0
  <1>2. UNCHANGED <<clockSec, held, nextId, requests, call, pinned, offered, accepted, refused>>
    BY DEF SignerReplies
  <1> DEFINE new == [id |-> Id(r.session, r.n), at |-> clockSec,
                     re |-> [session |-> r.session, n |-> r.n], answer |-> a]
  <1>3. new.re = [session |-> r.session, n |-> r.n] /\ new.id = Id(r.session, r.n) /\ new.answer = a
    OBVIOUS
  <1>4. ASSUME r.method = "get_public_key", NEW k \in Keys, a = Key(k)
        PROVE  k \in offered[r.session]
    <2>1. a = Key(held)
      BY <1>1, <1>4 DEF Answers, Key, Refusal
    <2> QED
      BY <1>4, <2>1 DEF Key, HeldIsOffered
  <1>5. AnswersTo(new, r)
    BY <1>3, <1>4 DEF AnswersTo
  <1>t. new \in ReplyRecords
    <2>1. a \in Signatures \cup {Key(k) : k \in Keys} \cup {Nothing, Refusal}
      BY <1>1 DEF Answers, BunkerTypes
    <2>2. r.session \in Sessions /\ r.n \in Nat
      BY DEF Numbered, SentRequests
    <2> QED
      BY <2>1, <2>2 DEF ReplyRecords, BunkerTypes
  <1>6. replies' = replies \cup {new}
    BY <1>1
  <1> HIDE DEF new
  <1>7. Answered'
    BY <1>2, <1>5, <1>6 DEF Answered, AnswersTo
  <1>8. /\ BunkerTypes' /\ Numbered' /\ SessionIsOneIdentity' /\ HeldIsOffered'
        /\ \A x \in accepted' : x.by.session \in Sessions
    BY <1>2, <1>6, <1>t DEF BunkerTypes, Numbered, SessionIsOneIdentity, HeldIsOffered
  <1>9. Calling'
    BY <1>2, <1>6 DEF Calling
  <1> QED
    BY <1>7, <1>8, <1>9

\* A call that goes on or ends, whatever else happens to it.
LEMMA CallMoves ==
  ASSUME BunkerInv, NEW s \in Sessions, NEW x, Goes(s, x),
         UNCHANGED <<clockSec, held, nextId, requests, replies, offered>>,
         x \in Calls,
         \/ x = NoCall
         \/ /\ x.n = call[s].n /\ x.method = call[s].method /\ call[s].pc # "idle"
            /\ x.pc = "check" => x.reply \in replies
            /\ UNCHANGED pinned,
         pinned' \in [Sessions -> SUBSET Keys],
         \A t \in Sessions \ {s} : pinned'[t] = pinned[t]
  PROVE  BunkerTypes' /\ Numbered' /\ Answered' /\ Calling' /\ HeldIsOffered'
  <1> USE DEF BunkerInv
  <1>1. /\ call' \in [Sessions -> Calls] /\ call'[s] = x
        /\ \A t \in Sessions \ {s} : call'[t] = call[t]
    BY DEF Goes, BunkerTypes
  <1>2. BunkerTypes'
    BY <1>1 DEF BunkerTypes
  <1>3. Numbered' /\ Answered'
    BY DEF Numbered, Answered, AnswersTo
  <1>4. Calling'
    BY <1>1, NoCallIsIdle DEF Calling
  <1> QED
    BY <1>2, <1>3, <1>4 DEF HeldIsOffered

LEMMA FetchKeeps ==
  ASSUME BunkerInv, NEW s \in Sessions, Fetch(s)
  PROVE  BunkerInv'
  <1> USE DEF BunkerInv
  <1>1. /\ call[s].pc = "wait"
        /\ UNCHANGED <<clockSec, held, nextId, requests, replies, pinned, offered, accepted>>
    BY DEF Fetch
  <1>2. \/ \E reply \in replies : Goes(s, [call[s] EXCEPT !.pc = "check", !.reply = reply])
        \/ Goes(s, [call[s] EXCEPT !.tries = @ + 1])
        \/ Goes(s, NoCall)
    BY DEF Fetch
  <1>3. pinned \in [Sessions -> SUBSET Keys]
    BY DEF BunkerTypes
  <1>4. SessionIsOneIdentity' /\ \A a \in accepted' : a.by.session \in Sessions
    BY <1>1 DEF SessionIsOneIdentity
  <1> DEFINE Holds == BunkerTypes' /\ Numbered' /\ Answered' /\ Calling' /\ HeldIsOffered'
  <1>c. call[s] \in Calls /\ replies \subseteq ReplyRecords
    BY DEF BunkerTypes
  <1>5. ASSUME NEW reply \in replies, Goes(s, [call[s] EXCEPT !.pc = "check", !.reply = reply])
        PROVE  Holds
    <2> DEFINE x == [call[s] EXCEPT !.pc = "check", !.reply = reply]
    <2>1. /\ x.pc = "check" /\ x.n = call[s].n /\ x.method = call[s].method /\ x.reply = reply
          /\ x \in Calls
      BY <1>c DEF Calls
    <2>2. Goes(s, x)
      BY <1>5
    <2> HIDE DEF x
    <2> QED
      BY <1>1, <1>3, <2>1, <2>2, CallMoves
  <1>6. ASSUME Goes(s, [call[s] EXCEPT !.tries = @ + 1])
        PROVE  Holds
    <2> DEFINE x == [call[s] EXCEPT !.tries = @ + 1]
    <2>1. /\ x.pc = "wait" /\ x.n = call[s].n /\ x.method = call[s].method
          /\ x \in Calls
      BY <1>1, <1>c DEF Calls
    <2>2. Goes(s, x)
      BY <1>6
    <2> HIDE DEF x
    <2> QED
      BY <1>1, <1>3, <2>1, <2>2, CallMoves
  <1>7. ASSUME Goes(s, NoCall)
        PROVE  Holds
    BY <1>1, <1>3, <1>7, CallMoves, NoCallIsIdle
  <1> QED
    BY <1>2, <1>4, <1>5, <1>6, <1>7

\* A reply under the id of a running call answers the request of that call.
LEMMA TakenIsMeant ==
  ASSUME PrefixesDiffer, BunkerInv, NEW s \in Sessions, call[s].pc = "check",
         Correlates(s, call[s].reply)
  PROVE  /\ call[s].reply.re = [session |-> s, n |-> call[s].n]
         /\ call[s].method = "get_public_key" =>
              \A k \in Keys : call[s].reply.answer = Key(k) => k \in offered[s]
  <1> USE DEF BunkerInv
  <1>1. PICK q \in requests : q.session = s /\ q.n = call[s].n /\ q.method = call[s].method
    BY DEF Calling
  <1>2. PICK r \in requests : AnswersTo(call[s].reply, r)
    BY DEF Calling, Answered
  <1>3. Id(r.session, r.n) = Id(s, call[s].n) /\ r.session \in Sessions
    BY <1>2 DEF AnswersTo, Correlates, Numbered, SentRequests
  <1>4. r.session = s /\ r.n = call[s].n
    BY <1>3 DEF Id, PrefixesDiffer
  <1>5. r = q
    BY <1>1, <1>4 DEF Numbered
  <1> QED
    BY <1>1, <1>2, <1>4, <1>5 DEF AnswersTo

LEMMA CheckKeeps ==
  ASSUME PrefixesDiffer, BunkerInv, NEW s \in Sessions, Check(s)
  PROVE  BunkerInv'
  <1> USE DEF BunkerInv
  <1> DEFINE answer == call[s].reply.answer
  <1>1. /\ call[s].pc = "check" /\ Goes(s, NoCall)
        /\ UNCHANGED <<clockSec, held, nextId, requests, replies, offered>>
    BY DEF Check
  <1>2. \/ UNCHANGED <<pinned, accepted>>
        \/ /\ Correlates(s, call[s].reply) /\ call[s].method = "get_public_key"
           /\ \E k \in Keys : answer = Key(k)
           /\ pinned' = [pinned EXCEPT ![s] = {answer.key}] /\ UNCHANGED accepted
        \/ /\ Correlates(s, call[s].reply) /\ call[s].method = "sign_event"
           /\ Signs(s, answer)
           /\ accepted' = accepted \cup {Signature(s)} /\ UNCHANGED pinned
    BY DEF Check
  <1>3. pinned \in [Sessions -> SUBSET Keys] /\ offered \in [Sessions -> SUBSET Keys]
    BY DEF BunkerTypes
  <1>4. CASE UNCHANGED <<pinned, accepted>>
    <2>1. SessionIsOneIdentity' /\ \A a \in accepted' : a.by.session \in Sessions
      BY <1>1, <1>4 DEF SessionIsOneIdentity
    <2> QED
      BY <1>1, <1>3, <1>4, <2>1, CallMoves, NoCallIsIdle
  <1>5. CASE /\ Correlates(s, call[s].reply) /\ call[s].method = "get_public_key"
             /\ \E k \in Keys : answer = Key(k)
             /\ pinned' = [pinned EXCEPT ![s] = {answer.key}] /\ UNCHANGED accepted
    <2>1. PICK k \in Keys : answer = Key(k)
      BY <1>5
    <2>2. answer.key = k /\ k \in offered[s]
      <3>1. k \in offered[s]
        BY <1>1, <1>5, <2>1, TakenIsMeant
      <3>2. Key(k).key = k
        BY DEF Key
      <3> QED
        BY <2>1, <3>1, <3>2
    <2>3. pinned[s] = {}
      BY <1>5 DEF Calling
    <2>4. /\ pinned'[s] = {k} /\ \A t \in Sessions \ {s} : pinned'[t] = pinned[t]
          /\ pinned' \in [Sessions -> SUBSET Keys]
      BY <1>3, <1>5, <2>2
    <2>5. \A a \in accepted : a.by.session # s
      BY <2>3 DEF SessionIsOneIdentity
    <2>6. SessionIsOneIdentity' /\ \A a \in accepted' : a.by.session \in Sessions
      BY <1>1, <1>5, <2>2, <2>4, <2>5 DEF SessionIsOneIdentity
    <2> HIDE DEF answer
    <2> QED
      BY <1>1, <2>4, <2>6, CallMoves, NoCallIsIdle
  <1>6. CASE /\ Correlates(s, call[s].reply) /\ call[s].method = "sign_event"
             /\ Signs(s, answer)
             /\ accepted' = accepted \cup {Signature(s)} /\ UNCHANGED pinned
    <2> DEFINE new == Signature(s)
    <2>1. /\ new.by = [session |-> s, n |-> call[s].n] /\ new.re = call[s].reply.re
          /\ new.body = call[s].body /\ new.came = answer /\ new.by.session = s
      BY DEF Signature
    <2>2. new.re = new.by
      BY <1>1, <1>6, <2>1, TakenIsMeant
    <2>3. answer.body = call[s].body /\ {answer.key} = pinned[s] /\ answer.valid
      BY <1>6 DEF Signs
    <2>4. accepted' = accepted \cup {new} /\ pinned' = pinned /\ offered' = offered
      BY <1>1, <1>6
    <2>v. new.came.valid /\ new.came.body = new.body
      BY <2>1, <2>3, Zenon
    <2>w. {new.came.key} = pinned[new.by.session]
      BY <2>1, <2>3, Zenon
    <2> HIDE DEF new, answer
    <2>6. SessionIsOneIdentity' /\ \A a \in accepted' : a.by.session \in Sessions
      <3>1. ASSUME NEW a \in accepted'
            PROVE  /\ a.re = a.by /\ a.came.body = a.body /\ a.came.valid
                   /\ {a.came.key} = pinned[a.by.session] /\ a.by.session \in Sessions
        <4>1. CASE a \in accepted
          BY <4>1 DEF SessionIsOneIdentity
        <4>2. CASE a = new
          BY <2>1, <2>2, <2>v, <2>w, <4>2, Zenon
        <4> QED
          BY <2>4, <4>1, <4>2
      <3>2. \A t \in Sessions : pinned[t] \subseteq offered[t]
        BY DEF SessionIsOneIdentity
      <3> QED
        BY <2>4, <3>1, <3>2, Zenon DEF SessionIsOneIdentity
    <2> QED
      BY <1>1, <1>3, <2>4, <2>6, CallMoves, NoCallIsIdle
  <1> QED
    BY <1>2, <1>4, <1>5, <1>6

LEMMA SwitchKeeps ==
  ASSUME BunkerInv, Switch
  PROVE  BunkerInv'
  <1> USE DEF BunkerInv
  <1>1. /\ held' \in Keys
        /\ offered' = [s \in Sessions |-> IF offered[s] = {} THEN {} ELSE offered[s] \cup {held'}]
        /\ UNCHANGED <<clockSec, nextId, requests, replies, call, pinned, accepted, refused>>
    BY DEF Switch
  <1>2. offered' \in [Sessions -> SUBSET Keys] /\ \A s \in Sessions : offered[s] \subseteq offered'[s]
    BY <1>1 DEF BunkerTypes
  <1>3. BunkerTypes'
    BY <1>1, <1>2 DEF BunkerTypes
  <1>4. Numbered' /\ Calling'
    BY <1>1 DEF Numbered, Calling
  <1>5. Answered'
    BY <1>1, <1>2, StillAnswered
  <1>6. SessionIsOneIdentity' /\ \A a \in accepted' : a.by.session \in Sessions
    BY <1>1, <1>2 DEF SessionIsOneIdentity
  <1>7. HeldIsOffered'
    BY <1>1 DEF HeldIsOffered, Numbered, SentRequests
  <1> QED
    BY <1>3, <1>4, <1>5, <1>6, <1>7

\* Two sessions given different prefixes never take each other's replies: each
\* works under one key, held since it asked, and takes each signature for the
\* request it answers (nip46.rs, call, sign_event).  It is so for any number of
\* sessions, calls and replies, however late, repeated or out of order.
THEOREM OneIdentity ==
  ASSUME PrefixesDiffer
  PROVE  BunkerSpec => []SessionIsOneIdentity
  <1>1. BunkerInv /\ [BunkerNext]_bunkerVars => BunkerInv'
    <2> SUFFICES ASSUME BunkerInv, [BunkerNext]_bunkerVars PROVE BunkerInv'
      OBVIOUS
    <2>1. CASE Second \/ UNCHANGED bunkerVars
      BY <2>1 DEF BunkerInv, Second, bunkerVars, BunkerTypes, Numbered, Answered, AnswersTo, Calling,
                  SessionIsOneIdentity, HeldIsOffered
    <2> QED
      BY <2>1, RequestKeeps, ReplyKeeps, FetchKeeps, CheckKeeps, SwitchKeeps DEF BunkerNext
  <1>2. BunkerInv => SessionIsOneIdentity
    BY DEF BunkerInv
  <1> QED
    BY <1>1, <1>2, BunkerInitInv, PTL DEF BunkerSpec

-----------------------------------------------------------------------------
(* The ghost. *)

Manifests == [status : Kinds \cup {"none"}, notes : BOOLEAN, at : Nat, n : Nat]

Invocations == [pc : {"idle", "sign", "send", "log", "signNotice", "notify", "logNotice"},
                kind : Kinds \cup {"none"}, permit : BOOLEAN, event : Manifests, ok : BOOLEAN]

GhostTypes ==
  /\ second \in Nat /\ signed \in Nat
  /\ manifest \in [Relays -> Manifests] /\ newest \in [Relays -> Nat]
  /\ command \in [Commands -> Invocations]

\* The notice is signed once the revoked manifest was taken by a relay.
RevokedFirst ==
  /\ notice # {} => revoked # {}
  /\ \A p \in Commands :
       /\ Is(p, "send") => command[p].event.status = command[p].kind
       /\ Is(p, "log") /\ command[p].ok /\ command[p].kind = "revoked" => revoked # {}
       /\ command[p].pc \in {"signNotice", "notify", "logNotice"} => revoked # {}

\* What relays serve, and what is on its way to them.
InFlight == {command[p].event : p \in {q \in Commands : Is(q, "send")}}
Served == {manifest[r] : r \in Relays}

\* The seconds of manifests are in the order they were signed in.
Stamped ==
  /\ \A e \in InFlight \cup Served : e.at < second /\ e.n <= signed
  /\ \A e, f \in InFlight \cup Served : e.at < f.at <=> e.n < f.n
  /\ \A r \in Relays : manifest[r].n = newest[r]

LEMMA RestingIsTyped ==
  /\ NoManifest \in Manifests
  /\ Resting \in Invocations
  BY DEF NoManifest, Resting, Manifests, Invocations

LEMMA GhostTypesInit == GhostInit => GhostTypes
  BY RestingIsTyped DEF GhostInit, GhostTypes

\* What a publish leaves on a relay is one of the two manifests.
LEMMA KeptIsOne ==
  ASSUME GhostTypes, NEW p \in Commands, NEW kept \in SUBSET Relays, Keep(p, kept)
  PROVE  /\ \A r \in Relays : manifest'[r] \in {manifest[r], command[p].event}
         /\ manifest' \in [Relays -> Manifests] /\ newest' \in [Relays -> Nat]
  <1>1. CASE command[p].kind = "note"
    BY <1>1 DEF Keep, Public, GhostTypes
  <1>2. CASE command[p].kind # "note"
    <2>1. \A r \in Relays : manifest'[r] \in {manifest[r], command[p].event}
      BY <1>2 DEF Keep, Replaces
    <2>2. command[p].event \in Manifests /\ command[p].event.n \in Nat
      BY DEF GhostTypes, Manifests, Invocations
    <2>3. newest' \in [Relays -> Nat]
      BY <1>2, <2>2 DEF Keep, GhostTypes
    <2>4. manifest' \in [Relays -> Manifests]
      BY <1>2, <2>1, <2>2 DEF Keep, GhostTypes
    <2> QED
      BY <2>1, <2>3, <2>4
  <1> QED
    BY <1>1, <1>2

LEMMA GhostTypesStep == GhostTypes /\ [GhostNext]_ghostVars => GhostTypes'
  <1> SUFFICES ASSUME GhostTypes, [GhostNext]_ghostVars PROVE GhostTypes'
    OBVIOUS
  <1> USE DEF GhostTypes, Invocations
  <1>1. ASSUME NEW p \in Commands, Open(p) PROVE GhostTypes'
    <2>1. PICK kind \in Kinds :
            command' = [command EXCEPT ![p] = [Resting EXCEPT !.pc = "sign", !.kind = kind,
                                                 !.permit = Permits(scopes, kind)]]
      BY <1>1 DEF Open, To
    <2>2. Permits(scopes, kind) \in BOOLEAN
      BY DEF Permits
    <2>3. [Resting EXCEPT !.pc = "sign", !.kind = kind, !.permit = Permits(scopes, kind)]
            \in Invocations
      BY <2>2, RestingIsTyped
    <2> HIDE DEF Resting, Permits
    <2> QED
      BY <1>1, <2>1, <2>3 DEF Open, Public
  <1>2. ASSUME NEW p \in Commands, Sign(p) PROVE GhostTypes'
    <2>1. CASE To(p, Resting) /\ UNCHANGED <<second, signed>>
      BY <1>2, <2>1, RestingIsTyped DEF Sign, To, Public
    <2>2. CASE /\ signed' = signed + 1 /\ second' \in Tick
               /\ \E at \in CreatedAt(second) :
                    To(p, [command[p] EXCEPT !.pc = "send",
                             !.event = [status |-> command[p].kind, notes |-> MayPost,
                                        at |-> at, n |-> signed + 1]])
      <3>1. PICK at \in {second} :
              command' = [command EXCEPT ![p] = [command[p] EXCEPT !.pc = "send",
                            !.event = [status |-> command[p].kind, notes |-> MayPost,
                                       at |-> at, n |-> signed + 1]]]
        BY <2>2 DEF CreatedAt, To
      <3>2. MayPost \in BOOLEAN
        BY DEF MayPost
      <3>3. [status |-> command[p].kind, notes |-> MayPost, at |-> at, n |-> signed + 1] \in Manifests
        BY <3>2 DEF Manifests
      <3>4. second' \in Nat /\ signed' \in Nat
        BY <2>2 DEF Tick
      <3> HIDE DEF Manifests, MayPost
      <3>5. command' \in [Commands -> Invocations]
        BY <3>1, <3>3
      <3> QED
        BY <1>2, <3>4, <3>5 DEF Sign, Public
    <2> QED
      BY <1>2, <2>1, <2>2 DEF Sign
  <1>3. ASSUME NEW p \in Commands, Send(p) PROVE GhostTypes'
    <2>1. PICK kept, ok :
            /\ kept \in SUBSET (IF command[p].permit THEN Relays ELSE {}) /\ ok \in {FALSE, kept # {}}
            /\ Keep(p, kept)
            /\ command' = [command EXCEPT ![p] = [command[p] EXCEPT !.pc = "log", !.ok = ok]]
      BY <1>3 DEF Send, To
    <2>2. kept \in SUBSET Relays /\ ok \in BOOLEAN
      BY <2>1
    <2>3. manifest' \in [Relays -> Manifests] /\ newest' \in [Relays -> Nat]
      BY <2>1, <2>2, KeptIsOne
    <2> QED
      BY <1>3, <2>1, <2>2, <2>3 DEF Send
  <1>4. ASSUME NEW p \in Commands, LogPublish(p) PROVE GhostTypes'
    <2>1. CASE To(p, [command[p] EXCEPT !.pc = "signNotice"])
      BY <1>4, <2>1 DEF LogPublish, To, Public
    <2>2. CASE To(p, Resting)
      BY <1>4, <2>2, RestingIsTyped DEF LogPublish, To, Public
    <2> QED
      BY <1>4, <2>1, <2>2 DEF LogPublish, AfterManifest
  <1>5. ASSUME NEW p \in Commands, SignNotice(p) PROVE GhostTypes'
    <2>1. second' \in Nat /\ signed' \in Nat
      BY <1>5 DEF SignNotice, Tick
    <2>2. command' = [command EXCEPT ![p] = [command[p] EXCEPT !.pc = "notify", !.event.n = signed + 1]]
      BY <1>5 DEF SignNotice, To
    <2>3. [command[p].event EXCEPT !.n = signed + 1] \in Manifests
      BY DEF Manifests
    <2>4. [command[p] EXCEPT !.pc = "notify", !.event.n = signed + 1]
            = [command[p] EXCEPT !.pc = "notify", !.event = [command[p].event EXCEPT !.n = signed + 1]]
      OBVIOUS
    <2>5. command' = [command EXCEPT ![p] = [command[p] EXCEPT !.pc = "notify",
                         !.event = [command[p].event EXCEPT !.n = signed + 1]]]
      BY <2>2, <2>4
    <2> QED
      BY <1>5, <2>1, <2>3, <2>5 DEF SignNotice, Public
  <1>6. ASSUME NEW p \in Commands, SendNotice(p) PROVE GhostTypes'
    BY <1>6 DEF SendNotice, To
  <1>7. ASSUME NEW p \in Commands, LogNotice(p) PROVE GhostTypes'
    BY <1>7, RestingIsTyped DEF LogNotice, To, Public
  <1>8. ASSUME NEW p \in Commands, GhostCrash(p) PROVE GhostTypes'
    BY <1>8, RestingIsTyped DEF GhostCrash, To, Public
  <1>9. CASE Edit
    BY <1>9 DEF Edit, Public
  <1>10. CASE UNCHANGED ghostVars
    BY <1>10 DEF ghostVars
  <1> QED
    BY <1>1, <1>2, <1>3, <1>4, <1>5, <1>6, <1>7, <1>8, <1>9, <1>10 DEF GhostNext

LEMMA RevokedFirstStep ==
  GhostTypes /\ RevokedFirst /\ [GhostNext]_ghostVars => RevokedFirst'
  <1> SUFFICES ASSUME GhostTypes, RevokedFirst, [GhostNext]_ghostVars PROVE RevokedFirst'
    OBVIOUS
  <1> USE DEF RevokedFirst, GhostTypes, Is
  <1>0. Resting.pc = "idle"
    BY DEF Resting
  <1>1. ASSUME NEW p \in Commands, Open(p) PROVE RevokedFirst'
    <2>1. PICK kind \in Kinds :
            command' = [command EXCEPT ![p] = [Resting EXCEPT !.pc = "sign", !.kind = kind,
                                                 !.permit = Permits(scopes, kind)]]
      BY <1>1 DEF Open, To
    <2>2. command'[p].pc = "sign"
      BY <2>1 DEF Resting
    <2> QED
      BY <1>1, <2>1, <2>2 DEF Open, Public
  <1>2. ASSUME NEW p \in Commands, Sign(p) PROVE RevokedFirst'
    <2>1. CASE To(p, Resting)
      BY <1>0, <1>2, <2>1 DEF Sign, To, Public
    <2>2. CASE \E at \in CreatedAt(second) :
                 To(p, [command[p] EXCEPT !.pc = "send",
                          !.event = [status |-> command[p].kind, notes |-> MayPost,
                                     at |-> at, n |-> signed + 1]])
      <3>1. PICK at :
              command' = [command EXCEPT ![p] = [command[p] EXCEPT !.pc = "send",
                            !.event = [status |-> command[p].kind, notes |-> MayPost,
                                       at |-> at, n |-> signed + 1]]]
        BY <2>2 DEF To
      <3>2. /\ command'[p].pc = "send" /\ command'[p].kind = command[p].kind
            /\ command'[p].event.status = command[p].kind
        BY <3>1 DEF Invocations
      <3>3. \A q \in Commands \ {p} : command'[q] = command[q]
        BY <3>1
      <3> QED
        BY <1>2, <3>2, <3>3 DEF Sign, Public
    <2> QED
      BY <1>2, <2>1, <2>2 DEF Sign
  <1>3. ASSUME NEW p \in Commands, Send(p) PROVE RevokedFirst'
    <2>1. PICK kept, ok :
            /\ kept \in SUBSET (IF command[p].permit THEN Relays ELSE {}) /\ ok \in {FALSE, kept # {}}
            /\ Keep(p, kept)
            /\ command' = [command EXCEPT ![p] = [command[p] EXCEPT !.pc = "log", !.ok = ok]]
      BY <1>3 DEF Send, To
    <2>2. /\ command'[p].pc = "log" /\ command'[p].kind = command[p].kind /\ command'[p].ok = ok
          /\ \A q \in Commands \ {p} : command'[q] = command[q]
      BY <2>1 DEF Invocations
    <2>3. revoked \subseteq revoked' /\ notice' = notice
      BY <2>1 DEF Keep, Public
    <2>4. ok /\ command[p].kind = "revoked" => revoked' # {}
      <3>1. command[p].event.status = command[p].kind
        BY <1>3 DEF Send
      <3> QED
        BY <2>1, <3>1 DEF Keep
    <2> QED
      BY <2>2, <2>3, <2>4
  <1>4. ASSUME NEW p \in Commands, LogPublish(p) PROVE RevokedFirst'
    <2>1. CASE /\ To(p, [command[p] EXCEPT !.pc = "signNotice"])
               /\ command[p].ok /\ command[p].kind = "revoked"
      <3>1. revoked # {}
        BY <1>4, <2>1 DEF LogPublish
      <3>2. command'[p].pc = "signNotice" /\ \A q \in Commands \ {p} : command'[q] = command[q]
        BY <2>1 DEF To, Invocations
      <3> QED
        BY <1>4, <3>1, <3>2 DEF LogPublish, Public
    <2>2. CASE To(p, Resting)
      BY <1>0, <1>4, <2>2 DEF LogPublish, To, Public
    <2> QED
      BY <1>4, <2>1, <2>2 DEF LogPublish, AfterManifest
  <1>5. ASSUME NEW p \in Commands, SignNotice(p) PROVE RevokedFirst'
    <2>1. command'[p].pc = "notify" /\ \A q \in Commands \ {p} : command'[q] = command[q]
      BY <1>5 DEF SignNotice, To, Invocations
    <2> QED
      BY <1>5, <2>1 DEF SignNotice, Public
  <1>6. ASSUME NEW p \in Commands, SendNotice(p) PROVE RevokedFirst'
    <2>1. command'[p].pc = "logNotice" /\ \A q \in Commands \ {p} : command'[q] = command[q]
      BY <1>6 DEF SendNotice, To, Invocations
    <2> QED
      BY <1>6, <2>1 DEF SendNotice
  <1>7. ASSUME NEW p \in Commands, LogNotice(p) PROVE RevokedFirst'
    BY <1>0, <1>7 DEF LogNotice, To, Public
  <1>8. ASSUME NEW p \in Commands, GhostCrash(p) PROVE RevokedFirst'
    BY <1>0, <1>8 DEF GhostCrash, To, Public
  <1>9. CASE Edit
    BY <1>9 DEF Edit, Public
  <1>10. CASE UNCHANGED ghostVars
    BY <1>10 DEF ghostVars
  <1> QED
    BY <1>1, <1>2, <1>3, <1>4, <1>5, <1>6, <1>7, <1>8, <1>9, <1>10 DEF GhostNext

\* A step that puts nothing on the way and changes no manifest keeps the order.
LEMMA NothingNewIsStamped ==
  ASSUME GhostTypes, Stamped, InFlight' \subseteq InFlight,
         second' \in Nat, second <= second', signed' \in Nat, signed <= signed',
         UNCHANGED <<manifest, newest>>
  PROVE  Stamped'
  <1>1. \A e \in InFlight \cup Served : e.at \in Nat /\ e.n \in Nat
    BY DEF GhostTypes, InFlight, Served, Invocations, Manifests
  <1>2. Served' = Served
    BY DEF Served
  <1>3. \A r \in Relays : manifest'[r].n = newest'[r]
    BY DEF Stamped
  <1> QED
    BY <1>1, <1>2, <1>3 DEF Stamped, GhostTypes

LEMMA StampedStep ==
  ASSUME Hasty = FALSE
  PROVE  GhostTypes /\ Stamped /\ [GhostNext]_ghostVars => Stamped'
  <1> SUFFICES ASSUME GhostTypes, Stamped, [GhostNext]_ghostVars PROVE Stamped'
    OBVIOUS
  <1>0. Resting.pc = "idle" /\ second \in Nat /\ signed \in Nat /\ command \in [Commands -> Invocations]
    BY DEF Resting, GhostTypes
  <1>a. Tick = {second + 1}
    BY DEF Tick
  <1>b. ASSUME NEW p \in Commands, command'[p].pc # "send",
               \A q \in Commands \ {p} : command'[q] = command[q]
        PROVE  InFlight' \subseteq InFlight
    BY <1>b DEF InFlight, Is
  <1>c. ASSUME NEW p \in Commands, To(p, Resting), UNCHANGED <<second, signed>>, UNCHANGED Public
        PROVE  Stamped'
    <2>1. InFlight' \subseteq InFlight
      BY <1>0, <1>b, <1>c DEF To
    <2> QED
      BY <1>0, <1>c, <2>1, NothingNewIsStamped DEF Public
  <1>1. ASSUME NEW p \in Commands, Open(p) PROVE Stamped'
    <2>1. PICK kind \in Kinds :
            command' = [command EXCEPT ![p] = [Resting EXCEPT !.pc = "sign", !.kind = kind,
                                                 !.permit = Permits(scopes, kind)]]
      BY <1>1 DEF Open, To
    <2>2. command'[p].pc = "sign" /\ \A q \in Commands \ {p} : command'[q] = command[q]
      BY <1>0, <2>1 DEF Resting
    <2>3. InFlight' \subseteq InFlight
      BY <1>b, <2>2
    <2> QED
      BY <1>0, <1>1, <2>3, NothingNewIsStamped DEF Open, Public
  <1>2. ASSUME NEW p \in Commands, Sign(p) PROVE Stamped'
    <2>1. CASE To(p, Resting) /\ UNCHANGED <<second, signed>>
      BY <1>2, <1>c, <2>1 DEF Sign
    <2>2. CASE /\ signed' = signed + 1 /\ second' \in Tick
               /\ \E at \in CreatedAt(second) :
                    To(p, [command[p] EXCEPT !.pc = "send",
                             !.event = [status |-> command[p].kind, notes |-> MayPost,
                                        at |-> at, n |-> signed + 1]])
      <3> DEFINE new == [status |-> command[p].kind, notes |-> MayPost, at |-> second, n |-> signed + 1]
      <3>1. command' = [command EXCEPT ![p] = [command[p] EXCEPT !.pc = "send", !.event = new]]
        BY <2>2 DEF CreatedAt, To
      <3>2. new.at = second /\ new.n = signed + 1
        OBVIOUS
      <3> HIDE DEF new
      <3>3. command'[p].event = new /\ \A q \in Commands \ {p} : command'[q] = command[q]
        BY <1>0, <3>1 DEF Invocations
      <3>4. UNCHANGED <<manifest, newest>> /\ signed' = signed + 1 /\ second' = second + 1
        BY <1>2, <1>a, <2>2 DEF Sign, Public
      <3>5. \A e \in InFlight' \cup Served' : e = new \/ e \in InFlight \cup Served
        BY <3>3, <3>4 DEF InFlight, Served, Is
      <3>6. \A e \in InFlight \cup Served : e.at \in Nat /\ e.n \in Nat /\ e.at < second /\ e.n <= signed
        BY DEF GhostTypes, InFlight, Served, Invocations, Manifests, Stamped
      <3>7. \A e, f \in InFlight \cup Served : e.at < f.at <=> e.n < f.n
        BY DEF Stamped
      <3>8. \A e \in InFlight' \cup Served' : e.at < second' /\ e.n <= signed'
        BY <1>0, <3>2, <3>4, <3>5, <3>6
      <3>9. \A e, f \in InFlight' \cup Served' : e.at < f.at <=> e.n < f.n
        BY <1>0, <3>2, <3>5, <3>6, <3>7
      <3>10. \A r \in Relays : manifest'[r].n = newest'[r]
        BY <3>4 DEF Stamped
      <3> QED
        BY <3>8, <3>9, <3>10 DEF Stamped
    <2> QED
      BY <1>2, <2>1, <2>2 DEF Sign
  <1>3. ASSUME NEW p \in Commands, Send(p) PROVE Stamped'
    <2>1. PICK kept, ok :
            /\ kept \in SUBSET (IF command[p].permit THEN Relays ELSE {}) /\ ok \in {FALSE, kept # {}}
            /\ Keep(p, kept)
            /\ command' = [command EXCEPT ![p] = [command[p] EXCEPT !.pc = "log", !.ok = ok]]
      BY <1>3 DEF Send, To
    <2> DEFINE e == command[p].event
    <2>2. e \in InFlight /\ UNCHANGED <<second, signed>>
      BY <1>3 DEF Send, InFlight
    <2>3. InFlight' \subseteq InFlight
      <3>1. command'[p].pc = "log" /\ \A q \in Commands \ {p} : command'[q] = command[q]
        BY <1>0, <2>1 DEF Invocations
      <3> QED
        BY <1>b, <3>1
    <2>4. \A r \in Relays : manifest'[r] \in {manifest[r], e}
      BY <2>1, KeptIsOne
    <2>5. InFlight' \cup Served' \subseteq InFlight \cup Served
      BY <2>2, <2>3, <2>4 DEF Served
    <2>6. \A r \in Relays : manifest'[r].n = newest'[r]
      <3>1. CASE UNCHANGED <<manifest, newest>>
        BY <3>1 DEF Stamped
      <3>2. CASE command[p].kind # "note"
        <4> SUFFICES ASSUME NEW r \in Relays PROVE manifest'[r].n = newest'[r]
          OBVIOUS
        <4>1. /\ e.at \in Nat /\ e.n \in Nat /\ manifest[r].at \in Nat /\ manifest[r].n \in Nat
              /\ newest[r] = manifest[r].n
              /\ e.at < manifest[r].at <=> e.n < manifest[r].n
              /\ manifest[r].at < e.at <=> manifest[r].n < e.n
          <5>1. manifest[r] \in Served
            BY DEF Served
          <5> QED
            BY <2>2, <5>1 DEF Stamped, GhostTypes, Invocations, Manifests
        <4>2. newest'[r] = IF r \in kept /\ e.n > newest[r] THEN e.n ELSE newest[r]
          BY <2>1, <3>2 DEF Keep
        <4>3. CASE r \notin kept
          BY <2>1, <3>2, <4>1, <4>2, <4>3 DEF Keep
        <4>4. CASE r \in kept
          <5>1. manifest'[r] \in Replaces(e, manifest[r])
            BY <2>1, <3>2, <4>4 DEF Keep
          <5>2. \/ manifest'[r] = e /\ e.at >= manifest[r].at
                \/ manifest'[r] = manifest[r] /\ manifest[r].at >= e.at
            BY <5>1 DEF Replaces
          <5> HIDE DEF e
          <5> QED
            BY <4>1, <4>2, <4>4, <5>2
        <4> QED
          BY <4>3, <4>4
      <3> QED
        BY <2>1, <3>1, <3>2 DEF Keep, Public
    <2> QED
      BY <2>2, <2>5, <2>6 DEF Stamped
  <1>4. ASSUME NEW p \in Commands, LogPublish(p) PROVE Stamped'
    <2>1. CASE To(p, [command[p] EXCEPT !.pc = "signNotice"])
      <3>1. command'[p].pc = "signNotice" /\ \A q \in Commands \ {p} : command'[q] = command[q]
        BY <1>0, <2>1 DEF To, Invocations
      <3>2. InFlight' \subseteq InFlight
        BY <1>b, <3>1
      <3> QED
        BY <1>0, <1>4, <3>2, NothingNewIsStamped DEF LogPublish, Public
    <2>2. CASE To(p, Resting)
      BY <1>4, <1>c, <2>2 DEF LogPublish
    <2> QED
      BY <1>4, <2>1, <2>2 DEF LogPublish, AfterManifest
  <1>5. ASSUME NEW p \in Commands, SignNotice(p) PROVE Stamped'
    <2>1. command'[p].pc = "notify" /\ \A q \in Commands \ {p} : command'[q] = command[q]
      BY <1>0, <1>5 DEF SignNotice, To, Invocations
    <2>2. InFlight' \subseteq InFlight
      BY <1>b, <2>1
    <2>3. second' = second + 1 /\ signed' = signed + 1
      BY <1>5, <1>a DEF SignNotice
    <2> QED
      BY <1>0, <1>5, <2>2, <2>3, NothingNewIsStamped DEF SignNotice, Public
  <1>6. ASSUME NEW p \in Commands, SendNotice(p) PROVE Stamped'
    <2>1. command'[p].pc = "logNotice" /\ \A q \in Commands \ {p} : command'[q] = command[q]
      BY <1>0, <1>6 DEF SendNotice, To, Invocations
    <2>2. InFlight' \subseteq InFlight
      BY <1>b, <2>1
    <2> QED
      BY <1>0, <1>6, <2>2, NothingNewIsStamped DEF SendNotice
  <1>7. ASSUME NEW p \in Commands, LogNotice(p) PROVE Stamped'
    BY <1>7, <1>c DEF LogNotice
  <1>8. ASSUME NEW p \in Commands, GhostCrash(p) PROVE Stamped'
    BY <1>8, <1>c DEF GhostCrash
  <1>9. CASE Edit \/ UNCHANGED ghostVars
    <2>1. UNCHANGED <<second, signed, command, manifest, newest>>
      BY <1>9 DEF Edit, ghostVars, Public
    <2>2. InFlight' = InFlight
      BY <2>1 DEF InFlight, Is
    <2> QED
      BY <1>0, <2>1, <2>2, NothingNewIsStamped
  <1> QED
    BY <1>1, <1>2, <1>3, <1>4, <1>5, <1>6, <1>7, <1>8, <1>9 DEF GhostNext

\* While no two events are signed in one second, a relay that was given a
\* revocation serves it until a later manifest, and a notice is never public
\* before it is (ghost.rs, revoke): for any number of commands and relays.
THEOREM RevocationIsKept ==
  ASSUME Hasty = FALSE
  PROVE  GhostSpec => []RevocationHolds
  <1>1. GhostInit => RevokedFirst /\ Stamped
    <2> SUFFICES ASSUME GhostInit PROVE RevokedFirst /\ Stamped
      OBVIOUS
    <2>1. InFlight = {} /\ \A e \in Served : e = NoManifest
      BY DEF GhostInit, InFlight, Served, Is, Resting
    <2>2. NoManifest.at = 0 /\ NoManifest.n = 0
      BY DEF NoManifest
    <2> QED
      BY <2>1, <2>2 DEF GhostInit, RevokedFirst, Stamped, Is, Resting
  <1>2. RevokedFirst /\ Stamped => RevocationHolds
    BY DEF RevokedFirst, Stamped, RevocationHolds, NoticeIsBacked, RevocationSupersedes
  <1>3. GhostTypes /\ RevokedFirst /\ Stamped /\ [GhostNext]_ghostVars => (RevokedFirst /\ Stamped)'
    BY RevokedFirstStep, StampedStep
  <1> QED
    BY <1>1, <1>2, <1>3, GhostTypesInit, GhostTypesStep, PTL DEF GhostSpec

-----------------------------------------------------------------------------
(* Anchoring. *)

States == {"none", "pending", "confirmed", "failed"}
ProofFiles == [digest : Nat, leaves : SUBSET Leaves]
AnchorRows == [state : States, at : Nat, ots : ProofFiles]

AnchorRuns == [pc : {"idle", "read", "ask", "file", "row", "submit", "save", "submitted"},
               seq : Nat, last : Nat, now : Nat, rec : AnchorRows]

AnchorTypes ==
  /\ top \in 0 .. Days /\ clock \in Nat
  /\ row \in [Seqs -> AnchorRows] /\ file \in [Seqs -> ProofFiles]
  /\ anchorer \in [Anchorers -> AnchorRuns]

\* A command is at work on days that are sealed.
Working ==
  \A p \in Anchorers :
    /\ At(p, "read") => 1 <= anchorer[p].last /\ anchorer[p].last <= top /\ 1 <= anchorer[p].seq
    /\ anchorer[p].pc \in {"ask", "file", "row"} =>
         /\ 1 <= anchorer[p].seq /\ anchorer[p].seq <= anchorer[p].last /\ anchorer[p].last <= top
    /\ anchorer[p].pc \in {"submit", "save", "submitted"} => anchorer[p].seq \in 1 .. top

\* What a confirmed row of day s holds.
Founded(s, r) == r.state = "confirmed" => r.ots.digest = s /\ Bitcoin \in r.ots.leaves

\* So it is of the rows and of what is about to be written.
AllFounded ==
  /\ \A s \in Seqs : Founded(s, row[s])
  /\ \A p \in Anchorers :
       anchorer[p].pc \in {"ask", "file", "row", "save", "submitted"} =>
         Founded(anchorer[p].seq, anchorer[p].rec)

LEMMA EmptyIsTyped ==
  NoProof \in ProofFiles /\ NoRow \in AnchorRows /\ NoRow.state = "none" /\ NoRow.ots.leaves = {}
  BY DEF NoProof, NoRow, ProofFiles, AnchorRows, States

LEMMA AnchorInitHolds == AnchorInit => AnchorTypes /\ Working /\ AllFounded
  <1> SUFFICES ASSUME AnchorInit PROVE AnchorTypes /\ Working /\ AllFounded
    OBVIOUS
  <1>1. Idle \in AnchorRuns /\ Idle.pc = "idle"
    BY EmptyIsTyped DEF Idle, AnchorRuns
  <1>2. AnchorTypes
    BY <1>1, EmptyIsTyped, AnchorAssumption DEF AnchorInit, AnchorTypes, AnchorAssumption
  <1>3. Working
    BY <1>1 DEF AnchorInit, Working, At
  <1>4. AllFounded
    BY <1>1, EmptyIsTyped DEF AnchorInit, AllFounded, Founded
  <1> QED
    BY <1>2, <1>3, <1>4

\* What is merged is a proof of the day, confirmed only with a block in it.
LEMMA GraftIsFounded ==
  ASSUME NEW s \in Seqs, NEW r \in AnchorRows, r.ots.digest = s,
         NEW fragment \in SUBSET Leaves, NEW grown, grown = Graft(r.ots, fragment)
  PROVE  /\ [r EXCEPT !.ots = grown, !.state = StateOf(grown)] \in AnchorRows
         /\ Founded(s, [r EXCEPT !.ots = grown, !.state = StateOf(grown)])
  <1>1. r.ots \in ProofFiles
    BY DEF AnchorRows
  <1>2. grown \in ProofFiles /\ grown.digest = s
    BY <1>1 DEF Graft, ProofFiles
  <1>3. StateOf(grown) \in States /\ (StateOf(grown) = "confirmed" => Bitcoin \in grown.leaves)
    BY DEF StateOf, States
  <1> DEFINE next == [r EXCEPT !.ots = grown, !.state = StateOf(grown)]
  <1>4. next \in AnchorRows /\ next.ots = grown /\ next.state = StateOf(grown)
    BY <1>2, <1>3 DEF AnchorRows
  <1> HIDE DEF next
  <1>5. Founded(s, next)
    BY <1>2, <1>3, <1>4 DEF Founded
  <1> QED
    BY <1>4, <1>5 DEF next

\* A step of one command that puts a sound run in its place.
LEMMA OneMoves ==
  ASSUME AnchorTypes, Working, AllFounded,
         NEW p \in Anchorers, NEW x \in AnchorRuns, Moves(p, x),
         row' \in [Seqs -> AnchorRows], file' \in [Seqs -> ProofFiles],
         UNCHANGED <<top, clock>>,
         x.pc = "read" => 1 <= x.last /\ x.last <= top /\ 1 <= x.seq,
         x.pc \in {"ask", "file", "row"} => 1 <= x.seq /\ x.seq <= x.last /\ x.last <= top,
         x.pc \in {"submit", "save", "submitted"} => x.seq \in 1 .. top,
         x.pc \in {"ask", "file", "row", "save", "submitted"} => Founded(x.seq, x.rec),
         \A s \in Seqs : Founded(s, row'[s])
  PROVE  AnchorTypes' /\ Working' /\ AllFounded'
  <1>1. /\ anchorer' \in [Anchorers -> AnchorRuns] /\ anchorer'[p] = x
        /\ \A q \in Anchorers \ {p} : anchorer'[q] = anchorer[q]
    BY DEF Moves, AnchorTypes
  <1>2. AnchorTypes'
    BY <1>1 DEF AnchorTypes
  <1>3. Working'
    BY <1>1 DEF Working, At
  <1>4. AllFounded'
    BY <1>1 DEF AllFounded
  <1> QED
    BY <1>2, <1>3, <1>4

LEMMA GoesOn ==
  ASSUME NEW run \in AnchorRuns, NEW x, x = [run EXCEPT !.pc = "read", !.seq = @ + 1, !.rec = NoRow]
  PROVE  x \in AnchorRuns /\ x.pc = "read" /\ x.seq = run.seq + 1 /\ x.last = run.last
  <1>1. run.seq + 1 \in Nat /\ NoRow \in AnchorRows
    BY EmptyIsTyped DEF AnchorRuns
  <1>2. x \in AnchorRuns
    BY <1>1 DEF AnchorRuns
  <1> QED
    BY <1>2 DEF AnchorRuns

LEMMA AnchorStepHolds ==
  ASSUME AnchorTypes, Working, AllFounded, NEW p \in Anchorers, AnchorStep(p)
  PROVE  AnchorTypes' /\ Working' /\ AllFounded'
  <1> DEFINE run == anchorer[p]
             Holds == AnchorTypes' /\ Working' /\ AllFounded'
  <1>0. /\ run \in AnchorRuns /\ run.seq \in Nat /\ run.last \in Nat /\ run.rec \in AnchorRows
        /\ Idle \in AnchorRuns /\ Idle.pc = "idle"
        /\ top \in Nat /\ top <= Days /\ Days \in Nat /\ clock \in Nat /\ NoRow \in AnchorRows
    BY EmptyIsTyped, AnchorAssumption DEF AnchorTypes, AnchorRuns, Idle, AnchorAssumption
  <1>r. row \in [Seqs -> AnchorRows] /\ file \in [Seqs -> ProofFiles]
    BY DEF AnchorTypes
  <1>s. \A s \in Seqs : Founded(s, row[s])
    BY DEF AllFounded
  <1>t. run.rec.ots \in ProofFiles
    BY <1>0 DEF AnchorRows
  <1>n. ASSUME NEW x, x = [run EXCEPT !.pc = "read", !.seq = @ + 1, !.rec = NoRow]
        PROVE  x \in AnchorRuns /\ x.pc = "read" /\ x.seq = run.seq + 1 /\ x.last = run.last
    BY <1>0, <1>n, GoesOn
  <1>1. CASE Start(p)
    <2> DEFINE x == [Idle EXCEPT !.pc = "read", !.seq = 1, !.last = top, !.now = clock]
    <2>1. x \in AnchorRuns /\ x.pc = "read" /\ x.seq = 1 /\ x.last = top
      BY <1>0 DEF AnchorRuns, Idle
    <2>2. Moves(p, x) /\ top > 0 /\ UNCHANGED <<row, file, top, clock>>
      BY <1>1 DEF Start
    <2> HIDE DEF x
    <2> QED
      BY <1>0, <1>r, <1>s, <2>1, <2>2, OneMoves
  <1>2. CASE ReadRow(p)
    <2>1. /\ run.pc = "read" /\ run.seq \in Seqs /\ run.seq <= run.last /\ run.last <= top /\ 1 <= run.seq
          /\ UNCHANGED <<row, file, top, clock>>
      BY <1>0, <1>2 DEF ReadRow, At, Working, Same, Seqs
    <2>2. CASE Moves(p, [run EXCEPT !.pc = "ask", !.rec = row[run.seq]])
      <3> DEFINE x == [run EXCEPT !.pc = "ask", !.rec = row[run.seq]]
      <3>1. x \in AnchorRuns /\ x.pc = "ask" /\ x.seq = run.seq /\ x.last = run.last /\ x.rec = row[run.seq]
        BY <1>0, <1>r, <2>1 DEF AnchorRuns
      <3>2. Moves(p, x)
        BY <2>2
      <3> HIDE DEF x
      <3> QED
        BY <1>0, <1>r, <1>s, <2>1, <3>1, <3>2, OneMoves
    <2>3. CASE Moves(p, [run EXCEPT !.seq = @ + 1])
      <3> DEFINE x == [run EXCEPT !.seq = @ + 1]
      <3>1. x \in AnchorRuns /\ x.pc = "read" /\ x.seq = run.seq + 1 /\ x.last = run.last
        BY <1>0, <2>1 DEF AnchorRuns
      <3>2. Moves(p, x)
        BY <2>3
      <3> HIDE DEF x
      <3> QED
        BY <1>0, <1>r, <1>s, <2>1, <3>1, <3>2, OneMoves
    <2> QED
      BY <1>2, <2>2, <2>3 DEF ReadRow
  <1>3. CASE Upgrade(p)
    <2>1. /\ run.pc = "ask" /\ 1 <= run.seq /\ run.seq <= run.last /\ run.last <= top
          /\ Founded(run.seq, run.rec) /\ run.seq \in Seqs
          /\ UNCHANGED <<row, file, top, clock>>
      <3>1. At(p, "ask") /\ UNCHANGED <<row, file>> /\ Same
        BY <1>3, Zenon DEF Upgrade
      <3> QED
        BY <1>0, <3>1 DEF At, Working, AllFounded, Same, Seqs
    <2>2. \/ Moves(p, [run EXCEPT !.pc = "read", !.seq = @ + 1, !.rec = NoRow])
          \/ /\ run.rec.ots.digest = run.seq
             /\ \E fragment \in SUBSET Leaves :
                  Moves(p, [run EXCEPT !.pc = "file",
                              !.rec = [run.rec EXCEPT !.ots = Graft(run.rec.ots, fragment),
                                         !.state = StateOf(Graft(run.rec.ots, fragment))]])
      BY <1>3 DEF Upgrade, Fragments
    <2>3. CASE Moves(p, [run EXCEPT !.pc = "read", !.seq = @ + 1, !.rec = NoRow])
      <3> DEFINE x == [run EXCEPT !.pc = "read", !.seq = @ + 1, !.rec = NoRow]
      <3>1. x \in AnchorRuns /\ x.pc = "read" /\ x.seq = run.seq + 1 /\ x.last = run.last
        BY <1>n
      <3>2. Moves(p, x)
        BY <2>3
      <3> HIDE DEF x
      <3> QED
        BY <1>0, <1>r, <1>s, <2>1, <3>1, <3>2, OneMoves
    <2>4. ASSUME run.rec.ots.digest = run.seq, NEW fragment \in SUBSET Leaves,
                 Moves(p, [run EXCEPT !.pc = "file",
                             !.rec = [run.rec EXCEPT !.ots = Graft(run.rec.ots, fragment),
                                        !.state = StateOf(Graft(run.rec.ots, fragment))]])
          PROVE  Holds
      <3> DEFINE grown == Graft(run.rec.ots, fragment)
                 rec == [run.rec EXCEPT !.ots = grown, !.state = StateOf(grown)]
                 x == [run EXCEPT !.pc = "file", !.rec = rec]
      <3>1. rec \in AnchorRows /\ Founded(run.seq, rec)
        BY <1>0, <2>1, <2>4, GraftIsFounded
      <3>2. Moves(p, x)
        BY <2>4
      <3> HIDE DEF rec
      <3>3. x \in AnchorRuns /\ x.pc = "file" /\ x.seq = run.seq /\ x.last = run.last /\ x.rec = rec
        BY <1>0, <3>1 DEF AnchorRuns
      <3> HIDE DEF x
      <3> QED
        BY <1>0, <1>r, <1>s, <2>1, <3>1, <3>2, <3>3, OneMoves
    <2> QED
      BY <2>2, <2>3, <2>4
  <1>4. CASE WriteFile(p)
    <2>1. /\ run.pc = "file" /\ 1 <= run.seq /\ run.seq <= run.last /\ run.last <= top
          /\ Founded(run.seq, run.rec) /\ run.seq \in Seqs
          /\ UNCHANGED <<row, top, clock>>
      BY <1>0, <1>4 DEF WriteFile, At, Working, AllFounded, Same, Seqs
    <2>2. file' \in [Seqs -> ProofFiles]
      BY <1>4, <1>r, <1>t DEF WriteFile
    <2> DEFINE x == [run EXCEPT !.pc = "row"]
    <2>3. x \in AnchorRuns /\ x.pc = "row" /\ x.seq = run.seq /\ x.last = run.last /\ x.rec = run.rec
      BY <1>0 DEF AnchorRuns
    <2>4. Moves(p, x)
      BY <1>4 DEF WriteFile
    <2> HIDE DEF x
    <2> QED
      BY <1>0, <1>r, <1>s, <2>1, <2>2, <2>3, <2>4, OneMoves
  <1>5. CASE WriteRow(p)
    <2>1. /\ run.pc = "row" /\ 1 <= run.seq /\ run.seq <= run.last /\ run.last <= top
          /\ Founded(run.seq, run.rec) /\ run.seq \in Seqs
          /\ UNCHANGED <<file, top, clock>>
      BY <1>0, <1>5 DEF WriteRow, At, Working, AllFounded, Same, Seqs
    <2>2. /\ row' \in [Seqs -> AnchorRows]
          /\ \A s \in Seqs : Founded(s, row'[s])
      BY <1>0, <1>5, <1>r, <1>s, <2>1 DEF WriteRow
    <2> DEFINE x == [run EXCEPT !.pc = "read", !.seq = @ + 1, !.rec = NoRow]
    <2>3. x \in AnchorRuns /\ x.pc = "read" /\ x.seq = run.seq + 1 /\ x.last = run.last
      BY <1>n
    <2>4. Moves(p, x)
      BY <1>5 DEF WriteRow
    <2> HIDE DEF x
    <2> QED
      BY <1>0, <1>r, <1>s, <2>1, <2>2, <2>3, <2>4, OneMoves
  <1>6. CASE ReadTip(p)
    <2>1. run.last >= 1 /\ run.last <= top /\ UNCHANGED <<row, file, top, clock>>
      BY <1>6 DEF ReadTip, At, Working, Same
    <2> DEFINE x == [run EXCEPT !.pc = "submit", !.seq = top]
    <2>2. x \in AnchorRuns /\ x.pc = "submit" /\ x.seq = top
      BY <1>0 DEF AnchorRuns
    <2>3. Moves(p, x)
      BY <1>6 DEF ReadTip
    <2> HIDE DEF x
    <2> QED
      BY <1>0, <1>r, <1>s, <2>1, <2>2, <2>3, OneMoves
  <1>7. CASE Submit(p)
    <2>1. /\ run.seq \in 1 .. top /\ run.seq \in Seqs
          /\ UNCHANGED <<row, file, top, clock>>
      <3>1. At(p, "submit") /\ UNCHANGED <<row, file>> /\ Same
        BY <1>7, Zenon DEF Submit
      <3> QED
        BY <1>0, <3>1 DEF At, Working, Seqs, Same
    <2>2. PICK pc, took, ots :
            /\ pc \in {"submitted", "save"} /\ took \in BOOLEAN
            /\ ots \in {NoProof} \cup Detached(run.seq)
            /\ Moves(p, [run EXCEPT !.pc = pc, !.rec = Record(took, clock, ots)])
      BY <1>7 DEF Submit
    <2>3. ots \in ProofFiles
      BY <1>0, <2>2, EmptyIsTyped DEF Detached, ProofFiles
    <2> DEFINE rec == Record(took, clock, ots)
               x == [run EXCEPT !.pc = pc, !.rec = rec]
    <2>4. rec \in AnchorRows /\ Founded(run.seq, rec)
      BY <1>0, <2>3 DEF Record, AnchorRows, States, Founded
    <2>5. Moves(p, x)
      BY <2>2
    <2> HIDE DEF rec
    <2>6. x \in AnchorRuns /\ x.pc \in {"save", "submitted"} /\ x.seq = run.seq /\ x.rec = rec
      BY <1>0, <2>2, <2>4 DEF AnchorRuns
    <2> HIDE DEF x
    <2> QED
      BY <1>0, <1>r, <1>s, <2>1, <2>4, <2>5, <2>6, OneMoves
  <1>8. CASE SaveFile(p)
    <2>1. /\ run.seq \in 1 .. top /\ Founded(run.seq, run.rec) /\ run.seq \in Seqs
          /\ UNCHANGED <<row, top, clock>>
      BY <1>0, <1>8 DEF SaveFile, At, Working, AllFounded, Same, Seqs
    <2>2. file' \in [Seqs -> ProofFiles]
      BY <1>8, <1>r, <1>t DEF SaveFile
    <2> DEFINE x == [run EXCEPT !.pc = "submitted"]
    <2>3. x \in AnchorRuns /\ x.pc = "submitted" /\ x.seq = run.seq /\ x.rec = run.rec
      BY <1>0 DEF AnchorRuns
    <2>4. Moves(p, x)
      BY <1>8 DEF SaveFile
    <2> HIDE DEF x
    <2> QED
      BY <1>0, <1>r, <1>s, <2>1, <2>2, <2>3, <2>4, OneMoves
  <1>9. CASE PutAnchor(p)
    <2>1. /\ Founded(run.seq, run.rec) /\ run.seq \in Seqs
          /\ Moves(p, Idle) /\ UNCHANGED <<file, top, clock>>
      BY <1>0, <1>9 DEF PutAnchor, At, Working, AllFounded, Same, Seqs
    <2>2. /\ row' \in [Seqs -> AnchorRows]
          /\ \A s \in Seqs : Founded(s, row'[s])
      BY <1>0, <1>9, <1>r, <1>s, <2>1 DEF PutAnchor
    <2> HIDE DEF run
    <2> QED
      BY <1>0, <1>r, <1>s, <2>1, <2>2, OneMoves
  <1>10. CASE Crash(p)
    <2>1. Moves(p, Idle) /\ UNCHANGED <<row, file, top, clock>>
      BY <1>10 DEF Crash, Same
    <2> QED
      BY <1>0, <1>r, <1>s, <2>1, OneMoves
  <1> QED
    BY <1>1, <1>2, <1>3, <1>4, <1>5, <1>6, <1>7, <1>8, <1>9, <1>10 DEF AnchorStep

LEMMA SoundStep ==
  ASSUME AnchorTypes, Working, AllFounded, [AnchorNext]_anchorVars
  PROVE  AnchorTypes' /\ Working' /\ AllFounded'
  <1>1. CASE Seal
    <2>1. top \in Nat /\ top' = top + 1 /\ top < Days /\ Days \in Nat
      BY <1>1, AnchorAssumption DEF Seal, AnchorTypes, AnchorAssumption
    <2>2. UNCHANGED <<row, file, clock, anchorer>>
      BY <1>1 DEF Seal
    <2>3. Working'
      BY <2>1, <2>2 DEF Working, At, AnchorTypes, AnchorRuns
    <2> QED
      BY <2>1, <2>2, <2>3 DEF AnchorTypes, AllFounded
  <1>2. CASE Pass
    BY <1>2 DEF Pass, AnchorTypes, Working, AllFounded, At
  <1>3. CASE UNCHANGED anchorVars
    BY <1>3 DEF anchorVars, AnchorTypes, Working, AllFounded, At
  <1>4. CASE \E p \in Anchorers : AnchorStep(p)
    BY <1>4, AnchorStepHolds
  <1> QED
    BY <1>1, <1>2, <1>3, <1>4 DEF AnchorNext

\* The one command at work upgrades days before the tip it saw, each still as it
\* read it, and will submit a day from that tip on; those are spent.
Fresh(p) ==
  LET run == anchorer[p] IN
  ~At(p, "idle") =>
    /\ \A q \in Anchorers \ {p} : At(q, "idle")
    /\ \A s \in Seqs : run.last <= s => Spent(row[s], run.now)
    /\ run.pc \in {"ask", "file", "row"} => run.seq < run.last /\ row[run.seq].state = "pending"
    /\ run.pc \in {"submit", "save", "submitted"} => run.last <= run.seq

Afresh ==
  /\ \A s \in Seqs : top < s => row[s].state = "none"
  /\ \A p \in Anchorers : Fresh(p)

\* A command that goes on with the same days, the rows as they were.
LEMMA FreshMove ==
  ASSUME AnchorTypes, Afresh, NEW p \in Anchorers, NEW x \in AnchorRuns, Moves(p, x), ~At(p, "idle"),
         UNCHANGED top, row' \in [Seqs -> AnchorRows],
         \A s \in Seqs : row'[s] = row[s] \/ (s = anchorer[p].seq /\ s < anchorer[p].last /\ s <= top),
         x.last = anchorer[p].last, x.now = anchorer[p].now,
         x.pc \in {"ask", "file", "row"} => x.seq < x.last /\ x.seq \in Seqs /\ row'[x.seq].state = "pending",
         x.pc \in {"submit", "save", "submitted"} => x.last <= x.seq
  PROVE  Afresh'
  <1>1. anchorer'[p] = x /\ \A q \in Anchorers \ {p} : anchorer'[q] = anchorer[q] /\ At(q, "idle")
    BY DEF Moves, AnchorTypes, Afresh, Fresh
  <1>2. anchorer[p].last \in Nat /\ top \in Nat /\ \A s \in Seqs : s \in Nat
    BY AnchorAssumption DEF AnchorTypes, AnchorRuns, Seqs, AnchorAssumption
  <1>3. \A s \in Seqs : top' < s => row'[s].state = "none"
    BY <1>2 DEF Afresh
  <1>4. Fresh(p)'
    <2>1. \A s \in Seqs : x.last <= s => row'[s] = row[s]
      BY <1>2
    <2>2. \A s \in Seqs : x.last <= s => Spent(row'[s], x.now)
      BY <2>1 DEF Afresh, Fresh
    <2> QED
      BY <1>1, <2>2 DEF Fresh, At
  <1>5. ASSUME NEW q \in Anchorers \ {p} PROVE Fresh(q)'
    BY <1>1 DEF Fresh, At
  <1> QED
    BY <1>3, <1>4, <1>5 DEF Afresh

\* A command that ends, or dies.
LEMMA FreshEnd ==
  ASSUME AnchorTypes, Working, Afresh, NEW p \in Anchorers, Moves(p, Idle), ~At(p, "idle"),
         UNCHANGED top, row' = row \/ (anchorer[p].pc = "submitted"
                                       /\ row' = [row EXCEPT ![anchorer[p].seq] = anchorer[p].rec])
  PROVE  Afresh'
  <1>1. \A q \in Anchorers : At(q, "idle")'
    BY DEF Moves, AnchorTypes, Afresh, Fresh, At, Idle
  <1>2. top \in Nat /\ \A s \in Seqs : s \in Nat
    BY AnchorAssumption DEF AnchorTypes, Seqs, AnchorAssumption
  <1>3. anchorer[p].pc = "submitted" => anchorer[p].seq \in 1 .. top
    BY DEF Working
  <1>4. \A s \in Seqs : top < s => row'[s] = row[s]
    BY <1>2, <1>3 DEF AnchorTypes
  <1> QED
    BY <1>1, <1>4 DEF Afresh, Fresh

LEMMA AfreshStep ==
  ASSUME AnchorTypes, Working, AllFounded, Afresh, NEW p \in Anchorers, AnchorStep(p), afresh'
  PROVE  Afresh' /\ \A s \in Seqs : row[s].state = "confirmed" => row'[s] = row[s]
  <1> DEFINE run == anchorer[p]
             Stays == \A s \in Seqs : row[s].state = "confirmed" => row'[s] = row[s]
  <1>0. /\ run \in AnchorRuns /\ run.seq \in Nat /\ run.last \in Nat /\ run.now \in Nat
        /\ run.rec \in AnchorRows /\ top \in Nat /\ top <= Days /\ Days \in Nat /\ clock \in Nat
        /\ row \in [Seqs -> AnchorRows] /\ NoRow \in AnchorRows /\ Fresh(p)
    BY EmptyIsTyped, AnchorAssumption DEF AnchorTypes, AnchorRuns, AnchorAssumption, Afresh
  <1>1. CASE Start(p)
    <2> DEFINE x == [Idle EXCEPT !.pc = "read", !.seq = 1, !.last = top, !.now = clock]
    <2>1. x.pc = "read" /\ x.last = top /\ x.now = clock
      BY DEF Idle
    <2>2. Moves(p, x) /\ top > 0 /\ UNCHANGED <<row, top>>
      BY <1>1 DEF Start
    <2> HIDE DEF x
    <2>3. anchorer'[p] = x /\ \A q \in Anchorers \ {p} : anchorer'[q] = anchorer[q] /\ At(q, "idle")
      BY <1>1, <2>2 DEF Start, Moves, AnchorTypes
    <2>4. \A s \in Seqs : top <= s => Spent(row[s], clock)
      <3>1. Spent(row[top], clock)
        BY <1>1 DEF Start
      <3>2. \A s \in Seqs : top < s => Spent(row[s], clock)
        BY DEF Afresh, Spent
      <3> QED
        BY <1>0, <3>1, <3>2 DEF Seqs
    <2>5. Fresh(p)'
      BY <2>1, <2>2, <2>3, <2>4 DEF Fresh, At
    <2>6. \A q \in Anchorers \ {p} : Fresh(q)'
      BY <2>3 DEF Fresh, At
    <2> QED
      BY <2>2, <2>5, <2>6 DEF Afresh
  <1>2. CASE ReadRow(p)
    <2>1. /\ run.pc = "read" /\ run.seq \in Seqs /\ run.seq <= run.last
          /\ UNCHANGED <<row, top>>
      BY <1>0, <1>2 DEF ReadRow, At, Working, Same, Seqs
    <2>2. CASE Askable(row[run.seq], run.now) /\ Moves(p, [run EXCEPT !.pc = "ask", !.rec = row[run.seq]])
      <3> DEFINE x == [run EXCEPT !.pc = "ask", !.rec = row[run.seq]]
      <3>1. /\ x \in AnchorRuns /\ x.pc = "ask" /\ x.seq = run.seq /\ x.last = run.last
            /\ x.now = run.now
        BY <1>0, <2>1 DEF AnchorRuns
      <3>2. run.seq < run.last /\ row[run.seq].state = "pending"
        <4>1. Spent(row[run.last], run.now) \/ run.last \notin Seqs
          BY <1>0, <2>1 DEF Fresh, At
        <4>2. ~Spent(row[run.seq], run.now)
          BY <1>0, <2>1, <2>2, AnchorAssumption DEF Spent, Askable, AnchorRows, AnchorAssumption
        <4>3. run.seq # run.last
          BY <2>1, <4>1, <4>2
        <4> QED
          BY <1>0, <2>1, <2>2, <4>3 DEF Askable
      <3>3. Moves(p, x) /\ ~At(p, "idle")
        BY <2>1, <2>2 DEF At
      <3> HIDE DEF x
      <3> QED
        BY <1>0, <2>1, <3>1, <3>2, <3>3, FreshMove
    <2>3. CASE Moves(p, [run EXCEPT !.seq = @ + 1])
      <3> DEFINE x == [run EXCEPT !.seq = @ + 1]
      <3>1. x \in AnchorRuns /\ x.pc = "read" /\ x.last = run.last /\ x.now = run.now
        BY <1>0, <2>1 DEF AnchorRuns
      <3>3. Moves(p, x) /\ ~At(p, "idle")
        BY <2>1, <2>3 DEF At
      <3> HIDE DEF x
      <3> QED
        BY <1>0, <2>1, <3>1, <3>3, FreshMove
    <2> QED
      BY <1>2, <2>2, <2>3 DEF ReadRow
  <1>n. ASSUME ~At(p, "idle"), UNCHANGED top, Moves(p, [run EXCEPT !.pc = "read", !.seq = @ + 1, !.rec = NoRow]),
               row' \in [Seqs -> AnchorRows],
               \A s \in Seqs : row'[s] = row[s] \/ (s = run.seq /\ s < run.last /\ s <= top)
        PROVE  Afresh'
    <2> DEFINE x == [run EXCEPT !.pc = "read", !.seq = @ + 1, !.rec = NoRow]
    <2>1. x \in AnchorRuns /\ x.pc = "read" /\ x.last = run.last /\ x.now = run.now
      <3>1. x \in AnchorRuns
        BY <1>0, GoesOn
      <3> QED
        BY <1>0, <3>1 DEF AnchorRuns
    <2>2. Moves(p, x)
      BY <1>n
    <2> HIDE DEF x
    <2> QED
      BY <1>n, <2>1, <2>2, FreshMove
  <1>3. CASE Upgrade(p)
    <2>1. /\ run.pc = "ask" /\ ~At(p, "idle") /\ run.seq < run.last /\ row[run.seq].state = "pending"
          /\ UNCHANGED <<row, top>> /\ run.seq \in Seqs
      <3>1. At(p, "ask") /\ UNCHANGED <<row, file>> /\ Same
        BY <1>3, Zenon DEF Upgrade
      <3> QED
        BY <1>0, <3>1 DEF At, Fresh, Same, Working, Seqs
    <2>2. CASE Moves(p, [run EXCEPT !.pc = "read", !.seq = @ + 1, !.rec = NoRow])
      BY <1>0, <1>n, <2>1, <2>2
    <2>3. CASE \E rec : Moves(p, [run EXCEPT !.pc = "file", !.rec = rec])
      <3>1. PICK rec : Moves(p, [run EXCEPT !.pc = "file", !.rec = rec])
        BY <2>3
      <3> DEFINE x == [run EXCEPT !.pc = "file", !.rec = rec]
      <3>2. x.pc = "file" /\ x.seq = run.seq /\ x.last = run.last /\ x.now = run.now
        BY <1>0 DEF AnchorRuns
      <3>3. Moves(p, x)
        BY <3>1
      <3> HIDE DEF x
      <3>4. x \in AnchorRuns
        BY <1>3, <3>3, AnchorStepHolds DEF AnchorStep, AnchorTypes, Moves
      <3> QED
        BY <1>0, <2>1, <3>2, <3>3, <3>4, FreshMove
    <2> QED
      BY <1>3, <2>2, <2>3 DEF Upgrade
  <1>4. CASE WriteFile(p)
    <2>1. /\ run.pc = "file" /\ ~At(p, "idle") /\ run.seq < run.last /\ row[run.seq].state = "pending"
          /\ UNCHANGED <<row, top>> /\ run.seq \in Seqs
      BY <1>0, <1>4 DEF WriteFile, At, Fresh, Same, Working, Seqs
    <2> DEFINE x == [run EXCEPT !.pc = "row"]
    <2>2. /\ x \in AnchorRuns /\ x.pc = "row" /\ x.seq = run.seq /\ x.last = run.last
          /\ x.now = run.now
      BY <1>0 DEF AnchorRuns
    <2>3. Moves(p, x)
      BY <1>4 DEF WriteFile
    <2> HIDE DEF x
    <2> QED
      BY <1>0, <2>1, <2>2, <2>3, FreshMove
  <1>5. CASE WriteRow(p)
    <2>1. /\ run.pc = "row" /\ ~At(p, "idle") /\ run.seq < run.last /\ row[run.seq].state = "pending"
          /\ run.seq \in Seqs /\ run.last <= top /\ UNCHANGED top
      BY <1>0, <1>5 DEF WriteRow, At, Fresh, Same, Working, Seqs
    <2>2. row' = [row EXCEPT ![run.seq] = run.rec]
      BY <1>5 DEF WriteRow
    <2>3. Moves(p, [run EXCEPT !.pc = "read", !.seq = @ + 1, !.rec = NoRow])
      BY <1>5 DEF WriteRow
    <2>4. Stays
      BY <1>0, <2>1, <2>2
    <2>5. \A s \in Seqs : row'[s] = row[s] \/ (s = run.seq /\ s < run.last /\ s <= top)
      BY <1>0, <2>1, <2>2
    <2> QED
      BY <1>0, <1>n, <2>1, <2>2, <2>3, <2>4, <2>5
  <1>6. CASE ReadTip(p)
    <2>1. run.pc = "read" /\ ~At(p, "idle") /\ run.last <= top /\ UNCHANGED <<row, top>>
      BY <1>6 DEF ReadTip, At, Working, Same
    <2> DEFINE x == [run EXCEPT !.pc = "submit", !.seq = top]
    <2>2. /\ x \in AnchorRuns /\ x.pc = "submit" /\ x.seq = top /\ x.last = run.last
          /\ x.now = run.now
      BY <1>0 DEF AnchorRuns
    <2>3. Moves(p, x)
      BY <1>6 DEF ReadTip
    <2> HIDE DEF x
    <2> QED
      BY <1>0, <2>1, <2>2, <2>3, FreshMove
  <1>7. CASE Submit(p)
    <2>1. run.pc = "submit" /\ ~At(p, "idle") /\ run.last <= run.seq /\ UNCHANGED <<row, top>>
      <3>1. At(p, "submit") /\ UNCHANGED <<row, file>> /\ Same
        BY <1>7, Zenon DEF Submit
      <3> QED
        BY <1>0, <3>1 DEF At, Fresh, Same
    <2>2. AnchorTypes'
      BY AnchorStepHolds
    <2>3. ASSUME NEW pc \in {"submitted", "save"}, NEW rec,
                 Moves(p, [run EXCEPT !.pc = pc, !.rec = rec])
          PROVE  Afresh'
      <3> DEFINE x == [run EXCEPT !.pc = pc, !.rec = rec]
      <3>1. x.pc = pc /\ x.seq = run.seq /\ x.last = run.last /\ x.now = run.now
        BY <1>0 DEF AnchorRuns
      <3>2. Moves(p, x)
        BY <2>3
      <3> HIDE DEF x
      <3>3. x \in AnchorRuns
        BY <2>2, <3>2 DEF AnchorTypes, Moves
      <3> QED
        BY <1>0, <2>1, <3>1, <3>2, <3>3, FreshMove
    <2>4. \/ \E rec : Moves(p, [run EXCEPT !.pc = "submitted", !.rec = rec])
          \/ \E rec : Moves(p, [run EXCEPT !.pc = "save", !.rec = rec])
      BY <1>7, Zenon DEF Submit
    <2> QED
      BY <2>1, <2>3, <2>4
  <1>8. CASE SaveFile(p)
    <2>1. run.pc = "save" /\ ~At(p, "idle") /\ run.last <= run.seq /\ UNCHANGED <<row, top>>
      BY <1>0, <1>8 DEF SaveFile, At, Fresh, Same
    <2> DEFINE x == [run EXCEPT !.pc = "submitted"]
    <2>2. /\ x \in AnchorRuns /\ x.pc = "submitted" /\ x.seq = run.seq /\ x.last = run.last
          /\ x.now = run.now
      BY <1>0 DEF AnchorRuns
    <2>3. Moves(p, x)
      BY <1>8 DEF SaveFile
    <2> HIDE DEF x
    <2> QED
      BY <1>0, <2>1, <2>2, <2>3, FreshMove
  <1>9. CASE PutAnchor(p)
    <2>1. /\ run.pc = "submitted" /\ ~At(p, "idle") /\ run.last <= run.seq /\ Moves(p, Idle)
          /\ row' = [row EXCEPT ![run.seq] = run.rec] /\ UNCHANGED top
          /\ run.seq \in Seqs
      BY <1>0, <1>9 DEF PutAnchor, At, Fresh, Same, Working, Seqs
    <2>2. row[run.seq].state # "confirmed"
      BY <1>0, <2>1 DEF Fresh, Spent
    <2>3. Stays
      BY <1>0, <2>1, <2>2
    <2> QED
      BY <2>1, <2>3, FreshEnd
  <1>10. CASE Crash(p)
    BY <1>10, FreshEnd DEF Crash, Same
  <1> QED
    BY <1>1, <1>2, <1>3, <1>4, <1>5, <1>6, <1>7, <1>8, <1>9, <1>10 DEF AnchorStep

LEMMA OnceNotAfresh == [AnchorNext]_anchorVars => (afresh' => afresh)
  <1>1. ASSUME NEW p \in Anchorers, AnchorStep(p) PROVE afresh' => afresh
    BY <1>1 DEF AnchorStep, Start, ReadRow, Upgrade, WriteFile, WriteRow, ReadTip, Submit, SaveFile,
                PutAnchor, Crash, Same
  <1> QED
    BY <1>1 DEF AnchorNext, Seal, Pass, anchorVars

\* A day confirmed in the vault has a proof of its link with a block in it, for
\* any number of commands at once, dying anywhere, and whatever the calendars
\* answer; and it keeps that very proof while each command is run by itself and
\* finds a newest day that waits for no calendar (ops.rs, anchor and
\* upgrade_anchors): the second half of the command is all that can undo the
\* first.
THEOREM ConfirmedForGood == AnchorSpec => ConfirmedIsKept
  <1> DEFINE Sound == AnchorTypes /\ Working /\ AllFounded /\ (afresh => Afresh)
             Kept == /\ ConfirmedIsProved'
                     /\ afresh' => \A s \in Seqs : row[s].state = "confirmed" => row'[s] = row[s]
  <1>1. AnchorInit => Sound
    <2> SUFFICES ASSUME AnchorInit PROVE Sound
      OBVIOUS
    <2>1. Afresh
      BY EmptyIsTyped DEF AnchorInit, Afresh, Fresh, At, Idle
    <2> QED
      BY <2>1, AnchorInitHolds
  <1>2. Sound /\ [AnchorNext]_anchorVars => Sound' /\ [Kept]_anchorVars
    <2> SUFFICES ASSUME AnchorTypes, Working, AllFounded, afresh => Afresh, [AnchorNext]_anchorVars
                 PROVE  Sound' /\ [Kept]_anchorVars
      OBVIOUS
    <2>1. AnchorTypes' /\ Working' /\ AllFounded'
      BY SoundStep
    <2>2. ConfirmedIsProved'
      BY <2>1 DEF AllFounded, Founded, ConfirmedIsProved
    <2>3. ASSUME afresh'
          PROVE  Afresh' /\ \A s \in Seqs : row[s].state = "confirmed" => row'[s] = row[s]
      <3>0. Afresh
        BY <2>3, OnceNotAfresh
      <3>1. CASE UNCHANGED anchorVars
        BY <3>0, <3>1 DEF anchorVars, Afresh, Fresh, At
      <3>2. CASE Seal
        <4>1. UNCHANGED <<row, anchorer>> /\ top' = top + 1 /\ top \in Nat
          BY <3>2 DEF Seal, AnchorTypes
        <4>2. Afresh'
          BY <3>0, <4>1 DEF Afresh, Fresh, At, Seqs
        <4> QED
          BY <4>1, <4>2
      <3>3. CASE Pass
        BY <3>0, <3>3 DEF Pass, Afresh, Fresh, At
      <3>4. CASE \E p \in Anchorers : AnchorStep(p)
        BY <2>3, <3>0, <3>4, AfreshStep
      <3> QED
        BY <3>1, <3>2, <3>3, <3>4 DEF AnchorNext
    <2> QED
      BY <2>1, <2>2, <2>3
  <1>3. ConfirmedIsKept <=> [][Kept]_anchorVars
    BY PTL DEF ConfirmedIsKept
  <1> HIDE DEF Sound, Kept
  <1> QED
    BY <1>1, <1>2, <1>3, PTL DEF AnchorSpec

-----------------------------------------------------------------------------
(* The model gate. *)

Payloads == [notes : SUBSET DOMAIN Notes, real : SUBSET Names]

\* A prompt has no note that was not supplied, and none is more secret than
\* the request says.
Prompt(r) ==
  /\ DOMAIN r = {"task", "supplied", "kept", "secret"}
  /\ r.supplied \subseteq DOMAIN Notes /\ r.kept \subseteq r.supplied
  /\ (\E i \in r.supplied : SecretNote(i)) => r.secret

\* The policy, and what it could not see: the text that is sent.
Cleared(c) == Evaluate(c) = "allow" /\ Rescan(c) = "allow"

Session(c) ==
  /\ DOMAIN c = {"pc", "provider", "on", "allow", "masks", "request", "shown", "verdict", "taken"}
  /\ Prompt(c.request)
  /\ c.pc = "send" \/ (c.pc = "record" /\ c.verdict = "allow") => Cleared(c)

\* Sessions whose row is written and whose payload is not sent yet.
Bound(x) == {p \in Askers : asker[p].pc = "send" /\ Redacted(asker[p]) = x}

GateInv ==
  /\ (\E S : trail \in Seq(S)) /\ (\E S : wire \in Seq(S))
  /\ DOMAIN asker = Askers /\ \A p \in Askers : Session(asker[p])
  /\ \A i \in DOMAIN wire : wire[i].payload \in Payloads
  /\ NothingForbiddenLeaves
  /\ \A x \in Payloads : Sent(x) + Cardinality(Bound(x)) <= Allowed(x)

-----------------------------------------------------------------------------
\* How many entries of a log are about a payload.
About(e, y) == e.payload = y
Entries(s, y) == Cardinality({i \in DOMAIN s : About(s[i], y)})

LEMMA Countable ==
  ASSUME NEW S, NEW s \in Seq(S), NEW y
  PROVE  IsFiniteSet({i \in DOMAIN s : About(s[i], y)}) /\ Entries(s, y) \in Nat
  <1> DEFINE old == {i \in DOMAIN s : About(s[i], y)}
  <1>1. DOMAIN s = 1 .. Len(s) /\ Len(s) \in Nat
    OBVIOUS
  <1>2. IsFiniteSet(DOMAIN s)
    BY <1>1, FS_Interval
  <1>3. old \subseteq DOMAIN s
    OBVIOUS
  <1> HIDE DEF old
  <1>4. IsFiniteSet(old) /\ Cardinality(old) \in Nat
    BY <1>2, <1>3, FS_Subset, FS_CardinalityType
  <1> QED
    BY <1>4 DEF old, Entries

LEMMA SentAreEntries ==
  \A x : /\ Sent(x) = Entries(wire, x) /\ Sent(x)' = Entries(wire', x)
         /\ Allowed(x) = Entries(trail, <<x>>) /\ Allowed(x)' = Entries(trail', <<x>>)
  BY DEF Sent, Allowed, Entries, About

\* One entry more, and how many of them say so.
LEMMA OneMore ==
  ASSUME NEW S, NEW s \in Seq(S), NEW e, NEW t, t = Append(s, e)
  PROVE  /\ t \in Seq(S \cup {e})
         /\ DOMAIN t = DOMAIN s \cup {Len(s) + 1} /\ Len(s) + 1 \notin DOMAIN s
         /\ t[Len(s) + 1] = e /\ \A i \in DOMAIN s : t[i] = s[i]
  <1>1. Len(s) \in Nat /\ DOMAIN s = 1 .. Len(s)
    OBVIOUS
  <1>2. /\ t \in Seq(S \cup {e}) /\ Len(t) = Len(s) + 1
        /\ t[Len(s) + 1] = e /\ \A i \in DOMAIN s : t[i] = s[i]
    <2>1. s \in Seq(S \cup {e})
      OBVIOUS
    <2> QED
      BY <1>1, <2>1, AppendProperties
  <1>3. DOMAIN t = 1 .. Len(s) + 1
    BY <1>2
  <1> QED
    BY <1>1, <1>2, <1>3

LEMMA OneMoreEntry ==
  ASSUME NEW S, NEW s \in Seq(S), NEW e, NEW y
  PROVE  /\ Entries(s, y) \in Nat
         /\ About(e, y) => Entries(Append(s, e), y) = Entries(s, y) + 1
         /\ ~About(e, y) => Entries(Append(s, e), y) = Entries(s, y)
  <1> DEFINE t == Append(s, e)
             old == {i \in DOMAIN s : About(s[i], y)}
             new == {i \in DOMAIN t : About(t[i], y)}
  <1>1. /\ DOMAIN t = DOMAIN s \cup {Len(s) + 1} /\ Len(s) + 1 \notin DOMAIN s
        /\ t[Len(s) + 1] = e /\ \A i \in DOMAIN s : t[i] = s[i]
    BY OneMore
  <1> HIDE DEF t
  <1>2. IsFiniteSet(old) /\ Cardinality(old) \in Nat
    BY Countable DEF Entries
  <1>3. CASE About(e, y)
    <2>1. new = old \cup {Len(s) + 1} /\ Len(s) + 1 \notin old
      BY <1>1, <1>3
    <2> HIDE DEF old, new
    <2>2. Cardinality(new) = Cardinality(old) + 1
      BY <1>2, <2>1, FS_AddElement
    <2> QED
      BY <1>2, <1>3, <2>2 DEF Entries, old, new, t
  <1>4. CASE ~About(e, y)
    <2>1. new = old
      BY <1>1, <1>4
    <2> HIDE DEF old, new
    <2> QED
      BY <1>2, <1>4, <2>1 DEF Entries, old, new, t
  <1> QED
    BY <1>3, <1>4

\* What is kept was supplied.
LEMMA TrimmedIsSupplied ==
  ASSUME NEW supplied \in SUBSET DOMAIN Notes
  PROVE  Trimmed(supplied) \subseteq supplied
  <1> DEFINE R == {p \in supplied \X supplied : BySalience(p[1], p[2])}
  <1>1. /\ IsFiniteSet(supplied) /\ supplied \subseteq Int
        /\ \A i \in supplied : Notes[i].salience \in Nat /\ Notes[i].text \in Nat
    <2>1. DOMAIN Notes = 1 .. Len(Notes) /\ Len(Notes) \in Nat
          /\ \A i \in DOMAIN Notes : Notes[i].salience \in Nat /\ Notes[i].text \in Nat
      BY GateAssumption DEF GateAssumption
    <2>2. IsFiniteSet(DOMAIN Notes) /\ DOMAIN Notes \subseteq Int
      BY <2>1, FS_Interval
    <2> QED
      BY <2>1, <2>2, FS_Subset
  <1>2. Orders(R, supplied)
    BY <1>1 DEF Orders, BySalience
  <1>3. \A i \in supplied : {j \in supplied : BySalience(j, i)} = Under(R, supplied, i)
    BY DEF Under
  <1> HIDE DEF R
  <1>4. ASSUME NEW k \in 1 .. Cardinality(supplied) PROVE Nth(supplied, k, BySalience) \in supplied
    <2> DEFINE m == k - 1
    <2>1. m \in Nat /\ m < Cardinality(supplied)
      BY <1>1, FS_CardinalityType
    <2> HIDE DEF m
    <2>2. PICK i \in supplied : Cardinality(Under(R, supplied, i)) = m
      BY <1>1, <1>2, <2>1, RankExists
    <2>3. Cardinality({j \in supplied : BySalience(j, i)}) = k - 1
      BY <1>3, <2>2 DEF m
    <2> QED
      BY <2>3 DEF Nth
  <1>5. \A y \in Trimmed(supplied) : \E k \in 1 .. Cardinality(supplied) : y = Ranked(supplied, BySalience)[k]
    BY DEF Trimmed
  <1>6. \A k \in 1 .. Cardinality(supplied) :
          Ranked(supplied, BySalience)[k] = Nth(supplied, k, BySalience)
    BY DEF Ranked
  <1> QED
    BY <1>4, <1>5, <1>6

LEMMA QuestionsArePrompts == \A r \in Questions : Prompt(r)
  <1>1. ASSUME NEW supplied \in SUBSET DOMAIN Notes, NEW task PROVE Prompt(Build(task, supplied))
    BY <1>1, TrimmedIsSupplied DEF Build, Prompt
  <1>2. SUFFICES ASSUME NEW r \in Questions PROVE Prompt(r)
    OBVIOUS
  <1>3. \E supplied \in SUBSET DOMAIN Notes, task \in Tasks : r = Build(task, supplied)
    <2>1. ASSUME NEW task \in {"summarization", "extraction"}, r \in {Build(task, {i}) : i \in DOMAIN Notes}
          PROVE  \E supplied \in SUBSET DOMAIN Notes, t \in Tasks : r = Build(t, supplied)
      <3>1. PICK i \in DOMAIN Notes : r = Build(task, {i})
        BY <2>1
      <3>2. {i} \in SUBSET DOMAIN Notes /\ task \in Tasks
        BY <3>1 DEF Tasks
      <3> QED
        BY <3>1, <3>2
    <2>2. CASE r \in {Build("quest_generation", visible) :
                       visible \in {{i \in DOMAIN Notes : ~SecretNote(i)}} \ {{}}}
      <3>1. r = Build("quest_generation", {i \in DOMAIN Notes : ~SecretNote(i)})
        BY <2>2
      <3>2. {i \in DOMAIN Notes : ~SecretNote(i)} \in SUBSET DOMAIN Notes /\ "quest_generation" \in Tasks
        BY DEF Tasks
      <3> QED
        BY <3>1, <3>2
    <2> QED
      BY <1>2, <2>1, <2>2 DEF Questions
  <1> QED
    BY <1>1, <1>3

LEMMA NoSessionIsSound == Session(NoSession) /\ NoSession.pc # "send"
  <1>1. Prompt(NoRequest)
    BY DEF Prompt, NoRequest
  <1> QED
    BY <1>1 DEF Session, NoSession

LEMMA OpenedIsSound ==
  ASSUME NEW c
  PROVE  Session(Opened(c)) /\ Opened(c).pc = "open" /\ Opened(c).on = c.on
         /\ Opened(c).provider = c.provider
         /\ Opened(c).allow = c.allow /\ Opened(c).masks = c.masks
  <1>1. Prompt(NoRequest)
    BY DEF Prompt, NoRequest
  <1> QED
    BY <1>1 DEF Session, Opened, NoSession

\* What is sent has a payload of this model.
LEMMA RedactedIsPayload ==
  ASSUME NEW c, Session(c)
  PROVE  Redacted(c) \in Payloads
  <1>1. c.request.kept \subseteq DOMAIN Notes
    BY DEF Session, Prompt
  <1>2. \A i \in DOMAIN Notes : Notes[i].names \subseteq Names
    BY GateAssumption DEF GateAssumption
  <1> QED
    BY <1>1, <1>2 DEF Redacted, Payloads

-----------------------------------------------------------------------------
\* A session that goes on without sending or being bound to send anything new.
LEMMA SessionStep ==
  ASSUME GateInv, NEW p \in Askers, NEW c, Session(c), c.pc # "send",
         asker' = [asker EXCEPT ![p] = c], UNCHANGED <<trail, wire>>
  PROVE  GateInv'
  <1>1. /\ DOMAIN asker' = Askers /\ asker'[p] = c
        /\ \A q \in Askers \ {p} : asker'[q] = asker[q]
    BY DEF GateInv
  <1>2. \A q \in Askers : Session(asker'[q])
    BY <1>1 DEF GateInv
  <1>3. \A x \in Payloads : Bound(x)' \subseteq Bound(x) /\ Bound(x) \subseteq Askers
    BY <1>1 DEF Bound
  <1>4. \A x \in Payloads : /\ Cardinality(Bound(x)') <= Cardinality(Bound(x))
                            /\ Cardinality(Bound(x)') \in Nat /\ Cardinality(Bound(x)) \in Nat
    <2>1. IsFiniteSet(Askers)
      BY GateAssumption DEF GateAssumption
    <2> QED
      BY <1>3, <2>1, FS_Subset, FS_CardinalityType
  <1>5. \A x \in Payloads : Sent(x)' = Sent(x) /\ Allowed(x)' = Allowed(x)
    BY DEF Sent, Allowed
  <1>6. \A x \in Payloads : Sent(x) \in Nat /\ Allowed(x) \in Nat
    <2>1. PICK S, T : trail \in Seq(S) /\ wire \in Seq(T)
      BY DEF GateInv
    <2> QED
      BY <2>1, Countable, SentAreEntries
  <1>7. \A x \in Payloads : Sent(x)' + Cardinality(Bound(x)') <= Allowed(x)'
    BY <1>4, <1>5, <1>6 DEF GateInv
  <1>8. NothingForbiddenLeaves'
    BY DEF GateInv, NothingForbiddenLeaves
  <1> QED
    BY <1>1, <1>2, <1>7, <1>8 DEF GateInv

\* A row that says a payload may leave: one more session is bound to send it.
LEMMA AllowStep ==
  ASSUME GateInv, NEW p \in Askers, asker[p].pc = "record", asker[p].verdict = "allow",
         trail' = Append(trail, TrailRow(asker[p])),
         asker' = [asker EXCEPT ![p] = [asker[p] EXCEPT !.pc = "send"]], UNCHANGED wire
  PROVE  GateInv'
  <1> DEFINE c == [asker[p] EXCEPT !.pc = "send"]
  <1>1. /\ Session(c) /\ c.pc = "send" /\ Redacted(c) = Redacted(asker[p])
    <2>1. /\ Session(asker[p]) /\ Cleared(asker[p])
      BY DEF GateInv, Session
    <2>2. /\ DOMAIN c = DOMAIN asker[p] /\ c.pc = "send" /\ c.request = asker[p].request
          /\ c.on = asker[p].on /\ c.allow = asker[p].allow /\ c.masks = asker[p].masks
          /\ c.provider = asker[p].provider
      BY <2>1 DEF Session
    <2> HIDE DEF c
    <2>3. Evaluate(c) = Evaluate(asker[p]) /\ Rescan(c) = Rescan(asker[p])
          /\ Redacted(c) = Redacted(asker[p])
      BY <2>2 DEF Evaluate, Rescan, Redacted
    <2> QED
      BY <2>1, <2>2, <2>3 DEF Session, Cleared
  <1>2. /\ DOMAIN asker' = Askers /\ asker'[p] = c
        /\ \A q \in Askers \ {p} : asker'[q] = asker[q]
    BY DEF GateInv
  <1> HIDE DEF c
  <1>3. \A q \in Askers : Session(asker'[q])
    BY <1>1, <1>2 DEF GateInv
  <1> DEFINE sent == Redacted(asker[p])
             line == TrailRow(asker[p])
  <1>4. line.payload = <<sent>>
    BY DEF TrailRow
  <1> HIDE DEF line, sent
  <1>5. PICK S, T : trail \in Seq(S) /\ wire \in Seq(T)
    BY DEF GateInv
  <1>6. trail' \in Seq(S \cup {line})
    BY <1>5, OneMore DEF line
  <1>7. ASSUME NEW x \in Payloads PROVE Sent(x)' + Cardinality(Bound(x)') <= Allowed(x)'
    <2>1. Sent(x)' = Sent(x) /\ Sent(x) \in Nat
      BY <1>5, Countable, SentAreEntries
    <2>2. IsFiniteSet(Bound(x)) /\ Cardinality(Bound(x)) \in Nat
      BY GateAssumption, FS_Subset, FS_CardinalityType DEF Bound, GateAssumption
    <2>3. Sent(x) + Cardinality(Bound(x)) <= Allowed(x)
      BY DEF GateInv
    <2>4. /\ Allowed(x) \in Nat
          /\ line.payload = <<x>> => Allowed(x)' = Allowed(x) + 1
          /\ line.payload # <<x>> => Allowed(x)' = Allowed(x)
      <3>1. trail' = Append(trail, line)
        BY DEF line
      <3>2. /\ Entries(trail, <<x>>) \in Nat
            /\ About(line, <<x>>) => Entries(trail', <<x>>) = Entries(trail, <<x>>) + 1
            /\ ~About(line, <<x>>) => Entries(trail', <<x>>) = Entries(trail, <<x>>)
        BY <1>5, <3>1, OneMoreEntry
      <3> QED
        BY <3>2, SentAreEntries DEF About
    <2>5. CASE sent = x
      <3>1. Bound(x)' = Bound(x) \cup {p} /\ p \notin Bound(x)
        BY <1>1, <1>2, <2>5 DEF Bound, sent
      <3>2. Cardinality(Bound(x)') = Cardinality(Bound(x)) + 1
        BY <2>2, <3>1, FS_AddElement
      <3>3. Allowed(x)' = Allowed(x) + 1
        BY <1>4, <2>4, <2>5
      <3> QED
        BY <2>1, <2>2, <2>3, <2>4, <3>2, <3>3
    <2>6. CASE sent # x
      <3>1. Bound(x)' = Bound(x)
        BY <1>1, <1>2, <2>6 DEF Bound, sent
      <3>2. Allowed(x)' = Allowed(x)
        BY <1>4, <2>4, <2>6
      <3> QED
        BY <2>1, <2>3, <3>1, <3>2
    <2> QED
      BY <2>5, <2>6
  <1>8. NothingForbiddenLeaves'
    BY DEF GateInv, NothingForbiddenLeaves
  <1>9. \E U : trail' \in Seq(U)
    BY <1>6
  <1> QED
    BY <1>2, <1>3, <1>7, <1>8, <1>9 DEF GateInv

\* A payload leaves: what was bound is sent.
LEMMA SendStep ==
  ASSUME GateInv, NEW p \in Askers, Transmit(p)
  PROVE  GateInv'
  <1> DEFINE c == [asker[p] EXCEPT !.pc = "wait"]
             by == [Opened(asker[p]) EXCEPT !.request = asker[p].request]
             entry == [payload |-> Redacted(asker[p]), by |-> by, form |-> Forward(asker[p])]
             sent == Redacted(asker[p])
  <1>1. /\ asker[p].pc = "send" /\ asker' = [asker EXCEPT ![p] = c]
        /\ wire' = Append(wire, entry) /\ UNCHANGED trail
    BY DEF Transmit, Asking, Now
  <1>2. /\ Session(asker[p]) /\ Cleared(asker[p])
    BY <1>1 DEF GateInv, Session
  <1>3. Session(c) /\ c.pc = "wait"
    <2>1. DOMAIN c = DOMAIN asker[p] /\ c.pc = "wait" /\ c.request = asker[p].request
      BY <1>2 DEF Session
    <2> HIDE DEF c
    <2> QED
      BY <1>2, <2>1 DEF Session
  <1>4. /\ by.request = asker[p].request /\ by.on = asker[p].on /\ by.provider = asker[p].provider
        /\ by.allow = asker[p].allow /\ by.masks = asker[p].masks
    <2>1. /\ DOMAIN Opened(asker[p]) = DOMAIN NoSession /\ "request" \in DOMAIN NoSession
          /\ Opened(asker[p]).on = asker[p].on /\ Opened(asker[p]).allow = asker[p].allow
          /\ Opened(asker[p]).provider = asker[p].provider
          /\ Opened(asker[p]).masks = asker[p].masks
      BY DEF Opened, NoSession
    <2> QED
      BY <2>1
  <1> HIDE DEF by
  <1>5. entry.payload = sent /\ entry.by = by /\ sent \in Payloads
    BY <1>2, RedactedIsPayload
  <1>6. /\ \A n \in sent.notes : ~SecretNote(n)
        /\ sent.real \cap by.masks = {}
        /\ ~Detected(sent.notes, by.masks)
        /\ by.on /\ <<by.provider, by.request.task>> \in by.allow
    <2>1. sent.notes = asker[p].request.kept /\ sent.real \cap asker[p].masks = {}
      <3> DEFINE named == UNION {Notes[i].names : i \in asker[p].request.kept}
      <3>1. sent = [notes |-> asker[p].request.kept, real |-> named \ asker[p].masks]
        BY DEF Redacted
      <3> HIDE DEF named, sent
      <3> QED
        BY <3>1
    <2>2. /\ ~asker[p].request.secret /\ asker[p].on
          /\ <<asker[p].provider, asker[p].request.task>> \in asker[p].allow
      BY <1>2 DEF Cleared, Evaluate
    <2>3. ~Detected(asker[p].request.kept, asker[p].masks)
      BY <1>2 DEF Cleared, Rescan
    <2>4. \A n \in asker[p].request.kept : ~SecretNote(n)
      BY <1>2, <2>2 DEF Session, Prompt
    <2> HIDE DEF sent
    <2> QED
      BY <1>4, <2>1, <2>2, <2>3, <2>4
  <1> HIDE DEF c, entry
  <1>7. /\ DOMAIN asker' = Askers /\ asker'[p] = c
        /\ \A q \in Askers \ {p} : asker'[q] = asker[q]
    BY <1>1 DEF GateInv
  <1>8. \A q \in Askers : Session(asker'[q])
    BY <1>3, <1>7 DEF GateInv
  <1>9. PICK S, T : trail \in Seq(S) /\ wire \in Seq(T)
    BY DEF GateInv
  <1>10. /\ wire' \in Seq(T \cup {entry})
         /\ DOMAIN wire' = DOMAIN wire \cup {Len(wire) + 1}
         /\ wire'[Len(wire) + 1] = entry /\ \A i \in DOMAIN wire : wire'[i] = wire[i]
    BY <1>1, <1>9, OneMore
  <1>11. \A i \in DOMAIN wire' : wire'[i].payload \in Payloads
    BY <1>5, <1>10 DEF GateInv
  <1>12. NothingForbiddenLeaves'
    <2>1. \A i \in DOMAIN wire' : wire'[i] = entry \/ (i \in DOMAIN wire /\ wire'[i] = wire[i])
      BY <1>10
    <2>2. ASSUME NEW i \in DOMAIN wire'
          PROVE /\ \A n \in wire'[i].payload.notes : ~SecretNote(n)
                /\ wire'[i].payload.real \cap wire'[i].by.masks = {}
                /\ ~Detected(wire'[i].payload.notes, wire'[i].by.masks)
                /\ wire'[i].by.on /\ <<wire'[i].by.provider, wire'[i].by.request.task>> \in wire'[i].by.allow
      <3>1. CASE wire'[i] = entry
        BY <1>5, <1>6, <3>1
      <3>2. CASE i \in DOMAIN wire /\ wire'[i] = wire[i]
        BY <3>2 DEF GateInv, NothingForbiddenLeaves
      <3> QED
        BY <2>1, <3>1, <3>2
    <2> QED
      BY <2>2 DEF NothingForbiddenLeaves
  <1>13. ASSUME NEW x \in Payloads PROVE Sent(x)' + Cardinality(Bound(x)') <= Allowed(x)'
    <2>1. Allowed(x)' = Allowed(x) /\ Allowed(x) \in Nat
      BY <1>1, <1>9, Countable, SentAreEntries
    <2>2. IsFiniteSet(Bound(x)) /\ Cardinality(Bound(x)) \in Nat
      BY GateAssumption, FS_Subset, FS_CardinalityType DEF Bound, GateAssumption
    <2>3. Sent(x) + Cardinality(Bound(x)) <= Allowed(x)
      BY DEF GateInv
    <2>4. /\ Sent(x) \in Nat
          /\ entry.payload = x => Sent(x)' = Sent(x) + 1
          /\ entry.payload # x => Sent(x)' = Sent(x)
      <3>1. /\ Entries(wire, x) \in Nat
            /\ About(entry, x) => Entries(wire', x) = Entries(wire, x) + 1
            /\ ~About(entry, x) => Entries(wire', x) = Entries(wire, x)
        BY <1>1, <1>9, OneMoreEntry
      <3> QED
        BY <3>1, SentAreEntries DEF About
    <2>5. CASE sent = x
      <3>1. Bound(x)' = Bound(x) \ {p} /\ p \in Bound(x)
        BY <1>1, <1>3, <1>7, <2>5 DEF Bound
      <3>2. Cardinality(Bound(x)') = Cardinality(Bound(x)) - 1
        BY <2>2, <3>1, FS_RemoveElement
      <3>3. Sent(x)' = Sent(x) + 1
        BY <1>5, <2>4, <2>5
      <3> QED
        BY <2>1, <2>2, <2>3, <2>4, <3>2, <3>3
    <2>6. CASE sent # x
      <3>1. Bound(x)' = Bound(x)
        BY <1>3, <1>7, <2>6 DEF Bound
      <3>2. Sent(x)' = Sent(x)
        BY <1>5, <2>4, <2>6
      <3> QED
        BY <2>1, <2>3, <3>1, <3>2
    <2> QED
      BY <2>5, <2>6
  <1>14. \E U : wire' \in Seq(U)
    BY <1>10
  <1>15. \E U : trail' \in Seq(U)
    BY <1>1, <1>9
  <1> QED
    BY <1>7, <1>8, <1>11, <1>12, <1>13, <1>14, <1>15 DEF GateInv

\* A row that says no, or that goes with a call that fails.
LEMMA DenyStep ==
  ASSUME GateInv, NEW p \in Askers, NEW c, Session(c), c.pc # "send",
         trail' = Append(trail, TrailRow(asker[p])) /\ asker[p].verdict # "allow",
         asker' = [asker EXCEPT ![p] = c], UNCHANGED wire
  PROVE  GateInv'
  <1>1. /\ DOMAIN asker' = Askers /\ asker'[p] = c
        /\ \A q \in Askers \ {p} : asker'[q] = asker[q]
    BY DEF GateInv
  <1>2. \A q \in Askers : Session(asker'[q])
    BY <1>1 DEF GateInv
  <1> DEFINE line == TrailRow(asker[p])
  <1>3. line.payload = <<>>
    BY DEF TrailRow
  <1> HIDE DEF line
  <1>4. PICK S, T : trail \in Seq(S) /\ wire \in Seq(T)
    BY DEF GateInv
  <1>5. trail' \in Seq(S \cup {line})
    BY <1>4, OneMore DEF line
  <1>6. ASSUME NEW x \in Payloads PROVE Sent(x)' + Cardinality(Bound(x)') <= Allowed(x)'
    <2>1. Sent(x)' = Sent(x) /\ Sent(x) \in Nat
      BY <1>4, Countable, SentAreEntries
    <2>2. IsFiniteSet(Bound(x))
      BY GateAssumption, FS_Subset DEF Bound, GateAssumption
    <2>3. Bound(x)' \subseteq Bound(x)
      BY <1>1 DEF Bound
    <2>4. /\ Cardinality(Bound(x)') <= Cardinality(Bound(x))
          /\ Cardinality(Bound(x)') \in Nat /\ Cardinality(Bound(x)) \in Nat
      BY <2>2, <2>3, FS_Subset, FS_CardinalityType
    <2>5. Sent(x) + Cardinality(Bound(x)) <= Allowed(x)
      BY DEF GateInv
    <2>6. /\ Allowed(x) \in Nat
          /\ line.payload = <<x>> => Allowed(x)' = Allowed(x) + 1
          /\ line.payload # <<x>> => Allowed(x)' = Allowed(x)
      <3>1. trail' = Append(trail, line)
        BY DEF line
      <3>2. /\ Entries(trail, <<x>>) \in Nat
            /\ About(line, <<x>>) => Entries(trail', <<x>>) = Entries(trail, <<x>>) + 1
            /\ ~About(line, <<x>>) => Entries(trail', <<x>>) = Entries(trail, <<x>>)
        BY <1>4, <3>1, OneMoreEntry
      <3> QED
        BY <3>2, SentAreEntries DEF About
    <2>7. line.payload # <<x>>
      BY <1>3
    <2> QED
      BY <2>1, <2>4, <2>5, <2>6, <2>7
  <1>7. NothingForbiddenLeaves'
    BY DEF GateInv, NothingForbiddenLeaves
  <1>8. \E U : trail' \in Seq(U)
    BY <1>5
  <1> QED
    BY <1>1, <1>2, <1>6, <1>7, <1>8 DEF GateInv

\* What a step of a session makes of it.
LEMMA OpenModelStep ==
  ASSUME GateInv, NEW p \in Askers, OpenModel(p)
  PROVE  GateInv'
  <1>1. PICK provider \in Providers :
          asker' = [asker EXCEPT ![p] = IF provider = "ollama"
              THEN [NoSession EXCEPT !.pc = "open", !.provider = provider]
              ELSE [NoSession EXCEPT !.pc = "open", !.provider = provider,
                      !.on = egress.on, !.masks = known,
                      !.allow = IF egress.on THEN egress.allow ELSE {}]]
    BY DEF OpenModel, Now
  <1> DEFINE c == IF provider = "ollama"
                  THEN [NoSession EXCEPT !.pc = "open", !.provider = provider]
                  ELSE [NoSession EXCEPT !.pc = "open", !.provider = provider,
                          !.on = egress.on, !.masks = known,
                          !.allow = IF egress.on THEN egress.allow ELSE {}]
  <1>2. /\ DOMAIN c = DOMAIN NoSession /\ c.pc = "open" /\ c.request = NoRequest
    BY DEF NoSession
  <1>3. asker' = [asker EXCEPT ![p] = c] /\ UNCHANGED <<trail, wire>>
    BY <1>1 DEF OpenModel
  <1> HIDE DEF c
  <1>4. Session(c)
    <2>1. Prompt(NoRequest)
      BY DEF Prompt, NoRequest
    <2>2. DOMAIN NoSession = {"pc", "provider", "on", "allow", "masks", "request", "shown", "verdict", "taken"}
      BY DEF NoSession
    <2> QED
      BY <1>2, <2>1, <2>2 DEF Session
  <1> QED
    BY <1>2, <1>3, <1>4, SessionStep

LEMMA AskStep ==
  ASSUME GateInv, NEW p \in Askers, Ask(p)
  PROVE  GateInv'
  <1>1. PICK r \in Questions :
          asker' = [asker EXCEPT ![p] = [asker[p] EXCEPT !.request = r,
                      !.pc = IF asker[p].provider = "ollama" THEN "wait" ELSE "gate"]]
    BY DEF Ask, Now
  <1> DEFINE c == [asker[p] EXCEPT !.request = r,
                      !.pc = IF asker[p].provider = "ollama" THEN "wait" ELSE "gate"]
  <1>2. Session(asker[p]) /\ Prompt(r)
    BY QuestionsArePrompts DEF GateInv
  <1>3. DOMAIN c = DOMAIN asker[p] /\ c.request = r /\ c.pc \in {"wait", "gate"}
    BY <1>2 DEF Session
  <1>4. asker' = [asker EXCEPT ![p] = c] /\ UNCHANGED <<trail, wire>>
    BY <1>1 DEF Ask
  <1> HIDE DEF c
  <1>5. Session(c)
    BY <1>2, <1>3 DEF Session
  <1> QED
    BY <1>3, <1>4, <1>5, SessionStep

LEMMA DryRunStep ==
  ASSUME GateInv, NEW p \in Askers, DryRun(p)
  PROVE  GateInv'
  <1> DEFINE c == [asker[p] EXCEPT !.shown = Evaluate(asker[p])]
  <1>1. asker' = [asker EXCEPT ![p] = c] /\ UNCHANGED <<trail, wire>> /\ asker[p].pc = "gate"
    BY DEF DryRun, Now, Asking
  <1>2. Session(asker[p])
    BY DEF GateInv
  <1>3. DOMAIN c = DOMAIN asker[p] /\ c.request = asker[p].request /\ c.pc = "gate"
    BY <1>1, <1>2 DEF Session
  <1> HIDE DEF c
  <1>4. Session(c)
    BY <1>2, <1>3 DEF Session
  <1> QED
    BY <1>1, <1>3, <1>4, SessionStep

LEMMA AdmitStep ==
  ASSUME GateInv, NEW p \in Askers, Admit(p)
  PROVE  GateInv'
  <1> DEFINE verdict == IF Evaluate(asker[p]) = "allow" THEN Rescan(asker[p]) ELSE Evaluate(asker[p])
             c == [asker[p] EXCEPT !.pc = "record", !.verdict = verdict]
  <1>1. asker' = [asker EXCEPT ![p] = c] /\ UNCHANGED <<trail, wire>>
    BY DEF Admit, Now, Asking
  <1>2. Session(asker[p])
    BY DEF GateInv
  <1>3. /\ DOMAIN c = DOMAIN asker[p] /\ c.pc = "record" /\ c.verdict = verdict
        /\ c.request = asker[p].request /\ c.on = asker[p].on
        /\ c.allow = asker[p].allow /\ c.masks = asker[p].masks /\ c.provider = asker[p].provider
    BY <1>2 DEF Session
  <1>4. verdict = "allow" => Cleared(asker[p])
    BY DEF Cleared
  <1> HIDE DEF c, verdict
  <1>5. Evaluate(c) = Evaluate(asker[p]) /\ Rescan(c) = Rescan(asker[p])
    BY <1>3 DEF Evaluate, Rescan
  <1>6. Session(c)
    BY <1>2, <1>3, <1>4, <1>5 DEF Session, Cleared
  <1> QED
    BY <1>1, <1>3, <1>6, SessionStep

LEMMA RecordStep ==
  ASSUME GateInv, NEW p \in Askers, RecordRow(p)
  PROVE  GateInv'
  <1>1. asker[p].pc = "record" /\ UNCHANGED wire
    BY DEF RecordRow, Asking
  <1>2. Session(Opened(asker[p])) /\ Opened(asker[p]).pc # "send"
    BY OpenedIsSound
  <1>3. CASE UNCHANGED trail /\ asker' = [asker EXCEPT ![p] = Opened(asker[p])]
    BY <1>1, <1>2, <1>3, SessionStep
  <1>4. CASE /\ trail' = Append(trail, TrailRow(asker[p])) /\ asker[p].verdict = "allow"
             /\ asker' = [asker EXCEPT ![p] = [asker[p] EXCEPT !.pc = "send"]]
    BY <1>1, <1>4, AllowStep
  <1>5. CASE /\ trail' = Append(trail, TrailRow(asker[p])) /\ asker[p].verdict # "allow"
             /\ asker' = [asker EXCEPT ![p] = Opened(asker[p])]
    BY <1>1, <1>2, <1>5, DenyStep
  <1> QED
    BY <1>3, <1>4, <1>5 DEF RecordRow, Now

LEMMA AnswerStep ==
  ASSUME GateInv, NEW p \in Askers, Answer(p)
  PROVE  GateInv'
  <1>1. PICK reply \in Replies :
          asker' = [asker EXCEPT ![p] = [asker[p] EXCEPT !.pc = "took",
                      !.taken = {[reply |-> reply, cited |-> Cited(asker[p], reply),
                                  meant |-> Meant(asker[p], reply)]}]]
    BY DEF Answer, Now
  <1> DEFINE took == {[reply |-> reply, cited |-> Cited(asker[p], reply), meant |-> Meant(asker[p], reply)]}
  <1> HIDE DEF took
  <1> DEFINE c == [asker[p] EXCEPT !.pc = "took", !.taken = took]
  <1>2. Session(asker[p])
    BY DEF GateInv
  <1>3. DOMAIN c = DOMAIN asker[p] /\ c.request = asker[p].request /\ c.pc = "took"
    BY <1>2 DEF Session
  <1>4. asker' = [asker EXCEPT ![p] = c] /\ UNCHANGED <<trail, wire>>
    BY <1>1 DEF Answer, took
  <1> HIDE DEF c
  <1>5. Session(c)
    BY <1>2, <1>3 DEF Session
  <1> QED
    BY <1>3, <1>4, <1>5, SessionStep

LEMMA GateNextInv == GateInv /\ [GateNext]_gateVars => GateInv'
  <1> SUFFICES ASSUME GateInv, [GateNext]_gateVars PROVE GateInv'
    OBVIOUS
  <1>1. ASSUME NEW p \in Askers, OpenModel(p) \/ Ask(p) \/ DryRun(p) \/ Admit(p) PROVE GateInv'
    BY <1>1, OpenModelStep, AskStep, DryRunStep, AdmitStep
  <1>2. ASSUME NEW p \in Askers, RecordRow(p) \/ Transmit(p) \/ Answer(p) PROVE GateInv'
    BY <1>2, RecordStep, SendStep, AnswerStep
  <1>3. ASSUME NEW p \in Askers, GoOn(p) PROVE GateInv'
    BY <1>3, OpenedIsSound, SessionStep DEF GoOn, Now
  <1>4. ASSUME NEW p \in Askers, CloseModel(p) PROVE GateInv'
    BY <1>4, NoSessionIsSound, SessionStep DEF CloseModel, Now
  <1>5. ASSUME UNCHANGED <<trail, wire, asker>> PROVE GateInv'
    <2>1. \A x : UNCHANGED <<Sent(x), Allowed(x), Bound(x)>>
      BY <1>5 DEF Sent, Allowed, Bound
    <2>2. NothingForbiddenLeaves'
      BY <1>5 DEF GateInv, NothingForbiddenLeaves
    <2> QED
      BY <1>5, <2>1, <2>2 DEF GateInv
  <1>6. CASE Configure \/ Learn \/ UNCHANGED gateVars
    BY <1>5, <1>6 DEF Configure, Learn, gateVars
  <1> QED
    BY <1>1, <1>2, <1>3, <1>4, <1>6 DEF GateNext, AskerStep

LEMMA GateInitInv == GateInit => GateInv
  <1> SUFFICES ASSUME GateInit PROVE GateInv
    OBVIOUS
  <1>1. trail = <<>> /\ wire = <<>> /\ asker = [p \in Askers |-> NoSession]
    BY DEF GateInit
  <1>2. DOMAIN asker = Askers /\ \A p \in Askers : Session(asker[p]) /\ asker[p].pc # "send"
    BY <1>1, NoSessionIsSound
  <1>3. trail \in Seq({}) /\ wire \in Seq({}) /\ DOMAIN wire = {} /\ DOMAIN trail = {}
    BY <1>1
  <1>4. NothingForbiddenLeaves
    BY <1>3 DEF NothingForbiddenLeaves
  <1>5. ASSUME NEW x \in Payloads PROVE Sent(x) + Cardinality(Bound(x)) <= Allowed(x)
    <2>1. Bound(x) = {}
      BY <1>2 DEF Bound
    <2>2. Sent(x) = 0 /\ Allowed(x) = 0
      <3>1. {i \in DOMAIN wire : wire[i].payload = x} = {} /\ {j \in DOMAIN trail : trail[j].payload = <<x>>} = {}
        BY <1>3
      <3> QED
        BY <3>1, FS_EmptySet DEF Sent, Allowed
    <2> QED
      BY <2>1, <2>2, FS_EmptySet
  <1> QED
    BY <1>2, <1>3, <1>4, <1>5 DEF GateInv

\* Whatever any number of sessions ask, of which models, about which notes and
\* under which changes of the configuration, and wherever a row cannot be
\* written or a session dies: what reaches a remote provider has a row of its
\* own that allowed it, and holds nothing Secret, no name the session knew and
\* nothing the detector sees, not even what the redaction put together.
THEOREM NothingLeaves == GateSpec => []NothingLeavesUnseen
  <1>1. GateInv => NothingLeavesUnseen
    <2> SUFFICES ASSUME GateInv PROVE NothingLeavesUnseen
      OBVIOUS
    <2>1. ASSUME NEW i \in DOMAIN wire PROVE Sent(wire[i].payload) <= Allowed(wire[i].payload)
      <3> DEFINE x == wire[i].payload
      <3>1. x \in Payloads
        BY <2>1 DEF GateInv
      <3> HIDE DEF x
      <3>2. PICK S, T : trail \in Seq(S) /\ wire \in Seq(T)
        BY DEF GateInv
      <3>3. Sent(x) \in Nat /\ Allowed(x) \in Nat
        BY <3>2, Countable, SentAreEntries
      <3>4. Cardinality(Bound(x)) \in Nat
        BY GateAssumption, FS_Subset, FS_CardinalityType DEF Bound, GateAssumption
      <3>5. Sent(x) + Cardinality(Bound(x)) <= Allowed(x)
        BY <3>1 DEF GateInv
      <3> QED
        BY <3>3, <3>4, <3>5 DEF x
    <2> QED
      BY <2>1 DEF GateInv, NothingLeavesUnseen, SentIsLogged
  <1> QED
    BY <1>1, GateInitInv, GateNextInv, PTL DEF GateSpec
=============================================================================
