------------------------------- MODULE Bunker -------------------------------
(***************************************************************************)
(* Signing with a key held elsewhere: NIP-46 sessions over relays          *)
(* (ghostr-nostr/src/nip46.rs, nip46/relay.rs).                            *)
(*                                                                         *)
(* Each session numbers its requests under a prefix its caller supplied.   *)
(* All of them speak through one client key, so each can read every reply  *)
(* to it, those to other sessions included, and the first one it reads is  *)
(* the last word: only the id tells whose it is.  The signer echoes the id *)
(* of the request it answers, and asked for its key names the one it       *)
(* holds; but it answers when it likes, twice if it likes, or refuses, its *)
(* user may change the key it holds, and asked for a signature it may      *)
(* return any event under any key.                                         *)
(***************************************************************************)
EXTENDS Naturals, FiniteSets

CONSTANTS Sessions,    \* sessions of one client with one signer
          Prefix,      \* the prefix each was given
          Bodies,      \* events the vault wants signed
          Keys,        \* keys the signer's user has
          Attempts,    \* REPLY_ATTEMPTS
          MaxCalls,    \* bound: calls of a session
          MaxReplies,  \* bound: replies of the signer
          LastSecond,  \* bound on the clock
          Heeded       \* whether relays heed `since`; the code does not check it

ASSUME BunkerAssumption ==
  /\ Attempts \in Nat \ {0} /\ MaxCalls \in Nat /\ MaxReplies \in Nat
  /\ LastSecond \in Nat
  /\ Heeded \in BOOLEAN

VARIABLES clockSec,   \* seconds
          held,       \* the key the signer holds
          nextId,     \* requests sent so far, by session
          requests,   \* requests the relays hold
          replies,    \* and replies, each with the request it really answers
          call,       \* the running call, by session
          pinned,     \* {} until get_public_key was answered, then the key
          offered,    \* history: keys held since the session asked for one
          accepted,   \* signatures handed to the caller
          refused     \* why calls failed, by session

bunkerVars == <<clockSec, held, nextId, requests, replies, call, pinned, offered, accepted, refused>>

Methods == {"connect", "get_public_key", "sign_event"}
Signatures == [body : Bodies, key : Keys, valid : BOOLEAN]
Key(k) == [body |-> "none", key |-> k, valid |-> FALSE]
Nothing == [body |-> "ack", key |-> "none", valid |-> FALSE]
Refusal == [body |-> "error", key |-> "none", valid |-> FALSE]
NoCall == [pc |-> "idle", n |-> 0, method |-> "none", body |-> "none", sent |-> 0, tries |-> 0,
           reply |-> [id |-> <<"none", 0>>, at |-> 0, re |-> [session |-> "none", n |-> 0], answer |-> Nothing]]

BunkerInit ==
  /\ clockSec = 1 /\ held \in Keys
  /\ requests = {} /\ replies = {} /\ accepted = {}
  /\ nextId = [s \in Sessions |-> 0]
  /\ call = [s \in Sessions |-> NoCall]
  /\ pinned = [s \in Sessions |-> {}]
  /\ offered = [s \in Sessions |-> {}]
  /\ refused = [s \in Sessions |-> {}]

Goes(s, changed) == call' = [call EXCEPT ![s] = changed]

-----------------------------------------------------------------------------
\* connect, then get_public_key, then any number of signatures.
NextMethod(s) ==
  CASE nextId[s] = 0   -> "connect"
    [] pinned[s] = {} -> "get_public_key"
    [] OTHER          -> "sign_event"

\* A handshake that failed leaves no session.
Request(s) ==
  /\ call[s].pc = "idle" /\ nextId[s] < MaxCalls
  /\ refused[s] = {} \/ pinned[s] # {}
  /\ LET method == NextMethod(s) IN
     /\ \E body \in IF method = "sign_event" THEN Bodies ELSE {"none"} :
          /\ Goes(s, [NoCall EXCEPT !.pc = "wait", !.n = nextId[s], !.method = method,
                                    !.body = body, !.sent = clockSec])
          /\ requests' = requests \cup {[session |-> s, n |-> nextId[s], method |-> method, body |-> body]}
     /\ offered' = IF method = "get_public_key" THEN [offered EXCEPT ![s] = @ \cup {held}] ELSE offered
  /\ nextId' = [nextId EXCEPT ![s] = @ + 1]
  /\ UNCHANGED <<clockSec, held, replies, pinned, accepted, refused>>

\* "The caller-supplied prefix is what keeps two sessions from colliding."
PrefixesDiffer == \A s, t \in Sessions : Prefix[s] = Prefix[t] => s = t

Id(s, n) == <<Prefix[s], n>>

\* What the signer may say to a request.
Answers(r) ==
  {Refusal} \cup (CASE r.method = "sign_event"     -> Signatures
                    [] r.method = "get_public_key" -> {Key(held)}
                    [] OTHER                       -> {Nothing})

SignerReplies ==
  /\ \E r \in requests : \E a \in Answers(r) :
       replies' = replies \cup {[id |-> Id(r.session, r.n), at |-> clockSec,
                                 re |-> [session |-> r.session, n |-> r.n], answer |-> a]}
  /\ Cardinality(replies') <= MaxReplies
  /\ UNCHANGED <<clockSec, held, nextId, requests, call, pinned, offered, accepted, refused>>

\* The user of the signer gives it another key.
Switch ==
  /\ held' \in Keys
  /\ offered' = [s \in Sessions |-> IF offered[s] = {} THEN {} ELSE offered[s] \cup {held'}]
  /\ UNCHANGED <<clockSec, nextId, requests, replies, call, pinned, accepted, refused>>

Fails(s, why) == refused' = [refused EXCEPT ![s] = @ \cup {why}]

\* One fetch: the relays return some of the replies, in no order that means
\* anything, and the first that can be read is taken.
Fetch(s) ==
  /\ call[s].pc = "wait"
  /\ \/ \E reply \in replies :
          /\ Heeded => reply.at >= call[s].sent
          /\ Goes(s, [call[s] EXCEPT !.pc = "check", !.reply = reply])
          /\ UNCHANGED refused
     \/ IF call[s].tries + 1 < Attempts
        THEN Goes(s, [call[s] EXCEPT !.tries = @ + 1]) /\ UNCHANGED refused
        ELSE Goes(s, NoCall) /\ Fails(s, "no reply")
  /\ UNCHANGED <<clockSec, held, nextId, requests, replies, pinned, offered, accepted>>

\* Slip: whatever came is the answer.
CorrelatesAlways(s, reply) == TRUE

Correlates(s, reply) == reply.id = Id(s, call[s].n)

\* The id is a hash of the body; the key is the pinned one; it verifies.
Signs(s, answer) ==
  /\ answer.body = call[s].body
  /\ {answer.key} = pinned[s]
  /\ answer.valid

Signature(s) ==
  [by |-> [session |-> s, n |-> call[s].n], body |-> call[s].body,
   re |-> call[s].reply.re, came |-> call[s].reply.answer]

Check(s) ==
  /\ call[s].pc = "check"
  /\ LET answer == call[s].reply.answer
         sound == CASE call[s].method = "connect"        -> answer # Refusal
                    [] call[s].method = "get_public_key" -> \E k \in Keys : answer = Key(k)
                    [] OTHER                             -> Signs(s, answer) IN
     IF ~Correlates(s, call[s].reply) THEN Fails(s, "another request") /\ UNCHANGED <<pinned, accepted>>
     ELSE IF ~sound THEN Fails(s, "no good answer") /\ UNCHANGED <<pinned, accepted>>
     ELSE /\ pinned' = IF call[s].method = "get_public_key"
                       THEN [pinned EXCEPT ![s] = {answer.key}] ELSE pinned
          /\ accepted' = IF call[s].method = "sign_event" THEN accepted \cup {Signature(s)} ELSE accepted
          /\ UNCHANGED refused
  /\ Goes(s, NoCall)
  /\ UNCHANGED <<clockSec, held, nextId, requests, replies, offered>>

Second ==
  /\ clockSec < LastSecond /\ clockSec' = clockSec + 1
  /\ UNCHANGED <<held, nextId, requests, replies, call, pinned, offered, accepted, refused>>

BunkerNext == SignerReplies \/ Switch \/ Second \/ \E s \in Sessions : Request(s) \/ Fetch(s) \/ Check(s)

BunkerSpec == BunkerInit /\ [][BunkerNext]_bunkerVars

-----------------------------------------------------------------------------
\* A session is one identity, and its own: the key it works under is one the
\* signer held after this session asked for it, never one it was told in a reply
\* to an earlier session; and a signature it takes is what the signer answered
\* to that very request of that session, so that one approval is never taken for
\* two (nip46.rs, call: an old reply on the same channel is no answer).
SessionIsOneIdentity ==
  /\ \A s \in Sessions : pinned[s] \subseteq offered[s]
  /\ \A a \in accepted : /\ a.re = a.by
                         /\ a.came.body = a.body /\ a.came.valid
                         /\ {a.came.key} = pinned[a.by.session]

\* A signer that answers is heard: no call fails because there is a reply to
\* another.  It does: the reply to the call before is of the same second, and it
\* is read first (relay.rs: "Returning the first decryptable reply would be wrong
\* if it were the last word - it is not").
SignerIsHeard == \A s \in Sessions : "another request" \notin refused[s]
=============================================================================
