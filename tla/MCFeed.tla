------------------------------- MODULE MCFeed -------------------------------
(***************************************************************************)
(* What comes from outside, for TLC: a feed from relays, the files of the  *)
(* user, and what relays and a remote signer say to whoever talks to them. *)
(* They share no row, so each is run by itself: focus is the one that      *)
(* moves.                                                                  *)
(***************************************************************************)
EXTENDS Feed, Sources, Wire

CONSTANTS p1, p2, Source,
          MaxSaid \* frames that relays send between them

VARIABLES focus,
          peers,  \* the relays of a client, each with all that it has sent
          told    \* what the signer has answered: to connect, for its key, to one call

\* A note a second; 4 and 5 share one.
Seconds == [n \in Notes |-> IF n = 5 THEN 4 ELSE n]

\* All of them in one second.
OneSecond == [n \in Notes |-> 1]

-----------------------------------------------------------------------------
Line(text) == [day |-> NoDay, hour |-> NoHour, rest |-> "prose", text |-> text]
Heading(day, hour, rest, text) == [day |-> day, hour |-> hour, rest |-> rest, text |-> text]
NoteOf(fence, dates, text) ==
  [fence |-> fence, dates |-> dates, text |-> text, mtime |-> 4, salience |-> 3]
Row(form, day, subject, nested) ==
  [form |-> form, day |-> day, hour |-> 1, offset |-> 2, subject |-> subject, value |-> "1",
   nested |-> nested]

FileKinds ==
  [notes |-> "markdown_vault", diary |-> "journal", log |-> "structured_log"]
Named == [f \in Paths |-> IF f = "notes" THEN 2 ELSE NoDay]

\* A preamble, an entry by the hour and, later, the same words on a day
\* without one; a heading nobody wrote under, and a date that opens a sentence.
Diary ==
  << Line("My diary"), Heading(1, 9, "bare", "## 1 09:00"), Line("Slept badly."), Line(""),
     Heading(2, NoHour, "dash", "## 2 -"), Line("Slept badly."),
     Heading(3, NoHour, "prose", "3 was a long day"), Heading(3, 1, "bare", "## 3 01:00") >>

Changing ==
  [notes |-> << NoteOf("open", <<1>>, "a"), NoteOf("closed", <<NoDay, 3>>, "a") >>,
   diary |-> << SubSeq(Diary, 1, 4), Diary >>,
   log |-> << << Row("rfc3339", 1, "ran", FALSE), Row("never", 1, "", FALSE), Row("local", 1, "read", TRUE) >>,
              << Row("rfc3339", 1, "ran", FALSE), Row("date", 1, "swam", FALSE), Row("local", 1, "read", TRUE),
                 Row("local", 1, "slept", FALSE) >> >>]

\* The same habit on two days.
Habit ==
  [Changing EXCEPT !.log = << << Row("date", 1, "ran", FALSE), Row("date", 2, "ran", FALSE) >> >>]

-----------------------------------------------------------------------------
Unsigned(name, pubkey) == [name |-> name, pubkey |-> pubkey, kind |-> 1, at |-> 1, p |-> "p", for |-> "c", content |-> name]
By(key, body) == [id |-> body, body |-> body, sig |-> [key |-> key, of |-> body]]
Own == By("k", Unsigned("mine", "k"))
Forged == {[Own EXCEPT !.id = Unsigned("other", "k")], By("l", Unsigned("mine", "k"))}

\* Answers to the publish of Own and of another event, with and without what
\* they need, events that verify and that do not, for two subscriptions.
Flags == {Bool(TRUE), Bool(FALSE)}
Verdicts(name) ==
  {<<Str("OK"), Str(name)>>} \cup {<<Str("OK"), Str(name), b>> : b \in Flags}
  \cup {<<Str("OK"), Str(name), b, Str("why")>> : b \in Flags}
Events(subscription) == {<<Str("EVENT"), Str(subscription), Obj(e)>> : e \in {Own} \cup Forged}
Others ==
  {<<Str("EOSE"), Str("ghostr-fetch")>>, <<Str("CLOSED"), Str("ghostr-sub")>>, <<Bool(TRUE)>>,
   <<Str("EVENT"), Str("ghostr-fetch")>>, PingFrame, CloseFrame}
FramesSent == Verdicts("mine") \cup Verdicts("other") \cup Events("ghostr-fetch") \cup Events("ghostr-sub") \cup Others
Relay(answers) == [host |-> TRUE, answers |-> answers, sends |-> <<>>]
Clients == {<<Relay(TRUE)>>, <<Relay(FALSE), Relay(TRUE)>>, <<Relay(TRUE), Relay(TRUE)>>}
Sent == FoldFunction(LAMBDA r, n : n + Len(r.sends), 0, peers)
RelaySays ==
  /\ Sent < MaxSaid
  /\ \E i \in DOMAIN peers, frame \in FramesSent :
       peers[i].answers /\ peers' = [peers EXCEPT ![i].sends = Append(@, frame)]
  /\ UNCHANGED told

Reply(id, error, result) == [malformed |-> FALSE, id |-> id, error |-> error, result |-> result]
KeyReplies == [hex : {TRUE}, bytes : {31, 32}, key : {"k", "l"}]
Replies ==
  << {Reply(n, <<>>, <<"ack">>) : n \in 0..1},
     {Reply(n, <<>>, <<k>>) : n \in 0..1, k \in KeyReplies},
     {[Reply(n, e, r) EXCEPT !.malformed = m] : n \in 1..2, e \in {<<>>, <<"no">>}, m \in BOOLEAN,
        r \in {<<>>} \cup {<<By(w, Unsigned(t, v))>> : t \in {"mine", "other"}, v \in {"k", "l"}, w \in {"k", "l"}}} >>
SignerSays ==
  /\ Len(told) < 3
  /\ \E reply \in Replies[Len(told) + 1] : told' = Append(told, reply)
  /\ UNCHANGED peers

\* An OK is for the event that was sent, an event is checked before it is
\* taken, a relay hides nothing that another gives, and a signature is checked
\* before it is used (websocket.rs, nip46.rs).
StrangersAreNotBelieved ==
  /\ focus = "relays" =>
       \A event \in {Own} \cup Forged, scope \in {"backup", "manifest", "revocation"} :
         RelaysAreNotBelieved(New(peers, {"backup"}), event, scope)
  /\ Len(told) = 3 =>
       \A key \in {"k", "l"}, asked \in {"identity", "ghost"} :
         SignerIsNotBelieved("identity", "k", told[1], told[2], Unsigned("mine", key), asked, told[3])

-----------------------------------------------------------------------------
IncomingInit ==
  /\ focus \in Source
  /\ Init /\ SrcInit
  /\ peers \in IF focus = "relays" THEN Clients ELSE {<<>>}
  /\ told = <<>>

IncomingNext ==
  /\ UNCHANGED focus
  /\ \/ focus = "feed" /\ Next /\ UNCHANGED <<srcVars, peers, told>>
     \/ focus = "disk" /\ SrcNext /\ UNCHANGED <<vars, peers, told>>
     \/ focus = "pages" /\ PageNext /\ UNCHANGED <<vars, peers, told>>
     \/ focus = "relays" /\ RelaySays /\ UNCHANGED <<vars, srcVars>>
     \/ focus = "signer" /\ SignerSays /\ UNCHANGED <<vars, srcVars>>

IncomingSpec == IncomingInit /\ [][IncomingNext]_<<focus, vars, srcVars, peers, told>>
=============================================================================
