----------------------------- MODULE MCOutbound -----------------------------
(***************************************************************************)
(* What leaves the device, for TLC: the calendars, the ghost's public      *)
(* statements, the remote signer and the model gate.  They share no state, *)
(* so each is run by itself: focus is the one that moves.                  *)
(***************************************************************************)
EXTENDS Anchor, Ghost, Bunker, Gate

VARIABLE focus

\* Each session numbers its calls under a prefix of its own, or all under one.
OwnPrefix == [s \in Sessions |-> s]
OnePrefix == [s \in Sessions |-> "ghostr"]

Note(sens, salience, text, size, names, credential) ==
  [sens |-> sens, salience |-> salience, text |-> text, size |-> size, names |-> names,
   credential |-> credential]

\* A name in the first hides a credential; the second is Secret, and as
\* salient.
TwoNotes ==
  << Note("private", 1, 2, 1, {"nan"}, "joined"), Note("secret", 1, 1, 1, {}, "plain") >>

\* The second is more salient and leaves no room for the first.
Crowded ==
  << Note("private", 1, 1, 1, {"nan"}, "none"), Note("private", 2, 2, 2, {}, "none") >>

\* One task of one of two providers may be enabled.
OnePair == { <<"anthropic", "summarization">> }

Rest ==
  /\ focus = "ghost" \/ scopes = {}
  /\ focus = "gate" \/ known = {}
  /\ focus = "bunker" \/ held = CHOOSE k \in Keys : TRUE

OutboundInit ==
  /\ focus \in {"anchor", "ghost", "bunker", "gate"}
  /\ AnchorInit /\ GhostInit /\ BunkerInit /\ GateInit
  /\ Rest

OutboundNext ==
  /\ UNCHANGED focus
  /\ \/ focus = "anchor" /\ AnchorNext /\ UNCHANGED <<ghostVars, bunkerVars, gateVars>>
     \/ focus = "ghost" /\ GhostNext /\ UNCHANGED <<anchorVars, bunkerVars, gateVars>>
     \/ focus = "bunker" /\ BunkerNext /\ UNCHANGED <<anchorVars, ghostVars, gateVars>>
     \/ focus = "gate" /\ GateNext /\ UNCHANGED <<anchorVars, ghostVars, bunkerVars>>

OutboundSpec == OutboundInit /\ [][OutboundNext]_<<focus, anchorVars, ghostVars, bunkerVars, gateVars>>

=============================================================================
