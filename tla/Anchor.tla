------------------------------- MODULE Anchor -------------------------------
(***************************************************************************)
(* `ghostr anchor`: ask the calendars about every pending proof, then      *)
(* submit the tip of the chain (ghostr-cli cmd_anchor, ghostr-engine       *)
(* ops::upgrade_anchors and ops::anchor, ghostr-anchor/src/ots.rs, the     *)
(* anchor table of ghostr-store).                                          *)
(*                                                                         *)
(* The link of day s is s.  A proof is the digest it commits to and the    *)
(* attestations at its leaves: the promise of a calendar, to be asked      *)
(* again, or a Bitcoin block.  A calendar may answer anything that parses: *)
(* promises in the name of any calendar, blocks that hold nothing of ours, *)
(* attestations of a kind this version does not know (they are no leaf     *)
(* here, because nothing looks at them).  Nothing is compared with a       *)
(* block.  The operations between digest and leaf are left out; so is how  *)
(* many copies of a leaf a proof has.                                      *)
(***************************************************************************)
EXTENDS Naturals

CONSTANTS Anchorers,     \* processes that run the command
          Calendars,     \* addresses a promise may name, those of config.toml among them
          Days,          \* bound: days sealed
          Window,        \* UPGRADE_WINDOW_DAYS
          LastDay        \* bound on the clock

ASSUME AnchorAssumption == Days \in Nat /\ Window \in Nat /\ LastDay \in Nat

VARIABLES top,       \* seq of the newest sealed day
          row,       \* the anchor table, by seq
          file,      \* anchors/<seq>.ots
          clock,     \* in days
          anchorer,  \* the running commands
          afresh     \* history: every command so far had nothing to lose when it began

anchorVars == <<top, row, file, clock, anchorer, afresh>>

Seqs == 1 .. Days

Pending(c) == [kind |-> "pending", of |-> c]
Bitcoin == [kind |-> "bitcoin", of |-> "a block"]
Leaves == {Pending(c) : c \in Calendars} \cup {Bitcoin}

NoProof == [digest |-> 0, leaves |-> {}]
NoRow == [state |-> "none", at |-> 0, ots |-> NoProof]
Idle == [pc |-> "idle", seq |-> 0, last |-> 0, now |-> 0, rec |-> NoRow]

AnchorInit ==
  /\ top = 0 /\ clock = 0 /\ afresh = TRUE
  /\ row = [s \in Seqs |-> NoRow]
  /\ file = [s \in Seqs |-> NoProof]
  /\ anchorer = [p \in Anchorers |-> Idle]

Moves(p, changed) == anchorer' = [anchorer EXCEPT ![p] = changed]
At(p, pc) == anchorer[p].pc = pc
Same == UNCHANGED <<top, clock, afresh>>

\* A row that is not confirmed, and that no command asks about any more: it
\* holds no proof that a calendar could still complete.
Spent(r, now) ==
  \/ r.state \in {"none", "failed"}
  \/ r.state = "pending" /\ (r.ots = NoProof \/ now - r.at >= Window)

-----------------------------------------------------------------------------
\* The length of the chain and the time are read once, before the loop.  With
\* nothing sealed both halves of the command have nothing to do.
Start(p) ==
  /\ At(p, "idle") /\ top > 0
  /\ Moves(p, [Idle EXCEPT !.pc = "read", !.seq = 1, !.last = top, !.now = clock])
  /\ afresh' = (afresh /\ Spent(row[top], clock) /\ \A q \in Anchorers \ {p} : At(q, "idle"))
  /\ UNCHANGED <<top, row, file, clock>>

\* Slip: the day the window ends is still in it.
AskableLonger(r, now) ==
  /\ r.state = "pending" /\ r.ots # NoProof
  /\ now - r.at <= Window

Askable(r, now) ==
  /\ r.state = "pending" /\ r.ots # NoProof
  /\ now - r.at < Window

ReadRow(p) ==
  /\ At(p, "read") /\ anchorer[p].seq <= anchorer[p].last
  /\ LET r == row[anchorer[p].seq] IN
     IF Askable(r, anchorer[p].now)
     THEN Moves(p, [anchorer[p] EXCEPT !.pc = "ask", !.rec = r])
     ELSE Moves(p, [anchorer[p] EXCEPT !.seq = @ + 1])
  /\ UNCHANGED <<row, file>> /\ Same

PendingRequests(proof) == {leaf \in proof.leaves : leaf.kind = "pending"}

\* All that the calendars asked may add between them: any attestations, if at
\* least one answers with something that parses.
Fragments(requests) == IF requests = {} THEN {} ELSE SUBSET Leaves

\* A fork keeps the promise beside the answer.
Graft(proof, fragment) == [proof EXCEPT !.leaves = @ \cup fragment]

\* bitcoin_height finds one, or does not.
StateOf(proof) == IF Bitcoin \in proof.leaves THEN "confirmed" ELSE "pending"

\* A proof for another digest is refused, and no answer merged leaves row and
\* file as they are; one that brought nothing new is written all the same.
Upgrade(p) ==
  /\ At(p, "ask")
  /\ LET r == anchorer[p].rec IN
     \/ Moves(p, [anchorer[p] EXCEPT !.pc = "read", !.seq = @ + 1, !.rec = NoRow])
     \/ /\ r.ots.digest = anchorer[p].seq
        /\ \E fragment \in Fragments(PendingRequests(r.ots)) :
             LET grown == Graft(r.ots, fragment) IN
             Moves(p, [anchorer[p] EXCEPT !.pc = "file",
                         !.rec = [r EXCEPT !.ots = grown, !.state = StateOf(grown)]])
  /\ UNCHANGED <<row, file>> /\ Same

\* A file that cannot be written is passed over.
WriteFile(p) ==
  /\ At(p, "file")
  /\ \/ file' = [file EXCEPT ![anchorer[p].seq] = anchorer[p].rec.ots]
     \/ UNCHANGED file
  /\ Moves(p, [anchorer[p] EXCEPT !.pc = "row"])
  /\ UNCHANGED row /\ Same

\* put_anchor: the whole row, whatever is in it by now.
WriteRow(p) ==
  /\ At(p, "row")
  /\ row' = [row EXCEPT ![anchorer[p].seq] = anchorer[p].rec]
  /\ Moves(p, [anchorer[p] EXCEPT !.pc = "read", !.seq = @ + 1, !.rec = NoRow])
  /\ UNCHANGED file /\ Same

ReadTip(p) ==
  /\ At(p, "read") /\ anchorer[p].seq > anchorer[p].last
  /\ Moves(p, [anchorer[p] EXCEPT !.pc = "submit", !.seq = top])
  /\ UNCHANGED <<row, file>> /\ Same

\* to_detached_file: the body of the first calendar that accepted, whatever
\* attestations it holds.
Detached(d) == [digest : {d}, leaves : SUBSET Leaves]

\* Without an acceptance the submission failed; otherwise the row is pending,
\* whatever the body holds.
Record(accepted, at, ots) ==
  [state |-> IF accepted THEN "pending" ELSE "failed", at |-> at, ots |-> ots]

\* A body that cannot be read is a submission without a file.
Submit(p) ==
  /\ At(p, "submit")
  /\ \/ \E accepted \in BOOLEAN :
          Moves(p, [anchorer[p] EXCEPT !.pc = "submitted", !.rec = Record(accepted, clock, NoProof)])
     \/ \E ots \in Detached(anchorer[p].seq) :
          Moves(p, [anchorer[p] EXCEPT !.pc = "save", !.rec = Record(TRUE, clock, ots)])
  /\ UNCHANGED <<row, file>> /\ Same

SaveFile(p) ==
  /\ At(p, "save")
  /\ \/ file' = [file EXCEPT ![anchorer[p].seq] = anchorer[p].rec.ots]
     \/ UNCHANGED file
  /\ Moves(p, [anchorer[p] EXCEPT !.pc = "submitted"])
  /\ UNCHANGED row /\ Same

PutAnchor(p) ==
  /\ At(p, "submitted")
  /\ row' = [row EXCEPT ![anchorer[p].seq] = anchorer[p].rec]
  /\ Moves(p, Idle)
  /\ UNCHANGED file /\ Same

\* A statement fails, or the process dies.
Crash(p) ==
  /\ ~At(p, "idle")
  /\ Moves(p, Idle)
  /\ UNCHANGED <<row, file>> /\ Same

-----------------------------------------------------------------------------
\* memoria, in this process or another.
Seal ==
  /\ top < Days
  /\ top' = top + 1
  /\ UNCHANGED <<row, file, clock, anchorer, afresh>>

Pass ==
  /\ clock < LastDay
  /\ clock' = clock + 1
  /\ UNCHANGED <<top, row, file, anchorer, afresh>>

AnchorStep(p) ==
  \/ Start(p) \/ ReadRow(p) \/ Upgrade(p) \/ WriteFile(p) \/ WriteRow(p)
  \/ ReadTip(p) \/ Submit(p) \/ SaveFile(p) \/ PutAnchor(p) \/ Crash(p)

AnchorNext == Seal \/ Pass \/ \E p \in Anchorers : AnchorStep(p)

AnchorSpec == AnchorInit /\ [][AnchorNext]_anchorVars

-----------------------------------------------------------------------------
\* A day shown as confirmed (ops::verify counts it as anchored) has a proof of
\* its own link with a Bitcoin attestation in it.
ConfirmedIsProved ==
  \A s \in Seqs : row[s].state = "confirmed" => row[s].ots.digest = s /\ Bitcoin \in row[s].ots.leaves

\* And that proof is never lost again, whatever the calendars say and wherever
\* a command dies, as long as each command is run by itself and finds a newest
\* day that waits for no calendar: it was sealed since, its submission failed or
\* its eight days are over (ops.rs, anchor and upgrade_anchors: the two halves of
\* the command must agree on which days are still asked about).
ConfirmedIsKept ==
  [][/\ ConfirmedIsProved'
     /\ afresh' => \A s \in Seqs : row[s].state = "confirmed" => row'[s] = row[s]]_anchorVars

\* A day confirmed in the vault stays confirmed.  It does not: the second half
\* of the very command that confirms the tip submits the tip again and writes
\* the new submission over the row (ops::anchor).
ConfirmedStays ==
  [][\A s \in Seqs : row[s].state = "confirmed" => row'[s].state = "confirmed"]_anchorVars
=============================================================================
