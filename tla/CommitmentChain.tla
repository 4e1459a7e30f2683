--------------------------- MODULE CommitmentChain ---------------------------
(***************************************************************************)
(* What the commitment chain promises a third party who is handed its      *)
(* records (SPEC invariants I2 and I3, ghostr-anchor/src/chain.rs): one    *)
(* sequence of days that only ever grows at its end, in which every day    *)
(* names the link before it and no date occurs twice.                      *)
(*                                                                         *)
(* A hash is modelled as a free constructor: the link of a day is the      *)
(* tuple of everything in its preimage, so two links are equal exactly     *)
(* when their preimages are.  Nothing else is assumed of the hash.         *)
(***************************************************************************)
EXTENDS Integers, Sequences

CONSTANT Dates,     \* local calendar dates
         Genesis    \* link_0, which binds the chain to one identity

VARIABLE chain      \* the records of the sealed days, oldest first

\* One chain link: the preimage of H_tag(Link, ...).
Link(prev, root, seq, date) == <<prev, root, seq, date>>

\* The link a day sealed next has to name as its parent.
TipLink(c) == IF c = <<>> THEN Genesis ELSE c[Len(c)].link

\* A record that may follow the records of c.
Extends(c, e) ==
  /\ e.date \in Dates
  /\ \A i \in DOMAIN c : c[i].date # e.date
  /\ e.link = Link(TipLink(c), e.root, Len(c) + 1, e.date)

Init == chain = <<>>

\* One more day at the end, every earlier day untouched.
Seal ==
  /\ Len(chain') = Len(chain) + 1
  /\ \A i \in DOMAIN chain : chain'[i] = chain[i]
  /\ Extends(chain, chain'[Len(chain) + 1])

Spec == Init /\ [][Seal]_chain

==============================================================================
