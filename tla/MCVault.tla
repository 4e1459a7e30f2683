------------------------------- MODULE MCVault -------------------------------
(***************************************************************************)
(* A vault's own tables and files, for TLC: keystore and schema, the       *)
(* people it names, its vectors, and the versions of its persona.  They    *)
(* share no row, so each is run by itself: focus is the one that moves.    *)
(***************************************************************************)
EXTENDS Persona, Vault, Index

CONSTANTS c1, c2, m1, m2, d1, Part

VARIABLE focus

\* "Nan" in two ways, and two other names.
Names == {<<"nan", "Nan">>, <<"nan", " nan">>, <<"bo", "Bo">>, <<"cy", "Cy">>}

Widths == [m \in Models |-> IF m = "e5" THEN 3 ELSE 2]
Likenesses == [m \in 1..3 |-> IF m = 3 THEN 1 ELSE m]

MCInit ==
  /\ focus \in Part
  /\ Init /\ VaultInit /\ IndexInit

MCNext ==
  /\ UNCHANGED focus
  /\ \/ focus = "persona" /\ Next /\ UNCHANGED <<vaultVars, indexVars>>
     \/ focus = "vault" /\ VaultNext /\ UNCHANGED <<vars, indexVars>>
     \/ focus = "people" /\ PeopleNext /\ UNCHANGED <<vars, vaultVars>>
     \/ focus = "vectors" /\ VectorNext /\ UNCHANGED <<vars, vaultVars>>

MCSpec == MCInit /\ [][MCNext]_<<focus, vars, vaultVars, indexVars>>
=============================================================================
