-------------------------------- MODULE Vault --------------------------------
(***************************************************************************)
(* The vault on disk: the keystore file (ghostr-crypto/src/keystore.rs and *)
(* kdf.rs), the database beside it as far as its schema and its meta keys  *)
(* go (ghostr-store/src/sqlite.rs), and the commands that make, open and   *)
(* re-key the two (ghostr-engine/src/engine.rs).                           *)
(*                                                                         *)
(* A command is a process that takes one file operation or one statement   *)
(* after the other; it may die between any two, and so may the machine:    *)
(* what was not synced may then be gone.                                   *)
(*                                                                         *)
(* Abstractions.  Secrets are symbolic: a derived key is <<account, seed>>,*)
(* a key-encryption key <<passphrase, salt>>, a ciphertext says what it    *)
(* was sealed under.  Salts never repeat; nonces are drawn from a small    *)
(* set, so they do.  A schema batch is its first statement and the rest.   *)
(***************************************************************************)
EXTENDS Integers, Sequences, FiniteSets

CONSTANTS Commands,   \* processes
          Passes,     \* passphrases the owner may choose
          WrapNonces, \* nonces the generator may draw for a wrapping
          Latest,     \* SCHEMA_VERSION
          Origins,    \* the vaults there may be at the start, see Origin
          Overlap,    \* commands that write the keystore may run at once
          MaxStarts   \* bound: commands started

ASSUME VaultAssumption ==
  /\ Latest \in Nat \ {0} /\ MaxStarts \in Nat
  /\ Overlap \in BOOLEAN
  /\ Origins \subseteq {"none", "legacy", "upgrade", "newer"}

VARIABLES inodes,   \* what files hold: contents, and whether they are on the disk
          path,     \* the inode keystore.json names, 0 for none
          kept,     \* ... after a power loss, as long as the rename is not synced
          temp,     \* the inode keystore.new names, 0 for none
          db,       \* schema batches begun, schema_version, meta keys
          sealed,   \* the keys rows of the corpus are sealed under
          cmd,      \* what each process is in the middle of
          started,  \* how many commands were started; salts are numbered by it
          owner     \* history: the passphrase last confirmed, and those being set

disk == <<inodes, path, kept, temp>>
vaultVars == <<disk, db, sealed, cmd, started, owner>>

-----------------------------------------------------------------------------
(* Keys and wrappings. *)
Account(name, seed) == <<name, seed>>
Imported == Account("identity", <<"nsec">>)
Kek(pass, salt) == <<pass, salt>>
SeedAad == "ghostr/v1/store-dek"
IdentityAad == "ghostr/v1/imported-identity"
Wrap(kek, what, nonce, aad) == [kek |-> kek, what |-> what, nonce |-> nonce, aad |-> aad]

\* Opens only under the key and the label it was sealed with.
Unwraps(kek, wrapped, aad) == wrapped.kek = kek /\ wrapped.aad = aad

\* WrapEntropy refuses two equal nonces.
Entropy(c) == {e \in [salt : {<<c, started>>}, seed : WrapNonces, identity : WrapNonces] :
              e.seed # e.identity}

NoWrap == Wrap(Kek("none", <<"none", 0>>), <<"none">>, "none", "none")

\* The fields a version 1 file lacks, filled in as it is parsed.
Parsed(file) ==
  [file EXCEPT !.dek = IF @ = "absent" THEN "identity" ELSE @,
               !.identity = IF @ = "absent" THEN "seed" ELSE @]

KeystoreVersion == 2
Torn == [version |-> 0]
Legible(file) == file # Torn /\ file.version <= KeystoreVersion

\* What unlocking a parsed file gives: its identity and the key of its rows.
Locked == [identity |-> Account("locked", <<"locked">>), dek |-> Account("locked", <<"locked">>)]
Unlocked(file, pass) ==
  LET kek == Kek(pass, file.seed.kek[2])
      opens == /\ Unwraps(kek, file.seed, SeedAad)
               /\ file.identity = "imported_nsec" => Unwraps(kek, file.key, IdentityAad)
      identity == IF file.identity = "imported_nsec" THEN file.key.what
                  ELSE Account("identity", file.seed.what) IN
  IF ~opens \/ identity # file.pubkey THEN Locked
  ELSE [identity |-> identity,
        dek |-> IF file.dek = "identity" THEN identity ELSE Account("data", file.seed.what)]

\* A new keystore around a seed, or around a seed and a key the user brought.
Created(seed, kind, pass, e) ==
  [version |-> KeystoreVersion,
   seed |-> Wrap(Kek(pass, e.salt), seed, e.seed, SeedAad),
   pubkey |-> IF kind = "nsec" THEN Imported ELSE Account("identity", seed),
   dek |-> "vault_data",
   identity |-> IF kind = "nsec" THEN "imported_nsec" ELSE "seed",
   key |-> IF kind = "nsec" THEN Wrap(Kek(pass, e.salt), Imported, e.identity, IdentityAad) ELSE NoWrap]

\* Both secrets under a new passphrase, before anything is written.
Rewrapped(file, pass, e) ==
  [file EXCEPT
    !.seed = Wrap(Kek(pass, e.salt), @.what, e.seed, SeedAad),
    !.key = IF file.identity = "imported_nsec"
            THEN Wrap(Kek(pass, e.salt), @.what, e.identity, IdentityAad) ELSE @]

-----------------------------------------------------------------------------
(* The vaults a command may find. *)
ChainKeys == <<"chain_id", "identity_pubkey", "genesis_link", "home_tz", "created_at", "device_id">>
Whole == {ChainKeys[i] : i \in DOMAIN ChainKeys}

OldFile ==
  [version |-> 1, seed |-> Wrap(Kek("first", <<"old", 0>>), <<"old">>, "n", SeedAad),
   pubkey |-> Account("identity", <<"old">>), dek |-> "absent", identity |-> "absent", key |-> NoWrap]

Store(version) == [begun |-> 1..version, version |-> version, meta |-> Whole]
NoStore == [begun |-> {}, version |-> 0, meta |-> {}]

\* None; one of the first format; one of an older schema; one of a later build.
Origin(o) ==
  [file |-> IF o = "none" THEN <<>> ELSE <<[file |-> OldFile, synced |-> TRUE]>>,
   db |-> CASE o = "none" -> NoStore [] o = "legacy" -> Store(Latest)
            [] o = "upgrade" -> Store(1) [] o = "newer" -> Store(Latest + 1),
   sealed |-> IF o = "none" THEN {} ELSE {Account("identity", <<"old">>)}]

NoCommand == [pc |-> "none", run |-> "none", pass |-> "none", kind |-> "seed",
              file |-> Torn, ino |-> 0, batch |-> 0, key |-> 1]

VaultInit ==
  /\ \E o \in Origins :
       /\ inodes = Origin(o).file
       /\ path = Len(inodes) /\ kept = path
       /\ db = Origin(o).db /\ sealed = Origin(o).sealed
  /\ temp = 0
  /\ cmd = [c \in Commands |-> NoCommand]
  /\ started = 0
  /\ owner = [pass |-> "first", setting |-> {}]

-----------------------------------------------------------------------------
GoOn(c, pc) == cmd' = [cmd EXCEPT ![c].pc = pc]
Quit(c) == cmd' = [cmd EXCEPT ![c] = NoCommand]
OnDisk == inodes[path].file
Writes(c) == cmd[c].pc \notin {"none", "open"} /\ cmd[c].run # "use"
MayStart(c, run) ==
  /\ cmd[c].pc = "none" /\ started < MaxStarts
  /\ Overlap \/ run = "use" \/ \A d \in Commands : ~Writes(d)

\* init refuses where there is a keystore.
StartInit(c) ==
  /\ MayStart(c, "init") /\ path = 0
  /\ started' = started + 1
  /\ \E pass \in Passes, kind \in {"seed", "nsec"} :
       cmd' = [cmd EXCEPT ![c] = [NoCommand EXCEPT !.pc = "create", !.run = "init",
                                                   !.pass = pass, !.kind = kind]]
  /\ UNCHANGED <<disk, db, sealed, owner>>

\* The seed is drawn and wrapped.
Create(c) ==
  /\ cmd[c].pc = "create"
  /\ \E e \in Entropy(c) :
       cmd' = [cmd EXCEPT ![c] = [@ EXCEPT !.pc = "truncate",
                                           !.file = Created(c, cmd[c].kind, cmd[c].pass, e)]]
  /\ owner' = [owner EXCEPT !.setting = @ \cup {cmd[c].pass}]
  /\ UNCHANGED <<disk, db, sealed, started>>

\* Any other command, with what its user takes for the passphrase: the file is
\* read and unlocked, and the store is opened.
StartOpen(c) ==
  /\ path # 0
  /\ started' = started + 1
  /\ \E pass \in Passes, run \in {"use", "passphrase"} :
       LET file == Parsed(OnDisk) IN
       /\ MayStart(c, run)
       /\ Legible(OnDisk)
       /\ Unlocked(file, pass) # Locked
       /\ cmd' = [cmd EXCEPT ![c] = [NoCommand EXCEPT !.pc = "store", !.run = run,
                                                      !.pass = pass, !.file = file]]
  /\ UNCHANGED <<disk, db, sealed, owner>>

\* The owner is told so; a change that died before this one is overwritten.
Confirm(c) ==
  owner' = [pass |-> cmd[c].pass, setting |-> {cmd[d].pass : d \in {d \in Commands \ {c} : Writes(d)}}]

-----------------------------------------------------------------------------
(* write_private: a sibling is written, synced and renamed over the file. *)
Ino(c) == cmd[c].ino

\* The sibling has one fixed name: another writer's is truncated.
Truncate(c) ==
  /\ cmd[c].pc = "truncate"
  /\ IF temp = 0
     THEN inodes' = Append(inodes, [file |-> Torn, synced |-> FALSE]) /\ temp' = Len(inodes')
     ELSE inodes' = [inodes EXCEPT ![temp] = [file |-> Torn, synced |-> FALSE]] /\ temp' = temp
  /\ cmd' = [cmd EXCEPT ![c] = [@ EXCEPT !.pc = "write", !.ino = temp']]
  /\ UNCHANGED <<path, kept, db, sealed, started, owner>>

Write(c) ==
  /\ cmd[c].pc = "write"
  /\ inodes' = [inodes EXCEPT ![Ino(c)] = [file |-> cmd[c].file, synced |-> FALSE]]
  /\ GoOn(c, "sync")
  /\ UNCHANGED <<path, kept, temp, db, sealed, started, owner>>

\* Slip: renamed first, synced some time later.
NoSync(c) ==
  /\ cmd[c].pc = "sync"
  /\ GoOn(c, "rename")
  /\ UNCHANGED <<disk, db, sealed, started, owner>>

Sync(c) ==
  /\ cmd[c].pc = "sync"
  /\ inodes' = [inodes EXCEPT ![Ino(c)].synced = TRUE]
  /\ GoOn(c, "rename")
  /\ UNCHANGED <<path, kept, temp, db, sealed, started, owner>>

\* Renaming takes whatever the sibling's name means by then; where another
\* writer has already moved it the command fails.
Rename(c) ==
  /\ cmd[c].pc = "rename"
  /\ IF temp = 0 THEN Quit(c) /\ UNCHANGED <<path, temp>>
     ELSE path' = temp /\ temp' = 0 /\ GoOn(c, "dirsync")
  /\ UNCHANGED <<inodes, kept, db, sealed, started, owner>>

\* The directory entry; then init goes on with the store, and a new passphrase
\* is confirmed.
SyncDirectory(c) ==
  /\ cmd[c].pc = "dirsync"
  /\ kept' = path
  /\ IF cmd[c].run = "init"
     THEN GoOn(c, "store") /\ UNCHANGED owner
     ELSE GoOn(c, "open") /\ Confirm(c)
  /\ UNCHANGED <<inodes, path, temp, db, sealed, started>>

-----------------------------------------------------------------------------
(* SqliteStore::open: every batch the version on disk does not cover, in   *)
(* order; the version last.                                                *)

\* A store of a later build is refused.
OpenStore(c) ==
  /\ cmd[c].pc = "store"
  /\ IF db.version > Latest THEN Quit(c)
     ELSE IF db.version = Latest THEN GoOn(c, "chain")
     ELSE cmd' = [cmd EXCEPT ![c] = [@ EXCEPT !.pc = "migrate", !.batch = db.version + 1]]
  /\ UNCHANGED <<disk, db, sealed, started, owner>>

\* A batch is no transaction, and creates what must not be there yet.
ApplyBatch(c) ==
  /\ cmd[c].pc = "migrate" /\ cmd[c].batch <= Latest
  /\ IF cmd[c].batch \in db.begun THEN Quit(c) /\ UNCHANGED db
     ELSE /\ db' = [db EXCEPT !.begun = @ \cup {cmd[c].batch}]
          /\ cmd' = [cmd EXCEPT ![c].batch = @ + 1]
  /\ UNCHANGED <<disk, sealed, started, owner>>

\* Slip: the version is forgotten.
ForgetVersion(c) ==
  /\ cmd[c].pc = "migrate" /\ cmd[c].batch = Latest + 1
  /\ GoOn(c, "chain")
  /\ UNCHANGED <<disk, db, sealed, started, owner>>

SetVersion(c) ==
  /\ cmd[c].pc = "migrate" /\ cmd[c].batch = Latest + 1
  /\ db' = [db EXCEPT !.version = Latest]
  /\ GoOn(c, "chain")
  /\ UNCHANGED <<disk, sealed, started, owner>>

-----------------------------------------------------------------------------
(* The chain, and the use of an open vault. *)
\* init_chain and the device id, a statement each, over what may be there.
WriteChainKey(c) ==
  /\ cmd[c].pc = "chain" /\ cmd[c].run = "init"
  /\ db' = [db EXCEPT !.meta = @ \cup {ChainKeys[cmd[c].key]}]
  /\ IF cmd[c].key = Len(ChainKeys)
     THEN GoOn(c, "open") /\ Confirm(c)
     ELSE cmd' = [cmd EXCEPT ![c].key = @ + 1] /\ UNCHANGED owner
  /\ UNCHANGED <<disk, sealed, started>>

\* Any other command needs a chain: without a time zone it does not open.
ReadChain(c) ==
  /\ cmd[c].pc = "chain" /\ cmd[c].run # "init"
  /\ IF "home_tz" \notin db.meta THEN Quit(c)
     ELSE GoOn(c, IF cmd[c].run = "passphrase" THEN "rewrap" ELSE "open")
  /\ UNCHANGED <<disk, db, sealed, started, owner>>

\* Some row is written under the key this process holds.
SealRow(c) ==
  /\ cmd[c].pc = "open"
  /\ sealed' = sealed \cup {Unlocked(cmd[c].file, cmd[c].pass).dek}
  /\ UNCHANGED <<disk, db, cmd, started, owner>>

\* change_passphrase, from the file as this process read it.
Rewrap(c) ==
  /\ cmd[c].pc = "rewrap"
  /\ \E pass \in Passes, e \in Entropy(c) :
       /\ cmd' = [cmd EXCEPT ![c] = [@ EXCEPT !.pc = "truncate", !.pass = pass,
                                           !.file = Rewrapped(cmd[c].file, pass, e)]]
       /\ owner' = [owner EXCEPT !.setting = @ \cup {pass}]
  /\ UNCHANGED <<disk, db, sealed, started>>

\* The command ends, or its process dies where it stands.
Exit(c) ==
  /\ cmd[c].pc # "none"
  /\ Quit(c)
  /\ UNCHANGED <<disk, db, sealed, started, owner>>

\* The machine goes down: an inode that was not synced may be empty, a rename
\* whose directory was not may not have happened.
PowerLoss ==
  /\ \E lost \in SUBSET {i \in DOMAIN inodes : ~inodes[i].synced}, p \in {path, kept} :
       /\ inodes' = [i \in DOMAIN inodes |->
            [file |-> IF i \in lost THEN Torn ELSE inodes[i].file, synced |-> TRUE]]
       /\ path' = p /\ kept' = p
       /\ temp' \in {temp, 0}
  /\ cmd' = [c \in Commands |-> NoCommand]
  /\ UNCHANGED <<db, sealed, started, owner>>

VaultStep(c) ==
  \/ StartInit(c) \/ Create(c) \/ StartOpen(c)
  \/ Truncate(c) \/ Write(c) \/ Sync(c) \/ Rename(c) \/ SyncDirectory(c)
  \/ OpenStore(c) \/ ApplyBatch(c) \/ SetVersion(c)
  \/ WriteChainKey(c) \/ ReadChain(c) \/ SealRow(c) \/ Rewrap(c) \/ Exit(c)

VaultNext == PowerLoss \/ \E c \in Commands : VaultStep(c)

VaultSpec == VaultInit /\ [][VaultNext]_vaultVars

-----------------------------------------------------------------------------
(* What the vault promises. *)

\* Whatever dies when, the keystore on disk opens with the passphrase last
\* confirmed or one of those being set, and gives the key of every row.
RowsStayReadable ==
  \A dek \in sealed :
    /\ path # 0 /\ Legible(OnDisk)
    /\ \E pass \in {owner.pass} \cup owner.setting : Unlocked(Parsed(OnDisk), pass).dek = dek

\* Where init refuses, the other commands have a vault to open.  They may not: a
\* death in init after the keystore was written leaves a store without a chain,
\* and init refuses it from then on (engine.rs, init and open).
InitIsFinished ==
  (\A c \in Commands : cmd[c].pc = "none") /\ path # 0 => "home_tz" \in db.meta

\* A vault that holds rows is one whose store opens: what is left to migrate
\* has not been begun, unless a process is at it.
StoreOpens ==
  sealed # {} /\ (\A c \in Commands : cmd[c].pc # "migrate") =>
    \A b \in (db.version + 1)..Latest : b \notin db.begun
=============================================================================
