----------------------------- MODULE VaultProofs -----------------------------
(***************************************************************************)
(* Theorems about the tables and files of a vault: keystore and schema,    *)
(* people and vectors, and the versions of the persona.                    *)
(*                                                                         *)
(* The keystore is replaced by renaming a synced sibling over it, and the  *)
(* rename may be undone until the directory is synced. KeystoreInv is      *)
(* inductive as long as commands that write the keystore do not overlap:   *)
(* both the file the name stands for and the one it may fall back to are   *)
(* whole, open with a passphrase the owner has in hand, and give the key   *)
(* the rows are sealed under.                                              *)
(***************************************************************************)
EXTENDS Persona, Vault, Index, FiniteSetTheorems, SequenceTheorems, TLAPS

Fields == {"pc", "run", "pass", "kind", "file", "ino", "batch", "key"}
Replacing == {"truncate", "write", "sync", "rename"}
Opening == {"store", "migrate", "chain"}

\* The store of a command has been opened.
PastStore(c) ==
  \/ cmd[c].pc \in {"chain", "rewrap", "open"}
  \/ cmd[c].pc \in Replacing \cup {"dirsync"} /\ cmd[c].run # "init"

\* Rows are written by commands that have found the schema of this build.
SchemaInv ==
  /\ DOMAIN cmd = Commands
  /\ \A c \in Commands : DOMAIN cmd[c] = Fields
  /\ \A c \in Commands : cmd[c].pc = "create" => cmd[c].run = "init"
  /\ DOMAIN db = {"begun", "version", "meta"} /\ db.version \in Nat
  /\ sealed # {} \/ (\E c \in Commands : PastStore(c)) => db.version >= Latest

-----------------------------------------------------------------------------
\* What a keystore file opens with, and the key it gives.
Opens(file, pass) ==
  LET kek == Kek(pass, file.seed.kek[2]) IN
  /\ Unwraps(kek, file.seed, SeedAad)
  /\ file.identity = "imported_nsec" => Unwraps(kek, file.key, IdentityAad)
  /\ file.pubkey = IF file.identity = "imported_nsec" THEN file.key.what
                   ELSE Account("identity", file.seed.what)

Key(file) == IF file.dek = "identity" THEN file.pubkey ELSE Account("data", file.seed.what)

FileFields == {"version", "seed", "pubkey", "dek", "identity", "key"}
Intact(file) ==
  /\ DOMAIN file = FileFields
  /\ file.version \in 1..KeystoreVersion

\* A file as it is written: no field is missing.
Full(file) == Intact(file) /\ file.dek # "absent" /\ file.identity # "absent"

Known == {owner.pass} \cup owner.setting

\* A file a command may find.
Held(i) ==
  /\ inodes[i].synced
  /\ Intact(inodes[i].file)
  /\ \E pass \in Known : Opens(Parsed(inodes[i].file), pass)

KeyAt(i) == Key(Parsed(inodes[i].file))

Files ==
  /\ \E S : inodes \in Seq(S)
  /\ \A i \in DOMAIN inodes : DOMAIN inodes[i] = {"file", "synced"}
  /\ path \in 0..Len(inodes) /\ kept \in 0..Len(inodes) /\ temp \in 0..Len(inodes)
  /\ temp # 0 => temp # path /\ temp # kept
  /\ path # 0 => Held(path)
  /\ kept # 0 => Held(kept) /\ path # 0 /\ KeyAt(kept) = KeyAt(path)

\* Rows are sealed under the one key there is, once the keystore is on the disk.
Sealings ==
  /\ db.meta # {} => kept # 0
  /\ sealed # {} => kept # 0
  /\ \A dek \in sealed : dek = KeyAt(path)

\* An init that has not made its keystore yet; one that has.
Making(c) == cmd[c].run = "init" /\ cmd[c].pc \in Replacing \cup {"create"}
Made(c) == cmd[c].run = "init" /\ cmd[c].pc \in Opening
Busy(c) == cmd[c].pc # "none"

\* What a command holds.
Call(c) ==
  /\ DOMAIN cmd[c] = Fields
  /\ cmd[c].pc \in Replacing \cup Opening \cup {"none", "create", "dirsync", "rewrap", "open"}
  /\ Busy(c) => cmd[c].run \in {"init", "use", "passphrase"}
  /\ cmd[c].pc = "create" => cmd[c].run = "init"
  /\ cmd[c].pc = "rewrap" => cmd[c].run = "passphrase"
  /\ cmd[c].run = "use" => cmd[c].pc \notin Replacing \cup {"dirsync"}
  /\ Busy(c) /\ cmd[c].pc # "create" => Full(cmd[c].file) /\ Opens(cmd[c].file, cmd[c].pass)
  /\ Making(c) => path = 0
  /\ Busy(c) /\ ~Making(c) => path # 0 /\ Key(cmd[c].file) = KeyAt(path)
  /\ cmd[c].pc \in Replacing \ {"truncate"} => temp # 0 /\ cmd[c].ino = temp
  /\ cmd[c].pc \in {"sync", "rename"} => inodes[temp].file = cmd[c].file
  /\ cmd[c].pc = "rename" => inodes[temp].synced
  /\ cmd[c].pc = "dirsync" \/ Made(c) => inodes[path].file = cmd[c].file
  /\ Made(c) => kept = path
  /\ cmd[c].pc \in Replacing \cup {"dirsync"} \/ Made(c) => cmd[c].pass \in owner.setting
  /\ cmd[c].pc \in {"rewrap", "open"} \/ (cmd[c].run = "passphrase" /\ cmd[c].pc \in Replacing \cup {"dirsync"})
       => kept # 0

OneWriter == \A c, d \in Commands : Writes(c) /\ Writes(d) => c = d

KeystoreInv ==
  /\ DOMAIN cmd = Commands /\ DOMAIN db = {"begun", "version", "meta"}
  /\ DOMAIN owner = {"pass", "setting"}
  /\ Files /\ Sealings /\ OneWriter
  /\ \A c \in Commands : Call(c)

-----------------------------------------------------------------------------
\* A step of c leaves the other commands alone, and every call keeps its fields.
Shaped == DOMAIN cmd = Commands /\ \A c \in Commands : DOMAIN cmd[c] = Fields

LEMMA CallsShaped ==
  ASSUME Shaped, NEW c \in Commands, VaultStep(c)
  PROVE  Shaped' /\ \A d \in Commands \ {c} : cmd'[d] = cmd[d]
<1> USE DEF Shaped
<1>0. DOMAIN NoCommand = Fields
  BY DEF NoCommand, Fields
<1>1. ASSUME NEW pc, GoOn(c, pc) PROVE Shaped' /\ \A d \in Commands \ {c} : cmd'[d] = cmd[d]
  BY <1>1 DEF GoOn
<1>2. ASSUME Quit(c) PROVE Shaped' /\ \A d \in Commands \ {c} : cmd'[d] = cmd[d]
  BY <1>0, <1>2 DEF Quit
<1>3. CASE StartInit(c)
  <2>1. PICK pass \in Passes, kind \in {"seed", "nsec"} :
          cmd' = [cmd EXCEPT ![c] = [NoCommand EXCEPT !.pc = "create", !.run = "init",
                                                      !.pass = pass, !.kind = kind]]
    BY <1>3 DEF StartInit
  <2> QED
    BY <1>0, <2>1
<1>4. CASE Create(c)
  <2>1. PICK e \in Entropy(c) :
          cmd' = [cmd EXCEPT ![c] = [@ EXCEPT !.pc = "truncate",
                                              !.file = Created(c, cmd[c].kind, cmd[c].pass, e)]]
    BY <1>4 DEF Create
  <2> HIDE DEF Created
  <2> QED
    BY <2>1
<1>5. CASE StartOpen(c)
  <2>1. PICK pass \in Passes, run \in {"use", "passphrase"} :
          cmd' = [cmd EXCEPT ![c] = [NoCommand EXCEPT !.pc = "store", !.run = run,
                                                      !.pass = pass, !.file = Parsed(OnDisk)]]
    BY <1>5 DEF StartOpen
  <2> QED
    BY <1>0, <2>1
<1>6. CASE Truncate(c)
  BY <1>6 DEF Truncate
<1>7. CASE Write(c) \/ Sync(c)
  BY <1>1, <1>7 DEF Write, Sync
<1>8. CASE Rename(c) \/ SyncDirectory(c)
  BY <1>1, <1>2, <1>8 DEF Rename, SyncDirectory
<1>9. CASE OpenStore(c)
  <2>1. CASE cmd' = [cmd EXCEPT ![c] = [@ EXCEPT !.pc = "migrate", !.batch = db.version + 1]]
    BY <2>1
  <2> QED
    BY <1>1, <1>2, <1>9, <2>1 DEF OpenStore
<1>10. CASE ApplyBatch(c) \/ SetVersion(c)
  <2>1. CASE cmd' = [cmd EXCEPT ![c].batch = @ + 1]
    BY <2>1
  <2> QED
    BY <1>1, <1>2, <1>10, <2>1 DEF ApplyBatch, SetVersion
<1>11. CASE WriteChainKey(c)
  <2>1. CASE cmd' = [cmd EXCEPT ![c].key = @ + 1]
    BY <2>1
  <2> QED
    BY <1>1, <1>11, <2>1 DEF WriteChainKey
<1>12. CASE ReadChain(c) \/ Exit(c)
  BY <1>1, <1>2, <1>12 DEF ReadChain, Exit
<1>13. CASE SealRow(c)
  BY <1>13 DEF SealRow
<1>14. CASE Rewrap(c)
  <2>1. PICK pass \in Passes, e \in Entropy(c) :
          cmd' = [cmd EXCEPT ![c] = [@ EXCEPT !.pc = "truncate", !.pass = pass,
                                              !.file = Rewrapped(cmd[c].file, pass, e)]]
    BY <1>14 DEF Rewrap
  <2> HIDE DEF Rewrapped
  <2> QED
    BY <2>1
<1> QED
  BY <1>3, <1>4, <1>5, <1>6, <1>7, <1>8, <1>9, <1>10, <1>11, <1>12, <1>13, <1>14 DEF VaultStep

-----------------------------------------------------------------------------
\* The schema.
SchemaMoves(c) ==
  /\ DOMAIN db' = {"begun", "version", "meta"} /\ db'.version \in Nat
  /\ db.version >= Latest => db'.version >= Latest
  /\ sealed' # {} => sealed # {} \/ PastStore(c)
  /\ PastStore(c)' => PastStore(c) \/ db'.version >= Latest
  /\ cmd'[c].pc = "create" => cmd'[c].run = "init"

LEMMA SchemaStep ==
  ASSUME SchemaInv, [VaultNext]_vaultVars
  PROVE  SchemaInv'
<1>0. Shaped /\ Latest \in Nat /\ db.version \in Nat /\ DOMAIN NoCommand = Fields
  BY VaultAssumption DEF SchemaInv, Shaped, NoCommand, Fields
<1>1. ASSUME NEW c \in Commands, VaultStep(c)
      PROVE  SchemaInv'
  <2>1. Shaped' /\ \A d \in Commands \ {c} : cmd'[d] = cmd[d]
    BY <1>0, <1>1, CallsShaped
  <2>2. \A d \in Commands \ {c} : PastStore(d)' => PastStore(d)
    BY <2>1 DEF PastStore
  <2>3. SUFFICES SchemaMoves(c)
    <3>1. sealed' # {} \/ (\E d \in Commands : PastStore(d)') => db'.version >= Latest
      BY <1>0, <2>2, <2>3 DEF SchemaInv, SchemaMoves
    <3>2. \A d \in Commands : cmd'[d].pc = "create" => cmd'[d].run = "init"
      BY <2>1, <2>3 DEF SchemaInv, SchemaMoves
    <3> QED
      BY <2>1, <2>3, <3>1, <3>2 DEF SchemaInv, SchemaMoves, Shaped
  <2> USE DEF PastStore, Replacing, SchemaMoves
  <2>4. CASE Quit(c) /\ UNCHANGED <<db, sealed>>
    BY <1>0, <2>4 DEF SchemaInv, Quit, NoCommand
  \* Where only pc moves, and not past the store.
  <2>5. ASSUME NEW pc, GoOn(c, pc), UNCHANGED <<db, sealed>>, pc # "create",
               pc \in {"chain", "rewrap", "open"} \cup Replacing \cup {"dirsync"}
               => PastStore(c) \/ db.version >= Latest \/ (pc \in Replacing \cup {"dirsync"} /\ cmd[c].run = "init")
        PROVE  SchemaMoves(c)
    <3>1. cmd'[c].pc = pc /\ cmd'[c].run = cmd[c].run
      BY <1>0, <2>5 DEF GoOn, Shaped, Fields
    <3> QED
      BY <2>5, <3>1 DEF SchemaInv
  <2>6. CASE StartInit(c)
    <3>1. UNCHANGED <<db, sealed>> /\ cmd'[c].pc = "create" /\ cmd'[c].run = "init"
      BY <1>0, <2>6 DEF StartInit, Shaped, Fields
    <3> QED
      BY <3>1 DEF SchemaInv
  <2>7. CASE Create(c)
    <3>1. UNCHANGED <<db, sealed>> /\ cmd'[c].run = cmd[c].run /\ cmd'[c].pc = "truncate"
      BY <1>0, <2>7 DEF Create, Shaped, Fields
    <3> QED
      BY <3>1, <2>7 DEF Create, SchemaInv
  <2>8. CASE StartOpen(c)
    <3>1. UNCHANGED <<db, sealed>> /\ cmd'[c].pc = "store"
      BY <1>0, <2>8 DEF StartOpen, Shaped, Fields
    <3> QED
      BY <3>1 DEF SchemaInv
  <2>9. CASE Truncate(c)
    <3>1. UNCHANGED <<db, sealed>> /\ cmd'[c].run = cmd[c].run /\ cmd'[c].pc = "write"
      BY <1>0, <2>9 DEF Truncate, Shaped, Fields
    <3> QED
      BY <3>1, <2>9 DEF Truncate, SchemaInv
  <2>10. CASE Write(c) \/ Sync(c) \/ Rename(c)
    BY <2>4, <2>5, <2>10 DEF Write, Sync, Rename
  <2>11. CASE SyncDirectory(c)
    BY <2>5, <2>11 DEF SyncDirectory
  <2>12. CASE OpenStore(c)
    <3>1. CASE cmd' = [cmd EXCEPT ![c] = [@ EXCEPT !.pc = "migrate", !.batch = db.version + 1]]
      <4>1. cmd'[c].pc = "migrate"
        BY <1>0, <3>1 DEF Shaped, Fields
      <4> QED
        BY <2>12, <4>1 DEF OpenStore, SchemaInv
    <3> QED
      BY <1>0, <2>4, <2>5, <2>12, <3>1 DEF OpenStore
  <2>13. CASE ApplyBatch(c)
    <3>1. CASE cmd[c].batch \in db.begun
      BY <2>4, <2>13, <3>1 DEF ApplyBatch
    <3>2. CASE cmd[c].batch \notin db.begun
      <4>1. /\ cmd'[c].pc = cmd[c].pc /\ cmd'[c].run = cmd[c].run /\ UNCHANGED sealed
            /\ DOMAIN db' = DOMAIN db /\ db'.version = db.version
        BY <1>0, <2>13, <3>2 DEF ApplyBatch, SchemaInv, Shaped, Fields
      <4> QED
        BY <4>1 DEF SchemaInv
    <3> QED
      BY <3>1, <3>2
  <2>14. CASE SetVersion(c)
    <3>1. /\ DOMAIN db' = DOMAIN db /\ db'.version = Latest /\ UNCHANGED sealed
          /\ cmd'[c].pc = "chain"
      BY <1>0, <2>14 DEF SetVersion, GoOn, SchemaInv, Shaped, Fields
    <3> QED
      BY <1>0, <3>1 DEF SchemaInv
  <2>15. CASE WriteChainKey(c)
    <3>1. DOMAIN db' = DOMAIN db /\ db'.version = db.version /\ UNCHANGED sealed /\ cmd[c].pc = "chain"
      BY <2>15 DEF WriteChainKey, SchemaInv
    <3>2. cmd'[c].pc # "create"
      BY <1>0, <2>15 DEF WriteChainKey, GoOn, Shaped, Fields
    <3> QED
      BY <3>1, <3>2 DEF SchemaInv
  <2>16. CASE ReadChain(c)
    BY <2>4, <2>5, <2>16 DEF ReadChain
  <2>17. CASE SealRow(c)
    BY <2>17 DEF SealRow, SchemaInv
  <2>18. CASE Rewrap(c)
    <3>1. UNCHANGED <<db, sealed>> /\ cmd'[c].pc = "truncate" /\ cmd[c].pc = "rewrap"
      BY <1>0, <2>18 DEF Rewrap, Shaped, Fields
    <3> QED
      BY <3>1 DEF SchemaInv
  <2>19. CASE Exit(c)
    BY <2>4, <2>19 DEF Exit
  <2> QED
    BY <1>1, <2>6, <2>7, <2>8, <2>9, <2>10, <2>11, <2>12, <2>13, <2>14, <2>15, <2>16, <2>17, <2>18, <2>19
       DEF VaultStep
<1>2. CASE PowerLoss
  <2>1. \A c \in Commands : cmd'[c] = NoCommand
    BY <1>2 DEF PowerLoss
  <2> QED
    BY <1>0, <1>2, <2>1 DEF PowerLoss, SchemaInv, PastStore, NoCommand, Replacing
<1>3. CASE UNCHANGED vaultVars
  BY <1>3 DEF vaultVars, SchemaInv, PastStore
<1> QED
  BY <1>1, <1>2, <1>3 DEF VaultNext

\* A vault that holds rows opens, whatever dies when, as long as none of an
\* older schema is found: what a build migrates from nothing holds no rows
\* before it is done (SqliteStore::open, migrate).
THEOREM StoreHolds ==
  ASSUME "upgrade" \notin Origins
  PROVE  VaultSpec => []StoreOpens
<1>1. VaultInit => SchemaInv
  <2> SUFFICES ASSUME VaultInit PROVE SchemaInv
    OBVIOUS
  <2>1. PICK o \in Origins : db = Origin(o).db /\ sealed = Origin(o).sealed
    BY DEF VaultInit
  <2>2. o \in {"none", "legacy", "newer"} /\ Latest \in Nat
    BY VaultAssumption
  <2>3. /\ DOMAIN cmd = Commands
        /\ \A c \in Commands : cmd[c] = NoCommand
    BY DEF VaultInit
  <2>4. /\ DOMAIN db = {"begun", "version", "meta"} /\ db.version \in Nat
        /\ sealed # {} => db.version >= Latest
    <3>1. CASE o = "none"
      BY <2>1, <3>1 DEF Origin, NoStore
    <3>2. CASE o = "legacy"
      BY <2>1, <2>2, <3>2 DEF Origin, Store
    <3>3. CASE o = "newer"
      BY <2>1, <2>2, <3>3 DEF Origin, Store
    <3> QED
      BY <2>2, <3>1, <3>2, <3>3
  <2> QED
    BY <2>3, <2>4 DEF SchemaInv, NoCommand, Fields, PastStore, Replacing
<1>2. SchemaInv /\ [VaultNext]_vaultVars => SchemaInv'
  BY SchemaStep
<1>3. SchemaInv => StoreOpens
  BY VaultAssumption DEF SchemaInv, StoreOpens
<1> QED
  BY <1>1, <1>2, <1>3, PTL DEF VaultSpec

-----------------------------------------------------------------------------
\* Keystore files.

LEMMA OpensGivesKey ==
  ASSUME NEW file, NEW pass
  PROVE  /\ Opens(file, pass) => Unlocked(file, pass).dek = Key(file)
         /\ Unlocked(file, pass) # Locked => Opens(file, pass)
<1> DEFINE kek == Kek(pass, file.seed.kek[2])
           opens == /\ Unwraps(kek, file.seed, SeedAad)
                    /\ file.identity = "imported_nsec" => Unwraps(kek, file.key, IdentityAad)
           identity == IF file.identity = "imported_nsec" THEN file.key.what
                       ELSE Account("identity", file.seed.what)
<1>1. Opens(file, pass) <=> opens /\ identity = file.pubkey
  BY DEF Opens
<1>2. Unlocked(file, pass) =
        IF ~opens \/ identity # file.pubkey THEN Locked
        ELSE [identity |-> identity,
              dek |-> IF file.dek = "identity" THEN identity ELSE Account("data", file.seed.what)]
  BY DEF Unlocked
<1> HIDE DEF opens, identity
<1> QED
  BY <1>1, <1>2 DEF Key

LEMMA ParsedFile ==
  ASSUME NEW file, Intact(file)
  PROVE  /\ Full(Parsed(file))
         /\ Full(file) => Key(Parsed(file)) = Key(file)
         /\ Full(file) => \A pass : Opens(file, pass) => Opens(Parsed(file), pass)
<1>1. /\ DOMAIN Parsed(file) = FileFields
      /\ Parsed(file).version = file.version /\ Parsed(file).seed = file.seed
      /\ Parsed(file).pubkey = file.pubkey /\ Parsed(file).key = file.key
      /\ Parsed(file).dek = (IF file.dek = "absent" THEN "identity" ELSE file.dek)
      /\ Parsed(file).identity = (IF file.identity = "absent" THEN "seed" ELSE file.identity)
  BY DEF Parsed, Intact, FileFields
<1> QED
  BY <1>1 DEF Full, Intact, Key, Opens

\* A keystore that was just made opens with its passphrase.
LEMMA CreatedFile ==
  ASSUME NEW seed, NEW kind, NEW pass, NEW e
  PROVE  Full(Created(seed, kind, pass, e)) /\ Opens(Created(seed, kind, pass, e), pass)
<1> DEFINE file == Created(seed, kind, pass, e)
<1>1. /\ DOMAIN file = FileFields /\ file.version = 2
      /\ file.seed = Wrap(Kek(pass, e.salt), seed, e.seed, SeedAad)
      /\ file.pubkey = (IF kind = "nsec" THEN Imported ELSE Account("identity", seed))
      /\ file.dek = "vault_data"
      /\ file.identity = (IF kind = "nsec" THEN "imported_nsec" ELSE "seed")
      /\ file.key = (IF kind = "nsec" THEN Wrap(Kek(pass, e.salt), Imported, e.identity, IdentityAad) ELSE NoWrap)
  BY DEF Created, FileFields, KeystoreVersion
<1> HIDE DEF file
<1>2. Full(file)
  BY <1>1 DEF Full, Intact, KeystoreVersion
<1>3. Opens(file, pass)
  <2>1. file.seed.kek = <<pass, e.salt>> /\ file.seed.what = seed /\ file.seed.aad = SeedAad
    BY <1>1 DEF Wrap, Kek
  <2>2. Kek(pass, file.seed.kek[2]) = file.seed.kek
    BY <2>1 DEF Kek
  <2>3. kind = "nsec" => /\ file.key.kek = file.seed.kek /\ file.key.what = Imported
                         /\ file.key.aad = IdentityAad
    BY <1>1, <2>1 DEF Wrap, Kek
  <2> QED
    BY <1>1, <2>1, <2>2, <2>3 DEF Opens, Unwraps
<1> QED
  BY <1>2, <1>3 DEF file

\* Wrapped anew it opens with the new one, and gives the same key.
LEMMA RewrappedFile ==
  ASSUME NEW file, NEW old, NEW pass, NEW e, Full(file), Opens(file, old)
  PROVE  LET new == Rewrapped(file, pass, e) IN
         Full(new) /\ Opens(new, pass) /\ Key(new) = Key(file)
<1> DEFINE new == Rewrapped(file, pass, e)
<1>1. /\ DOMAIN new = FileFields /\ new.version = file.version
      /\ new.seed = Wrap(Kek(pass, e.salt), file.seed.what, e.seed, SeedAad)
      /\ new.pubkey = file.pubkey /\ new.dek = file.dek /\ new.identity = file.identity
      /\ new.key = (IF file.identity = "imported_nsec"
                    THEN Wrap(Kek(pass, e.salt), file.key.what, e.identity, IdentityAad) ELSE file.key)
  BY DEF Rewrapped, Full, Intact, FileFields
<1> HIDE DEF new
<1>2. Full(new)
  BY <1>1 DEF Full, Intact
<1>3. new.seed.kek = <<pass, e.salt>> /\ new.seed.what = file.seed.what /\ new.seed.aad = SeedAad
  BY <1>1 DEF Wrap, Kek
<1>4. Kek(pass, new.seed.kek[2]) = new.seed.kek
  BY <1>3 DEF Kek
<1>5. file.identity = "imported_nsec" =>
        /\ new.key.kek = new.seed.kek /\ new.key.what = file.key.what /\ new.key.aad = IdentityAad
  BY <1>1, <1>3 DEF Wrap, Kek
<1>6. Opens(new, pass)
  BY <1>1, <1>3, <1>4, <1>5 DEF Opens, Unwraps
<1>7. Key(new) = Key(file)
  BY <1>1, <1>3 DEF Key
<1> QED
  BY <1>2, <1>6, <1>7 DEF new

LEMMA TornIsNotIntact ==
  ASSUME NEW file, Intact(file)
  PROVE  Legible(file)
<1>1. Torn.version = 0 /\ file.version # 0
  BY DEF Intact, KeystoreVersion, Torn
<1> QED
  BY <1>1 DEF Intact, Legible, KeystoreVersion

-----------------------------------------------------------------------------
\* The commands beside the one that steps.

LEMMA Bystander ==
  ASSUME NEW d \in Commands, Call(d), cmd'[d] = cmd[d], UNCHANGED disk,
         owner.setting \subseteq owner'.setting
  PROVE  Call(d)'
BY DEF Call, Busy, Making, Made, KeyAt, disk

\* One that does not write the keystore needs it to stay, under the same key.
LEMMA Reader ==
  ASSUME NEW d \in Commands, Call(d), ~Writes(d), cmd'[d] = cmd[d],
         path # 0 => path' # 0 /\ KeyAt(path)' = KeyAt(path),
         kept # 0 => kept' # 0
  PROVE  Call(d)'
<1>1. ~Making(d) /\ ~Made(d) /\ cmd[d].pc \notin Replacing \cup {"dirsync", "create", "rewrap"}
  BY DEF Call, Writes, Making, Made, Replacing, Opening, Busy
<1>2. ~Making(d)' /\ ~Made(d)' /\ Busy(d)' = Busy(d)
  BY <1>1 DEF Making, Made, Busy
<1>3. Busy(d) => path' # 0 /\ Key(cmd[d].file) = KeyAt(path)'
  BY <1>1 DEF Call
<1> QED
  BY <1>1, <1>2, <1>3 DEF Call, Replacing

LEMMA WriterStays ==
  ASSUME OneWriter, NEW c \in Commands, \A d \in Commands \ {c} : cmd'[d] = cmd[d],
         Writes(c)' => Writes(c) \/ \A d \in Commands : ~Writes(d)
  PROVE  OneWriter'
<1>1. \A d \in Commands \ {c} : Writes(d)' = Writes(d)
  BY DEF Writes
<1> QED
  BY <1>1 DEF OneWriter

LEMMA FilesStay ==
  ASSUME Files, UNCHANGED disk, Known \subseteq Known'
  PROVE  Files'
<1>1. \A i : Held(i) => Held(i)'
  BY DEF Held, disk
<1>2. \A i : KeyAt(i)' = KeyAt(i)
  BY DEF KeyAt, disk
<1>3. Held(path) => Held(path)'
  BY <1>1 DEF Held, disk
<1>4. Held(kept) => Held(kept)'
  BY <1>1 DEF Held, disk
<1>5. KeyAt(kept)' = KeyAt(kept) /\ KeyAt(path)' = KeyAt(path)
  BY DEF KeyAt, disk
<1> QED
  BY <1>3, <1>4, <1>5 DEF Files, disk

\* A step of c that leaves the files alone and forgets no passphrase.
LEMMA Quiet ==
  ASSUME KeystoreInv, NEW c \in Commands, VaultStep(c), UNCHANGED disk,
         owner.setting \subseteq owner'.setting, owner'.pass = owner.pass, DOMAIN owner' = DOMAIN owner,
         Writes(c)' => Writes(c) \/ \A d \in Commands : ~Writes(d),
         Call(c)', Sealings', DOMAIN db' = DOMAIN db
  PROVE  KeystoreInv'
<1>1. Shaped /\ \A d \in Commands : Call(d)
  BY DEF KeystoreInv, Shaped, Call
<1>2. Shaped' /\ \A d \in Commands \ {c} : cmd'[d] = cmd[d]
  BY <1>1, CallsShaped
<1>3. Files'
  BY FilesStay DEF KeystoreInv, Known
<1>4. OneWriter'
  BY <1>2, WriterStays DEF KeystoreInv
<1>5. \A d \in Commands : Call(d)'
  BY <1>1, <1>2, Bystander
<1> QED
  BY <1>2, <1>3, <1>4, <1>5 DEF KeystoreInv, Shaped

LEMMA SealingsStay ==
  ASSUME Sealings, UNCHANGED disk, UNCHANGED sealed, db'.meta = db.meta
  PROVE  Sealings'
BY DEF Sealings, KeyAt, disk

\* What GoOn leaves of a call.
LEMMA GoesOn ==
  ASSUME Shaped, NEW c \in Commands, NEW pc, GoOn(c, pc)
  PROVE  /\ cmd'[c].pc = pc /\ cmd'[c].run = cmd[c].run /\ cmd'[c].pass = cmd[c].pass
         /\ cmd'[c].file = cmd[c].file /\ cmd'[c].ino = cmd[c].ino /\ DOMAIN cmd'[c] = Fields
BY DEF GoOn, Shaped, Fields

LEMMA Gone ==
  ASSUME Shaped, NEW c \in Commands, Quit(c)
  PROVE  Call(c)' /\ ~Writes(c)'
<1>1. cmd'[c] = NoCommand
  BY DEF Quit, Shaped
<1>2. DOMAIN NoCommand = Fields /\ NoCommand.pc = "none" /\ NoCommand.run = "none"
  BY DEF NoCommand, Fields
<1> QED
  BY <1>1, <1>2 DEF Call, Busy, Making, Made, Replacing, Opening, Writes

-----------------------------------------------------------------------------
\* The steps that leave the files alone.

LEMMA QuietSteps ==
  ASSUME KeystoreInv, ~Overlap, NEW c \in Commands, VaultStep(c),
         \/ StartInit(c) \/ Create(c) \/ StartOpen(c) \/ OpenStore(c) \/ ApplyBatch(c) \/ SetVersion(c)
         \/ ReadChain(c) \/ SealRow(c) \/ Rewrap(c) \/ Exit(c)
  PROVE  KeystoreInv'
<1>0. /\ Shaped /\ Call(c) /\ Files /\ Sealings /\ DOMAIN db = {"begun", "version", "meta"}
      /\ DOMAIN NoCommand = Fields /\ DOMAIN owner = {"pass", "setting"}
  BY DEF KeystoreInv, Shaped, Call, NoCommand, Fields
<1>1. ASSUME Quit(c), UNCHANGED <<disk, db, sealed, owner>> PROVE KeystoreInv'
  <2>1. Call(c)' /\ ~Writes(c)' /\ Sealings'
    BY <1>0, <1>1, Gone, SealingsStay
  <2> QED
    BY <1>1, <2>1, Quiet
<1>2. CASE StartInit(c)
  <2>1. /\ UNCHANGED <<disk, db, sealed, owner>> /\ path = 0 /\ \A d \in Commands : ~Writes(d)
        /\ cmd'[c].pc = "create" /\ cmd'[c].run = "init" /\ DOMAIN cmd'[c] = Fields
    BY <1>0, <1>2 DEF StartInit, MayStart, Shaped, Fields
  <2>2. Call(c)'
    BY <2>1 DEF Call, Busy, Making, Made, Replacing, Opening, disk
  <2> QED
    BY <1>0, <2>1, <2>2, Quiet, SealingsStay
<1>3. CASE Create(c)
  <2>1. PICK e \in Entropy(c) :
          cmd' = [cmd EXCEPT ![c] = [@ EXCEPT !.pc = "truncate",
                                              !.file = Created(c, cmd[c].kind, cmd[c].pass, e)]]
    BY <1>3 DEF Create
  <2>2. /\ UNCHANGED <<disk, db, sealed>> /\ cmd[c].pc = "create"
        /\ owner'.setting = owner.setting \cup {cmd[c].pass} /\ owner'.pass = owner.pass
        /\ DOMAIN owner' = DOMAIN owner
    BY <1>0, <1>3 DEF Create
  <2> DEFINE file == Created(c, cmd[c].kind, cmd[c].pass, e)
  <2>3. Full(file) /\ Opens(file, cmd[c].pass)
    BY CreatedFile
  <2> HIDE DEF file
  <2>4. /\ cmd'[c].pc = "truncate" /\ cmd'[c].run = cmd[c].run /\ cmd'[c].pass = cmd[c].pass
        /\ cmd'[c].file = file /\ DOMAIN cmd'[c] = Fields
    BY <1>0, <2>1 DEF Shaped, Fields, file
  <2>5. cmd[c].run = "init" /\ path = 0
    BY <1>0, <2>2 DEF Call, Making
  <2>6. Call(c)'
    BY <2>2, <2>3, <2>4, <2>5 DEF Call, Busy, Making, Made, Replacing, Opening, disk
  <2>7. Writes(c)
    BY <2>2, <2>5 DEF Writes
  <2> QED
    BY <1>0, <2>2, <2>6, <2>7, Quiet, SealingsStay
<1>4. CASE StartOpen(c)
  <2>1. PICK pass \in Passes, run \in {"use", "passphrase"} :
          /\ MayStart(c, run)
          /\ Unlocked(Parsed(OnDisk), pass) # Locked
          /\ cmd' = [cmd EXCEPT ![c] = [NoCommand EXCEPT !.pc = "store", !.run = run,
                                                         !.pass = pass, !.file = Parsed(OnDisk)]]
    BY <1>4 DEF StartOpen
  <2>2. UNCHANGED <<disk, db, sealed, owner>> /\ path # 0
    BY <1>4 DEF StartOpen
  <2> DEFINE file == Parsed(OnDisk)
  <2>3. Full(file) /\ Opens(file, pass) /\ Key(file) = KeyAt(path)
    BY <1>0, <2>1, <2>2, ParsedFile, OpensGivesKey DEF Files, Held, OnDisk, KeyAt
  <2> HIDE DEF file
  <2>4. /\ cmd'[c].pc = "store" /\ cmd'[c].run = run /\ cmd'[c].pass = pass
        /\ cmd'[c].file = file /\ DOMAIN cmd'[c] = Fields
    BY <1>0, <2>1 DEF Shaped, Fields, file
  <2>5. KeyAt(path)' = KeyAt(path) /\ path' = path
    BY <2>2 DEF KeyAt, disk
  <2>6. Call(c)'
    BY <2>2, <2>3, <2>4, <2>5 DEF Call, Busy, Making, Made, Replacing, Opening
  <2>7. Writes(c)' => \A d \in Commands : ~Writes(d)
    BY <2>1, <2>4 DEF Writes, MayStart
  <2> QED
    BY <1>0, <2>2, <2>6, <2>7, Quiet, SealingsStay
\* Where pc moves on within the opening of the store, or past it.
<1>5. ASSUME NEW pc, GoOn(c, pc), UNCHANGED <<disk, sealed, owner>>, db'.meta = db.meta, DOMAIN db' = DOMAIN db,
             \/ cmd[c].pc \in {"store", "migrate"} /\ pc \in {"migrate", "chain"}
             \/ /\ cmd[c].pc = "chain" /\ cmd[c].run # "init" /\ kept # 0
                /\ pc = IF cmd[c].run = "passphrase" THEN "rewrap" ELSE "open"
      PROVE  KeystoreInv'
  <2>1. /\ cmd'[c].pc = pc /\ cmd'[c].run = cmd[c].run /\ cmd'[c].pass = cmd[c].pass
        /\ cmd'[c].file = cmd[c].file /\ cmd'[c].ino = cmd[c].ino /\ DOMAIN cmd'[c] = Fields
    BY <1>0, <1>5, GoesOn
  <2>2. KeyAt(path)' = KeyAt(path) /\ UNCHANGED <<inodes, path, kept, temp>>
    BY <1>5 DEF KeyAt, disk
  <2>3. Made(c)' => Made(c)
    BY <1>5, <2>1 DEF Made, Opening
  <2>4. ~Making(c) /\ ~Making(c)' /\ Busy(c) /\ cmd[c].pc # "create"
    BY <1>5, <2>1 DEF Making, Busy, Replacing
  <2>5. Call(c)'
    BY <1>0, <1>5, <2>1, <2>2, <2>3, <2>4 DEF Call, Busy, Replacing, Opening
  <2>6. Writes(c)' => Writes(c)
    BY <1>5, <2>1 DEF Writes
  <2> QED
    BY <1>0, <1>5, <2>5, <2>6, Quiet, SealingsStay
<1>6. CASE OpenStore(c)
  <2>1. CASE cmd' = [cmd EXCEPT ![c] = [@ EXCEPT !.pc = "migrate", !.batch = db.version + 1]]
    <3>1. /\ cmd'[c].pc = "migrate" /\ cmd'[c].run = cmd[c].run /\ cmd'[c].pass = cmd[c].pass
          /\ cmd'[c].file = cmd[c].file /\ DOMAIN cmd'[c] = Fields
      BY <1>0, <2>1 DEF Shaped, Fields
    <3>2. UNCHANGED <<inodes, path, kept, temp, db, sealed, owner>> /\ KeyAt(path)' = KeyAt(path) /\ cmd[c].pc = "store"
      BY <1>6 DEF OpenStore, KeyAt, disk
    <3>3. Call(c)'
      BY <1>0, <3>1, <3>2 DEF Call, Busy, Making, Made, Replacing, Opening
    <3>4. Writes(c)' => Writes(c)
      BY <3>1, <3>2 DEF Writes
    <3> QED
      BY <1>0, <3>2, <3>3, <3>4, Quiet, SealingsStay DEF disk
  <2> QED
    BY <1>1, <1>5, <1>6, <2>1 DEF OpenStore
<1>7. CASE ApplyBatch(c)
  <2>1. CASE cmd[c].batch \in db.begun
    BY <1>1, <1>7, <2>1 DEF ApplyBatch
  <2>2. CASE cmd[c].batch \notin db.begun
    <3>1. /\ cmd'[c].pc = cmd[c].pc /\ cmd'[c].run = cmd[c].run /\ cmd'[c].pass = cmd[c].pass
          /\ cmd'[c].file = cmd[c].file /\ DOMAIN cmd'[c] = Fields
      BY <1>0, <1>7, <2>2 DEF ApplyBatch, Shaped, Fields
    <3>2. /\ UNCHANGED <<inodes, path, kept, temp, sealed, owner>> /\ db'.meta = db.meta /\ DOMAIN db' = DOMAIN db
          /\ KeyAt(path)' = KeyAt(path) /\ cmd[c].pc = "migrate"
      BY <1>0, <1>7, <2>2 DEF ApplyBatch, KeyAt, disk
    <3>3. Call(c)'
      BY <1>0, <3>1, <3>2 DEF Call, Busy, Making, Made, Replacing, Opening
    <3>4. Writes(c)' => Writes(c)
      BY <3>1, <3>2 DEF Writes
    <3> QED
      BY <1>0, <3>2, <3>3, <3>4, Quiet, SealingsStay DEF disk
  <2> QED
    BY <2>1, <2>2
<1>8. CASE SetVersion(c)
  <2>1. db'.meta = db.meta /\ DOMAIN db' = DOMAIN db /\ cmd[c].pc = "migrate" /\ GoOn(c, "chain")
    BY <1>0, <1>8 DEF SetVersion
  <2> QED
    BY <1>5, <1>8, <2>1 DEF SetVersion
<1>9. CASE ReadChain(c)
  <2>1. CASE "home_tz" \notin db.meta
    BY <1>1, <1>9, <2>1 DEF ReadChain
  <2>2. CASE "home_tz" \in db.meta
    <3>1. kept # 0
      BY <1>0, <2>2 DEF Sealings
    <3> QED
      BY <1>5, <1>9, <2>2, <3>1 DEF ReadChain
  <2> QED
    BY <2>1, <2>2
<1>10. CASE SealRow(c)
  <2>1. cmd[c].pc = "open" /\ UNCHANGED <<inodes, path, kept, temp, db, cmd, owner>>
        /\ sealed' = sealed \cup {Unlocked(cmd[c].file, cmd[c].pass).dek}
    BY <1>10 DEF SealRow, disk
  <2>2. Unlocked(cmd[c].file, cmd[c].pass).dek = KeyAt(path) /\ kept # 0
    BY <1>0, <2>1, OpensGivesKey DEF Call, Busy, Making, Replacing
  <2>3. Sealings'
    BY <1>0, <2>1, <2>2 DEF Sealings, KeyAt
  <2>4. Call(c)'
    BY <1>0, <2>1, Bystander DEF disk
  <2>5. Writes(c)' = Writes(c)
    BY <2>1 DEF Writes
  <2> QED
    BY <2>1, <2>3, <2>4, <2>5, Quiet DEF disk
<1>11. CASE Rewrap(c)
  <2>1. PICK pass \in Passes, e \in Entropy(c) :
          /\ cmd' = [cmd EXCEPT ![c] = [@ EXCEPT !.pc = "truncate", !.pass = pass,
                                              !.file = Rewrapped(cmd[c].file, pass, e)]]
          /\ owner' = [owner EXCEPT !.setting = @ \cup {pass}]
    BY <1>11 DEF Rewrap
  <2>2. UNCHANGED <<disk, db, sealed>> /\ cmd[c].pc = "rewrap"
    BY <1>11 DEF Rewrap
  <2> DEFINE file == Rewrapped(cmd[c].file, pass, e)
  <2>3. Full(cmd[c].file) /\ Opens(cmd[c].file, cmd[c].pass) /\ cmd[c].run = "passphrase"
        /\ path # 0 /\ Key(cmd[c].file) = KeyAt(path) /\ kept # 0
    BY <1>0, <2>2 DEF Call, Busy, Making, Replacing
  <2>4. Full(file) /\ Opens(file, pass) /\ Key(file) = KeyAt(path)
    BY <2>3, RewrappedFile
  <2> HIDE DEF file
  <2>5. /\ cmd'[c].pc = "truncate" /\ cmd'[c].run = cmd[c].run /\ cmd'[c].pass = pass
        /\ cmd'[c].file = file /\ DOMAIN cmd'[c] = Fields
    BY <1>0, <2>1 DEF Shaped, Fields, file
  <2>6. /\ owner'.setting = owner.setting \cup {pass} /\ owner'.pass = owner.pass
        /\ DOMAIN owner' = DOMAIN owner
    BY <1>0, <2>1
  <2>7. KeyAt(path)' = KeyAt(path) /\ UNCHANGED <<inodes, path, kept, temp>>
    BY <2>2 DEF KeyAt, disk
  <2>8. Call(c)'
    BY <2>3, <2>4, <2>5, <2>6, <2>7 DEF Call, Busy, Making, Made, Replacing, Opening
  <2>9. Writes(c)
    BY <2>2, <2>3 DEF Writes
  <2> QED
    BY <1>0, <2>2, <2>6, <2>8, <2>9, Quiet, SealingsStay
<1>12. CASE Exit(c)
  BY <1>1, <1>12 DEF Exit
<1> QED
  BY <1>2, <1>3, <1>4, <1>6, <1>7, <1>8, <1>9, <1>10, <1>11, <1>12

-----------------------------------------------------------------------------
\* The steps that write the keystore, and those that confirm a passphrase.

LEMMA WriterSteps ==
  ASSUME KeystoreInv, NEW c \in Commands, VaultStep(c), Writes(c),
         Files', Sealings', Call(c)', DOMAIN db' = DOMAIN db, DOMAIN owner' = DOMAIN owner,
         path # 0 => path' # 0 /\ KeyAt(path)' = KeyAt(path),
         kept # 0 => kept' # 0
  PROVE  KeystoreInv'
<1>1. Shaped /\ \A d \in Commands : Call(d)
  BY DEF KeystoreInv, Shaped, Call
<1>2. Shaped' /\ \A d \in Commands \ {c} : cmd'[d] = cmd[d]
  BY <1>1, CallsShaped
<1>3. OneWriter'
  BY <1>2, WriterStays DEF KeystoreInv
<1>4. \A d \in Commands \ {c} : ~Writes(d)
  BY DEF KeystoreInv, OneWriter
<1>5. \A d \in Commands : Call(d)'
  BY <1>1, <1>2, <1>4, Reader
<1> QED
  BY <1>2, <1>3, <1>5 DEF KeystoreInv, Shaped

\* The list of inodes, and what changing or adding one leaves of the others.
Inodes ==
  /\ \E S : inodes \in Seq(S)
  /\ \A i \in DOMAIN inodes : DOMAIN inodes[i] = {"file", "synced"}

LEMMA Listed ==
  ASSUME Files
  PROVE  Inodes /\ Len(inodes) \in Nat /\ DOMAIN inodes = 1..Len(inodes)
<1>1. PICK S : inodes \in Seq(S)
  BY DEF Files
<1> QED
  BY <1>1, LenProperties DEF Files, Inodes

LEMMA Altered ==
  ASSUME Files, NEW i \in DOMAIN inodes, NEW new, DOMAIN new = {"file", "synced"},
         inodes' = [inodes EXCEPT ![i] = new]
  PROVE  /\ Inodes' /\ Len(inodes') = Len(inodes)
         /\ inodes'[i] = new
         /\ \A j \in DOMAIN inodes \ {i} : inodes'[j] = inodes[j]
<1>1. PICK S : inodes \in Seq(S)
  BY DEF Files
<1>2. inodes \in Seq(S \cup {new})
  BY <1>1, SeqMonotonic
<1>3. inodes' \in Seq(S \cup {new}) /\ Len(inodes') = Len(inodes)
  BY <1>2, ExceptSeq, LenProperties
<1>4. inodes'[i] = new /\ \A j \in DOMAIN inodes \ {i} : inodes'[j] = inodes[j]
  OBVIOUS
<1>5. DOMAIN inodes' = DOMAIN inodes
  OBVIOUS
<1> QED
  BY <1>3, <1>4, <1>5 DEF Inodes, Files

LEMMA Added ==
  ASSUME Files, NEW new, DOMAIN new = {"file", "synced"}, inodes' = Append(inodes, new)
  PROVE  /\ Inodes' /\ Len(inodes') = Len(inodes) + 1
         /\ \A j \in DOMAIN inodes : inodes'[j] = inodes[j]
<1>1. PICK S : inodes \in Seq(S)
  BY DEF Files
<1>2. inodes \in Seq(S \cup {new})
  BY <1>1, SeqMonotonic
<1>3. /\ inodes' \in Seq(S \cup {new}) /\ Len(inodes') = Len(inodes) + 1
      /\ \A j \in 1..Len(inodes) : inodes'[j] = inodes[j]
      /\ inodes'[Len(inodes) + 1] = new
  BY <1>2, AppendProperties
<1>4. Len(inodes) \in Nat /\ DOMAIN inodes = 1..Len(inodes) /\ DOMAIN inodes' = 1..Len(inodes')
  BY <1>2, <1>3, LenProperties
<1>5. \A j \in DOMAIN inodes' : j \in DOMAIN inodes \/ inodes'[j] = new
  BY <1>3, <1>4
<1> QED
  BY <1>3, <1>4, <1>5 DEF Inodes, Files

\* The files a name stands for stay; the sibling is another.
LEMMA SiblingSteps ==
  ASSUME KeystoreInv, NEW c \in Commands, VaultStep(c), Writes(c), Call(c)',
         Inodes', Len(inodes') \in Nat, Len(inodes') >= Len(inodes), temp' \in 1..Len(inodes'), temp' # path, temp' # kept,
         path # 0 => inodes'[path] = inodes[path],
         kept # 0 => inodes'[kept] = inodes[kept],
         UNCHANGED <<path, kept, db, sealed, owner>>
  PROVE  KeystoreInv'
<1>0. Files /\ Sealings
  BY DEF KeystoreInv
<1>1. path # 0 => Held(path)' /\ KeyAt(path)' = KeyAt(path)
  BY <1>0 DEF Files, Held, KeyAt, Known
<1>2. kept # 0 => Held(kept)' /\ KeyAt(kept)' = KeyAt(kept)
  BY <1>0 DEF Files, Held, KeyAt, Known
<1>3. Files'
  <2>1. path' \in 0..Len(inodes') /\ kept' \in 0..Len(inodes') /\ temp' \in 0..Len(inodes')
    BY <1>0 DEF Files
  <2> QED
    BY <1>0, <1>1, <1>2, <2>1 DEF Files, Inodes
<1>4. Sealings'
  BY <1>0, <1>1 DEF Sealings, Files
<1> QED
  BY <1>1, <1>3, <1>4, WriterSteps

LEMMA TruncateStep ==
  ASSUME KeystoreInv, NEW c \in Commands, Truncate(c)
  PROVE  KeystoreInv'
<1>0. /\ Shaped /\ Call(c) /\ Files /\ DOMAIN inodes = 1..Len(inodes) /\ Len(inodes) \in Nat
  BY Listed DEF KeystoreInv, Shaped, Call
<1>1. /\ cmd[c].pc = "truncate" /\ UNCHANGED <<path, kept, db, sealed, owner>>
      /\ cmd' = [cmd EXCEPT ![c] = [@ EXCEPT !.pc = "write", !.ino = temp']]
  BY DEF Truncate
<1>2. Writes(c) /\ cmd[c].run # "use"
  BY <1>0, <1>1 DEF Call, Writes, Replacing
<1>3. /\ cmd'[c].pc = "write" /\ cmd'[c].run = cmd[c].run /\ cmd'[c].pass = cmd[c].pass
      /\ cmd'[c].file = cmd[c].file /\ cmd'[c].ino = temp' /\ DOMAIN cmd'[c] = Fields
  BY <1>0, <1>1 DEF Shaped, Fields
<1>4. /\ Inodes' /\ Len(inodes') \in Nat
      /\ Len(inodes') >= Len(inodes) /\ temp' \in 1..Len(inodes') /\ temp' # path /\ temp' # kept
      /\ path # 0 => inodes'[path] = inodes[path]
      /\ kept # 0 => inodes'[kept] = inodes[kept]
  <2>0. path \in 0..Len(inodes) /\ kept \in 0..Len(inodes) /\ temp \in 0..Len(inodes)
        /\ (temp # 0 => temp # path /\ temp # kept)
    BY <1>0 DEF Files
  <2> DEFINE blank == [file |-> Torn, synced |-> FALSE]
  <2>3. DOMAIN blank = {"file", "synced"}
    OBVIOUS
  <2> HIDE DEF blank
  <2>1. CASE temp = 0
    <3>1. inodes' = Append(inodes, blank) /\ temp' = Len(inodes')
      BY <2>1 DEF Truncate, blank
    <3> QED
      BY <1>0, <2>0, <2>3, <3>1, Added
  <2>2. CASE temp # 0
    <3>1. inodes' = [inodes EXCEPT ![temp] = blank] /\ temp' = temp
      BY <2>2 DEF Truncate, blank
    <3>2. temp \in DOMAIN inodes /\ path \in DOMAIN inodes \cup {0} /\ kept \in DOMAIN inodes \cup {0}
      BY <1>0, <2>0, <2>2
    <3>3. /\ Inodes' /\ Len(inodes') = Len(inodes)
          /\ \A j \in DOMAIN inodes \ {temp} : inodes'[j] = inodes[j]
      BY <1>0, <2>3, <3>1, <3>2, Altered
    <3> QED
      BY <1>0, <2>0, <2>2, <3>1, <3>2, <3>3
  <2> QED
    BY <2>1, <2>2
<1>5. path # 0 => KeyAt(path)' = KeyAt(path)
  BY <1>1, <1>4 DEF KeyAt
<1>6. Call(c)'
  BY <1>0, <1>1, <1>2, <1>3, <1>4, <1>5 DEF Call, Busy, Making, Made, Replacing, Opening
<1> QED
  BY <1>1, <1>2, <1>4, <1>6, SiblingSteps DEF VaultStep

LEMMA WriteStep ==
  ASSUME KeystoreInv, NEW c \in Commands, Write(c) \/ Sync(c)
  PROVE  KeystoreInv'
<1>0. /\ Shaped /\ Call(c) /\ Files /\ DOMAIN inodes = 1..Len(inodes) /\ Len(inodes) \in Nat
      /\ Inodes
  BY Listed DEF KeystoreInv, Shaped, Call
<1>1. /\ cmd[c].pc \in {"write", "sync"} /\ UNCHANGED <<path, kept, temp, db, sealed, owner>>
      /\ cmd[c].ino = temp /\ temp # 0 /\ temp \in 1..Len(inodes) /\ temp # path /\ temp # kept
      /\ path \in 0..Len(inodes) /\ kept \in 0..Len(inodes)
  BY <1>0 DEF Write, Sync, Call, Replacing, Files
<1>2. Writes(c) /\ cmd[c].run # "use"
  BY <1>0, <1>1 DEF Call, Writes, Replacing
<1>3. ASSUME NEW new, DOMAIN new = {"file", "synced"}, new.file = cmd[c].file,
             NEW pc \in {"sync", "rename"}, pc = "rename" => new.synced,
             inodes' = [inodes EXCEPT ![temp] = new], GoOn(c, pc)
      PROVE  KeystoreInv'
  <2>1. /\ Inodes' /\ Len(inodes') = Len(inodes)
        /\ inodes'[temp] = new
        /\ \A j \in DOMAIN inodes \ {temp} : inodes'[j] = inodes[j]
    BY <1>0, <1>1, <1>3, Altered
  <2>2. /\ cmd'[c].pc = pc /\ cmd'[c].run = cmd[c].run /\ cmd'[c].pass = cmd[c].pass
        /\ cmd'[c].file = cmd[c].file /\ cmd'[c].ino = cmd[c].ino /\ DOMAIN cmd'[c] = Fields
    BY <1>0, <1>3, GoesOn
  <2>3. path # 0 => KeyAt(path)' = KeyAt(path) /\ inodes'[path] = inodes[path]
    BY <1>0, <1>1, <2>1 DEF KeyAt
  <2>4. kept # 0 => inodes'[kept] = inodes[kept]
    BY <1>0, <1>1, <2>1
  <2>5. Call(c)'
    BY <1>0, <1>1, <1>2, <1>3, <2>1, <2>2, <2>3 DEF Call, Busy, Making, Made, Replacing, Opening
  <2> QED
    BY <1>0, <1>1, <1>2, <2>1, <2>3, <2>4, <2>5, SiblingSteps DEF VaultStep
<1>4. CASE Write(c)
  <2> DEFINE new == [file |-> cmd[c].file, synced |-> FALSE]
  <2>1. inodes' = [inodes EXCEPT ![temp] = new] /\ GoOn(c, "sync")
    BY <1>1, <1>4 DEF Write, Ino
  <2>2. DOMAIN new = {"file", "synced"} /\ new.file = cmd[c].file
    OBVIOUS
  <2> HIDE DEF new
  <2> QED
    BY <1>3, <2>1, <2>2
<1>5. CASE Sync(c)
  <2> DEFINE new == [inodes[temp] EXCEPT !.synced = TRUE]
  <2>1. inodes' = [inodes EXCEPT ![temp].synced = TRUE] /\ cmd[c].pc = "sync" /\ GoOn(c, "rename")
    BY <1>1, <1>5 DEF Sync, Ino
  <2>2. inodes[temp].file = cmd[c].file /\ DOMAIN inodes[temp] = {"file", "synced"}
    BY <1>0, <1>1, <2>1 DEF Call, Inodes
  <2>3. DOMAIN new = {"file", "synced"} /\ new.file = cmd[c].file /\ new.synced
    BY <2>2
  <2>4. inodes' = [inodes EXCEPT ![temp] = new]
    BY <2>1
  <2> HIDE DEF new
  <2> QED
    BY <1>3, <2>1, <2>3, <2>4
<1> QED
  BY <1>4, <1>5

\* The file a name stands for opens with a passphrase in hand.
LEMMA Settled ==
  ASSUME Files, NEW file, NEW pass, Full(file), Opens(file, pass), pass \in Known',
         path # 0, inodes[path].file = file,
         UNCHANGED <<inodes, path, temp>>, kept' = path
  PROVE  Files' /\ KeyAt(path)' = KeyAt(path)
<1>1. Intact(inodes[path].file) /\ Opens(Parsed(inodes[path].file), pass)
  BY ParsedFile DEF Full
<1>2. Held(path)'
  BY <1>1 DEF Held, Files
<1>3. KeyAt(path)' = KeyAt(path) /\ KeyAt(kept)' = KeyAt(path)'
  BY DEF KeyAt
<1>4. kept' \in 0..Len(inodes') /\ (temp' # 0 => temp' # path' /\ temp' # kept')
  BY DEF Files
<1> QED
  BY <1>2, <1>3, <1>4 DEF Files, Held

\* Whose passphrase is confirmed is the only one at work.
LEMMA Confirmed ==
  ASSUME KeystoreInv, NEW c \in Commands, Confirm(c)
  PROVE  cmd[c].pass \in Known' /\ DOMAIN owner' = DOMAIN owner
BY DEF Confirm, Known, KeystoreInv

LEMMA RenameStep ==
  ASSUME KeystoreInv, NEW c \in Commands, Rename(c)
  PROVE  KeystoreInv'
<1>0. /\ Shaped /\ Call(c) /\ Files /\ Sealings
  BY DEF KeystoreInv, Shaped, Call
<1>1. /\ cmd[c].pc = "rename" /\ UNCHANGED <<inodes, kept, db, sealed, owner>>
      /\ temp # 0 /\ path' = temp /\ temp' = 0 /\ GoOn(c, "dirsync")
      /\ inodes[temp].file = cmd[c].file /\ inodes[temp].synced
  BY <1>0 DEF Rename, Call, Replacing
<1>2. /\ Writes(c) /\ cmd[c].run \in {"init", "passphrase"}
      /\ Full(cmd[c].file) /\ Opens(cmd[c].file, cmd[c].pass) /\ cmd[c].pass \in owner.setting
  BY <1>0, <1>1 DEF Call, Writes, Replacing, Busy
<1>3. /\ path # 0 => Key(cmd[c].file) = KeyAt(path) /\ cmd[c].run = "passphrase"
      /\ path = 0 => cmd[c].run = "init"
  BY <1>0, <1>1, <1>2 DEF Call, Busy, Making, Replacing
<1>4. Held(path)' /\ KeyAt(path)' = Key(cmd[c].file)
  BY <1>1, <1>2, ParsedFile DEF Held, KeyAt, Full, Known
<1>5. path # 0 => path' # 0 /\ KeyAt(path)' = KeyAt(path)
  BY <1>1, <1>3, <1>4
<1>6. kept # 0 => Held(kept)' /\ KeyAt(kept)' = KeyAt(kept) /\ path # 0 /\ KeyAt(kept) = KeyAt(path)
  BY <1>0, <1>1 DEF Files, Held, KeyAt, Known
<1>7. Files'
  <2>1. path' \in 0..Len(inodes') /\ kept' \in 0..Len(inodes') /\ temp' \in 0..Len(inodes')
    BY <1>0, <1>1, Listed DEF Files
  <2> QED
    BY <1>0, <1>1, <1>4, <1>5, <1>6, <2>1 DEF Files
<1>8. Sealings'
  BY <1>0, <1>1, <1>5, <1>6 DEF Sealings
<1>9. /\ cmd'[c].pc = "dirsync" /\ cmd'[c].run = cmd[c].run /\ cmd'[c].pass = cmd[c].pass
      /\ cmd'[c].file = cmd[c].file /\ cmd'[c].ino = cmd[c].ino /\ DOMAIN cmd'[c] = Fields
  BY <1>0, <1>1, GoesOn
<1>10. Call(c)'
  BY <1>0, <1>1, <1>2, <1>4, <1>9 DEF Call, Busy, Making, Made, Replacing, Opening
<1> QED
  BY <1>1, <1>2, <1>5, <1>7, <1>8, <1>10, WriterSteps DEF VaultStep

LEMMA SyncDirectoryStep ==
  ASSUME KeystoreInv, NEW c \in Commands, SyncDirectory(c)
  PROVE  KeystoreInv'
<1>0. /\ Shaped /\ Call(c) /\ Files /\ Sealings
  BY DEF KeystoreInv, Shaped, Call
<1>1. cmd[c].pc = "dirsync" /\ UNCHANGED <<inodes, path, temp, db, sealed>> /\ kept' = path
  BY DEF SyncDirectory
<1>2. /\ Writes(c) /\ cmd[c].run \in {"init", "passphrase"}
      /\ Full(cmd[c].file) /\ Opens(cmd[c].file, cmd[c].pass) /\ cmd[c].pass \in owner.setting
      /\ path # 0 /\ Key(cmd[c].file) = KeyAt(path) /\ inodes[path].file = cmd[c].file
  BY <1>0, <1>1 DEF Call, Writes, Making, Replacing, Busy
<1>3. cmd[c].pass \in Known' /\ DOMAIN owner' = DOMAIN owner
  BY <1>2, Confirmed DEF SyncDirectory, Known
<1>4. Files' /\ KeyAt(path)' = KeyAt(path)
  BY <1>0, <1>1, <1>2, <1>3, Settled
<1>5. Sealings'
  BY <1>0, <1>1, <1>2, <1>4 DEF Sealings
<1>6. CASE cmd[c].run = "init"
  <2>1. /\ cmd'[c].pc = "store" /\ cmd'[c].run = cmd[c].run /\ cmd'[c].pass = cmd[c].pass
        /\ cmd'[c].file = cmd[c].file /\ DOMAIN cmd'[c] = Fields /\ owner' = owner
    BY <1>0, <1>6, GoesOn DEF SyncDirectory
  <2>2. Call(c)'
    BY <1>1, <1>2, <1>4, <1>6, <2>1 DEF Call, Busy, Making, Made, Replacing, Opening
  <2> QED
    BY <1>1, <1>2, <1>3, <1>4, <1>5, <2>2, WriterSteps DEF VaultStep
<1>7. CASE cmd[c].run # "init"
  <2>1. /\ cmd'[c].pc = "open" /\ cmd'[c].run = cmd[c].run /\ cmd'[c].pass = cmd[c].pass
        /\ cmd'[c].file = cmd[c].file /\ DOMAIN cmd'[c] = Fields
    BY <1>0, <1>7, GoesOn DEF SyncDirectory
  <2>2. Call(c)'
    BY <1>1, <1>2, <1>4, <1>7, <2>1 DEF Call, Busy, Making, Made, Replacing, Opening
  <2> QED
    BY <1>1, <1>2, <1>3, <1>4, <1>5, <2>2, WriterSteps DEF VaultStep
<1> QED
  BY <1>6, <1>7

LEMMA WriteChainKeyStep ==
  ASSUME KeystoreInv, NEW c \in Commands, WriteChainKey(c)
  PROVE  KeystoreInv'
<1>0. /\ Shaped /\ Call(c) /\ Files /\ Sealings /\ DOMAIN db = {"begun", "version", "meta"}
  BY DEF KeystoreInv, Shaped, Call
<1>1. /\ cmd[c].pc = "chain" /\ cmd[c].run = "init" /\ UNCHANGED <<inodes, path, kept, temp, sealed>>
      /\ DOMAIN db' = DOMAIN db
  BY <1>0 DEF WriteChainKey, disk
<1>2. /\ Writes(c) /\ Made(c)
      /\ Full(cmd[c].file) /\ Opens(cmd[c].file, cmd[c].pass) /\ cmd[c].pass \in owner.setting
      /\ path # 0 /\ Key(cmd[c].file) = KeyAt(path) /\ inodes[path].file = cmd[c].file /\ kept = path
  BY <1>0, <1>1 DEF Call, Writes, Making, Made, Replacing, Opening, Busy
<1>3. cmd[c].pass \in Known' /\ DOMAIN owner' = DOMAIN owner
  BY <1>2, Confirmed DEF WriteChainKey, Known
<1>4. Files' /\ KeyAt(path)' = KeyAt(path)
  BY <1>0, <1>1, <1>2, <1>3, Settled
<1>5. Sealings'
  BY <1>0, <1>1, <1>2, <1>4 DEF Sealings
<1>6. CASE cmd[c].key = Len(ChainKeys)
  <2>1. /\ cmd'[c].pc = "open" /\ cmd'[c].run = cmd[c].run /\ cmd'[c].pass = cmd[c].pass
        /\ cmd'[c].file = cmd[c].file /\ DOMAIN cmd'[c] = Fields
    BY <1>0, <1>6, GoesOn DEF WriteChainKey
  <2>2. Call(c)'
    BY <1>1, <1>2, <1>4, <2>1 DEF Call, Busy, Making, Made, Replacing, Opening
  <2> QED
    BY <1>1, <1>2, <1>3, <1>4, <1>5, <2>2, WriterSteps DEF VaultStep
<1>7. CASE cmd[c].key # Len(ChainKeys)
  <2>1. /\ cmd'[c].pc = cmd[c].pc /\ cmd'[c].run = cmd[c].run /\ cmd'[c].pass = cmd[c].pass
        /\ cmd'[c].file = cmd[c].file /\ DOMAIN cmd'[c] = Fields /\ owner' = owner
    BY <1>0, <1>7 DEF WriteChainKey, Shaped, Fields
  <2>2. Call(c)'
    BY <1>1, <1>2, <1>4, <2>1 DEF Call, Busy, Making, Made, Replacing, Opening
  <2> QED
    BY <1>1, <1>2, <1>3, <1>4, <1>5, <2>2, WriterSteps DEF VaultStep
<1> QED
  BY <1>6, <1>7

-----------------------------------------------------------------------------
LEMMA SameLength ==
  ASSUME NEW m \in Nat, NEW n \in Nat, 1..m = 1..n
  PROVE  m = n
<1>1. m \in 1..m \/ m = 0
  OBVIOUS
<1>2. n \in 1..n \/ n = 0
  OBVIOUS
<1>3. m <= n
  BY <1>1
<1>4. n <= m
  BY <1>2
<1> QED
  BY <1>3, <1>4

\* After a power loss one of the two files is there, and it is whole.
LEMMA PowerLossStep ==
  ASSUME KeystoreInv, PowerLoss
  PROVE  KeystoreInv'
<1>0. Files /\ Sealings /\ Inodes /\ Len(inodes) \in Nat /\ DOMAIN inodes = 1..Len(inodes)
  BY Listed DEF KeystoreInv
<1>1. PICK lost \in SUBSET {i \in DOMAIN inodes : ~inodes[i].synced} :
        inodes' = [i \in DOMAIN inodes |->
                     [file |-> IF i \in lost THEN Torn ELSE inodes[i].file, synced |-> TRUE]]
  BY DEF PowerLoss
<1>2. /\ path' \in {path, kept} /\ kept' = path' /\ temp' \in {temp, 0}
      /\ UNCHANGED <<db, sealed, owner>>
      /\ cmd' = [c \in Commands |-> NoCommand]
  BY DEF PowerLoss
<1>3. Len(inodes') = Len(inodes) /\ Inodes'
  <2> DEFINE S == {inodes'[i] : i \in DOMAIN inodes}
  <2>1. inodes' \in [1..Len(inodes) -> S]
    BY <1>0, <1>1
  <2>2. inodes' \in Seq(S)
    BY <1>0, <2>1, SeqDef
  <2>3. \A i \in DOMAIN inodes' : DOMAIN inodes'[i] = {"file", "synced"}
    BY <1>1
  <2>4. DOMAIN inodes' = 1..Len(inodes') /\ DOMAIN inodes' = 1..Len(inodes) /\ Len(inodes') \in Nat
    BY <2>1, <2>2, LenProperties
  <2> HIDE DEF S
  <2>5. \E T : inodes' \in Seq(T)
    BY <2>2
  <2>6. Len(inodes') = Len(inodes)
    BY <1>0, <2>4, SameLength
  <2> QED
    BY <2>3, <2>5, <2>6 DEF Inodes
<1>4. \A i \in DOMAIN inodes : inodes[i].synced => inodes'[i].file = inodes[i].file /\ inodes'[i].synced
  BY <1>1
<1>5. \A i \in {path, kept} : i # 0 => i \in DOMAIN inodes /\ Held(i)
  BY <1>0 DEF Files
<1>6. \A i \in {path, kept} : i # 0 =>
        /\ inodes'[i].synced /\ Intact(inodes'[i].file)
        /\ (\E pass \in Known' : Opens(Parsed(inodes'[i].file), pass))
        /\ Key(Parsed(inodes'[i].file)) = KeyAt(i)
  BY <1>2, <1>4, <1>5 DEF Held, KeyAt, Known
<1>7. path' # 0 => Held(path)'
  BY <1>2, <1>6 DEF Held
<1>8. kept # 0 => path' # 0 /\ KeyAt(path)' = KeyAt(path)
  BY <1>0, <1>2, <1>6 DEF KeyAt, Files
<1>9. Files'
  <2>1. path' \in 0..Len(inodes') /\ kept' \in 0..Len(inodes') /\ temp' \in 0..Len(inodes')
        /\ (temp' # 0 => temp' # path' /\ temp' # kept')
    BY <1>0, <1>2, <1>3 DEF Files
  <2>2. Held(kept)' = Held(path)' /\ KeyAt(kept)' = KeyAt(path)'
    BY <1>2 DEF Held, KeyAt
  <2> QED
    BY <1>2, <1>3, <1>7, <2>1, <2>2 DEF Files, Inodes
<1>10. Sealings'
  BY <1>0, <1>2, <1>8 DEF Sealings
<1>11. /\ NoCommand.pc = "none" /\ NoCommand.run = "none" /\ DOMAIN NoCommand = Fields
  BY DEF NoCommand, Fields
<1>12. \A c \in Commands : cmd'[c] = NoCommand
  BY <1>2
<1>13. \A c \in Commands : Call(c)' /\ ~Writes(c)'
  BY <1>11, <1>12 DEF Call, Busy, Making, Made, Replacing, Opening, Writes
<1> QED
  BY <1>2, <1>9, <1>10, <1>13 DEF KeystoreInv, OneWriter

\* The vaults there may be at the start.
LEMMA OldKeystore ==
  Intact(OldFile) /\ Opens(Parsed(OldFile), "first") /\ Key(Parsed(OldFile)) = Account("identity", <<"old">>)
<1>1. /\ DOMAIN OldFile = FileFields /\ OldFile.version = 1
      /\ OldFile.seed = Wrap(Kek("first", <<"old", 0>>), <<"old">>, "n", SeedAad)
      /\ OldFile.pubkey = Account("identity", <<"old">>)
      /\ OldFile.dek = "absent" /\ OldFile.identity = "absent"
  BY DEF OldFile, FileFields
<1> DEFINE file == Parsed(OldFile)
<1>2. /\ file.seed = OldFile.seed /\ file.pubkey = OldFile.pubkey
      /\ file.dek = "identity" /\ file.identity = "seed"
  BY <1>1 DEF Parsed, FileFields
<1> HIDE DEF file
<1>3. /\ file.seed.kek = <<"first", <<"old", 0>>>> /\ file.seed.what = <<"old">> /\ file.seed.aad = SeedAad
  BY <1>1, <1>2 DEF Wrap, Kek
<1>4. Kek("first", file.seed.kek[2]) = file.seed.kek
  BY <1>3 DEF Kek
<1>5. Opens(file, "first") /\ Key(file) = Account("identity", <<"old">>)
  BY <1>1, <1>2, <1>3, <1>4 DEF Opens, Unwraps, Key
<1> QED
  BY <1>1, <1>5 DEF Intact, KeystoreVersion, file

LEMMA KeystoreInit ==
  ASSUME VaultInit
  PROVE  KeystoreInv
<1>1. /\ temp = 0 /\ kept = path /\ path = Len(inodes)
      /\ cmd = [c \in Commands |-> NoCommand]
      /\ owner = [pass |-> "first", setting |-> {}]
  BY DEF VaultInit
<1>2. /\ NoCommand.pc = "none" /\ NoCommand.run = "none" /\ DOMAIN NoCommand = Fields
  BY DEF NoCommand, Fields
<1>3. \A c \in Commands : cmd[c] = NoCommand
  BY <1>1
<1>4. \A c \in Commands : Call(c) /\ ~Writes(c)
  BY <1>2, <1>3 DEF Call, Busy, Making, Made, Replacing, Opening, Writes
<1>5. PICK o \in Origins : inodes = Origin(o).file /\ db = Origin(o).db /\ sealed = Origin(o).sealed
  BY DEF VaultInit
<1>6. DOMAIN db = {"begun", "version", "meta"} /\ DOMAIN owner = {"pass", "setting"}
  BY <1>1, <1>5, VaultAssumption DEF Origin, NoStore, Store
<1>7. Files /\ Sealings
  <2>1. CASE o = "none"
    <3>1. inodes = <<>> /\ sealed = {} /\ db.meta = {}
      BY <1>5, <2>1 DEF Origin, NoStore
    <3>2. inodes \in Seq({}) /\ Len(inodes) = 0 /\ path = 0 /\ DOMAIN inodes = {}
      BY <1>1, <3>1
    <3> QED
      BY <1>1, <3>1, <3>2 DEF Files, Sealings
  <2>2. CASE o # "none"
    <3> DEFINE node == [file |-> OldFile, synced |-> TRUE]
    <3>1. inodes = <<node>> /\ sealed = {Account("identity", <<"old">>)}
      BY <1>5, <2>2 DEF Origin
    <3>2. node.file = OldFile /\ node.synced /\ DOMAIN node = {"file", "synced"}
      OBVIOUS
    <3> HIDE DEF node
    <3>3. inodes \in Seq({node}) /\ Len(inodes) = 1 /\ path = 1 /\ inodes[1] = node /\ DOMAIN inodes = {1}
      BY <1>1, <3>1
    <3>4. Held(path) /\ KeyAt(path) = Account("identity", <<"old">>)
      BY <1>1, <3>2, <3>3, OldKeystore DEF Held, KeyAt, Known
    <3>5. path \in 0..Len(inodes) /\ \E S : inodes \in Seq(S)
      BY <3>3
    <3>6. Files
      BY <1>1, <3>2, <3>3, <3>4, <3>5 DEF Files
    <3>7. Sealings
      BY <1>1, <3>1, <3>3, <3>4 DEF Sealings
    <3> QED
      BY <3>6, <3>7
  <2> QED
    BY <2>1, <2>2
<1> QED
  BY <1>1, <1>4, <1>6, <1>7 DEF KeystoreInv, OneWriter

LEMMA KeystoreStep ==
  ASSUME KeystoreInv, ~Overlap, [VaultNext]_vaultVars
  PROVE  KeystoreInv'
<1>1. CASE PowerLoss
  BY <1>1, PowerLossStep
<1>2. ASSUME NEW c \in Commands, VaultStep(c) PROVE KeystoreInv'
  BY <1>2, QuietSteps, TruncateStep, WriteStep, RenameStep, SyncDirectoryStep, WriteChainKeyStep DEF VaultStep
<1>3. CASE UNCHANGED vaultVars
  <2>1. UNCHANGED <<disk, db, sealed, cmd, owner>>
    BY <1>3 DEF vaultVars
  <2>2. Files' /\ Sealings'
    BY <2>1, FilesStay, SealingsStay DEF KeystoreInv, Known
  <2>3. \A c \in Commands : Call(c)'
    BY <2>1, Bystander DEF KeystoreInv
  <2>4. OneWriter'
    BY <2>1 DEF KeystoreInv, OneWriter, Writes
  <2> QED
    BY <2>1, <2>2, <2>3, <2>4 DEF KeystoreInv
<1> QED
  BY <1>1, <1>2, <1>3 DEF VaultNext

LEMMA KeystoreSays ==
  ASSUME KeystoreInv
  PROVE  RowsStayReadable
<1>1. SUFFICES ASSUME NEW dek \in sealed
               PROVE  /\ path # 0 /\ Legible(OnDisk)
                      /\ \E pass \in Known : Unlocked(Parsed(OnDisk), pass).dek = dek
  BY DEF RowsStayReadable, Known
<1>2. path # 0 /\ Held(path) /\ dek = KeyAt(path)
  BY <1>1 DEF KeystoreInv, Sealings, Files
<1>3. Legible(OnDisk)
  BY <1>2, TornIsNotIntact DEF Held, OnDisk
<1>4. PICK pass \in Known : Opens(Parsed(inodes[path].file), pass)
  BY <1>2 DEF Held
<1>5. Unlocked(Parsed(OnDisk), pass).dek = dek
  BY <1>2, <1>4, OpensGivesKey DEF OnDisk, KeyAt
<1> QED
  BY <1>2, <1>3, <1>5

\* Whatever dies when - a command, or the machine between a write, its sync,
\* the rename and the sync of the directory - the keystore on disk opens with
\* the passphrase last confirmed or with one being set, and gives the key of
\* every row (ghostr-crypto/src/keystore.rs, write_private and
\* change_passphrase): for any number of commands and power losses, as long as
\* no two commands write the keystore at once.
THEOREM KeystoreHolds ==
  ASSUME ~Overlap
  PROVE  VaultSpec => []RowsStayReadable
<1>1. KeystoreInv /\ [VaultNext]_vaultVars => KeystoreInv'
  BY KeystoreStep
<1>2. VaultInit => KeystoreInv
  BY KeystoreInit
<1>3. KeystoreInv => RowsStayReadable
  BY KeystoreSays
<1> QED
  BY <1>1, <1>2, <1>3, PTL DEF VaultSpec

-----------------------------------------------------------------------------
\* Induction over the naturals, by the least counterexample.

LEMMA LeastNat ==
  ASSUME NEW T \in SUBSET Nat, T # {}
  PROVE  \E n \in T : \A m \in T : n <= m
<1> DEFINE Below == {1 .. m : m \in T}
           Smaller == StrictSubsetOrdering(Nat)
<1>1. IsWellFoundedOn(Smaller, FiniteSubsetsOf(Nat))
  BY FS_StrictSubsetOrderingWellFounded
<1>2. Below \subseteq FiniteSubsetsOf(Nat) /\ Below # {}
  <2>1. \A m \in T : 1 .. m \in SUBSET Nat /\ IsFiniteSet(1 .. m)
    BY FS_Interval
  <2> QED
    BY <2>1 DEF FiniteSubsetsOf
<1>3. PICK x \in Below : \A y \in Below : ~ (<<y, x>> \in Smaller)
  <2> HIDE DEF Below, Smaller
  <2> QED
    BY <1>1, <1>2, WFMin
<1>4. PICK n \in T : x = 1 .. n
  OBVIOUS
<1>5. ASSUME NEW m \in T, m < n PROVE FALSE
  <2>1. 1 .. m \subseteq 1 .. n /\ n \in 1 .. n /\ n \notin 1 .. m
    BY <1>5
  <2>2. <<1 .. m, 1 .. n>> \in Smaller
    BY <2>1 DEF StrictSubsetOrdering
  <2> QED
    BY <1>3, <1>4, <2>2
<1> QED
  BY <1>5

LEMMA CourseOfValues ==
  ASSUME NEW T \in SUBSET Nat,
         \A n \in Nat : (\A m \in Nat : m < n => m \in T) => n \in T
  PROVE  \A n \in Nat : n \in T
<1>1. SUFFICES ASSUME Nat \ T # {} PROVE FALSE
  OBVIOUS
<1>2. PICK n \in Nat \ T : \A m \in Nat \ T : n <= m
  BY <1>1, LeastNat
<1>3. \A m \in Nat : m < n => m \in T
  BY <1>2
<1> QED
  BY <1>2, <1>3

-----------------------------------------------------------------------------
\* The labels of a spreadsheet's columns: no two numbers share one.

LEMMA Quotient ==
  ASSUME NEW n \in Nat, n >= Letters
  PROVE  /\ n \div Letters - 1 \in Nat /\ n \div Letters - 1 < n
         /\ \A m \in Nat : m \div Letters = n \div Letters /\ m % Letters = n % Letters => m = n
         /\ n % Letters \in Nat
<1>1. Letters \in Nat \ {0}
  BY IndexAssumption
<1>2. n \div Letters \in Nat /\ n % Letters \in Nat
  BY <1>1
<1>3. n \div Letters >= 1
  BY <1>1
<1>4. n \div Letters <= n
  BY <1>1
<1>5. ASSUME NEW m \in Nat, m \div Letters = n \div Letters, m % Letters = n % Letters
      PROVE  m = n
  BY <1>1, <1>5
<1> QED
  BY <1>2, <1>3, <1>4, <1>5

LabelsUpTo(n, f) ==
  f = [m \in 0..n |-> IF m < Letters THEN <<m>> ELSE Append(f[m \div Letters - 1], m % Letters)]

LEMMA LabelsExist ==
  ASSUME NEW n \in Nat
  PROVE  \E f : LabelsUpTo(n, f)
<1> DEFINE T == {k \in Nat : \E f : LabelsUpTo(k, f)}
<1>1. ASSUME NEW k \in Nat, \A m \in Nat : m < k => m \in T
      PROVE  k \in T
  <2>1. PICK f : k > 0 => LabelsUpTo(k - 1, f)
    BY <1>1
  <2> DEFINE g == [m \in 0..k |-> IF m < Letters THEN <<m>> ELSE Append(f[m \div Letters - 1], m % Letters)]
  <2>2. ASSUME NEW m \in 0..k, ~(m < Letters)
        PROVE  g[m \div Letters - 1] = f[m \div Letters - 1]
    <3> DEFINE i == m \div Letters - 1
    <3>1. i \in 0..(k - 1) /\ k > 0
      <4>1. i \in Nat /\ i < m
        BY <2>2, Quotient, IndexAssumption
      <4> HIDE DEF i
      <4> QED
        BY <4>1
    <3> HIDE DEF i
    <3>2. f[i] = (IF i < Letters THEN <<i>> ELSE Append(f[i \div Letters - 1], i % Letters))
      BY <2>1, <3>1 DEF LabelsUpTo
    <3>3. g[i] = (IF i < Letters THEN <<i>> ELSE Append(f[i \div Letters - 1], i % Letters))
      BY <3>1
    <3> QED
      BY <3>2, <3>3 DEF i
  <2>3. g = [m \in 0..k |-> IF m < Letters THEN <<m>> ELSE Append(g[m \div Letters - 1], m % Letters)]
    BY <2>2
  <2> HIDE DEF g
  <2>4. LabelsUpTo(k, g)
    BY <2>3 DEF LabelsUpTo
  <2> QED
    BY <2>4
<1> HIDE DEF T
<1>2. T \in SUBSET Nat
  BY DEF T
<1>3. \A k \in Nat : k \in T
  BY <1>1, <1>2, CourseOfValues
<1> QED
  BY <1>3 DEF T

\* The function that Label applies.
Labels(n) == CHOOSE f : LabelsUpTo(n, f)

LEMMA LabelIsOfLabels ==
  ASSUME NEW n \in Nat
  PROVE  LabelsUpTo(n, Labels(n)) /\ Label(n) = Labels(n)[n]
<1>1. LabelsUpTo(n, Labels(n))
  BY LabelsExist DEF Labels
<1>2. Label(n) = Labels(n)[n]
  BY DEF Label, Labels, LabelsUpTo
<1> QED
  BY <1>1, <1>2

LEMMA LabelsAgree ==
  \A m \in Nat : \A n \in Nat : \A f : m <= n /\ LabelsUpTo(n, f) => f[m] = Label(m)
<1> DEFINE T == {k \in Nat : \A n \in Nat : \A f : k <= n /\ LabelsUpTo(n, f) => f[k] = Label(k)}
<1>1. ASSUME NEW k \in Nat, \A m \in Nat : m < k => m \in T
      PROVE  k \in T
  <2>1. ASSUME NEW n \in Nat, NEW f, k <= n, LabelsUpTo(n, f)
        PROVE  f[k] = Label(k)
    <3> DEFINE g == Labels(k)
               i == k \div Letters - 1
    <3>1. LabelsUpTo(k, g) /\ Label(k) = g[k]
      BY LabelIsOfLabels
    <3> HIDE DEF g
    <3>4. k \in 0..n /\ k \in 0..k
      BY <2>1
    <3>2. /\ f[k] = (IF k < Letters THEN <<k>> ELSE Append(f[i], k % Letters))
          /\ g[k] = (IF k < Letters THEN <<k>> ELSE Append(g[i], k % Letters))
      BY <2>1, <3>1, <3>4 DEF LabelsUpTo
    <3>3. ~(k < Letters) => f[i] = Label(i) /\ g[i] = Label(i)
      <4>1. SUFFICES ASSUME ~(k < Letters) PROVE f[i] = Label(i) /\ g[i] = Label(i)
        OBVIOUS
      <4>2. i \in Nat /\ i < k
        BY <4>1, Quotient, IndexAssumption
      <4> HIDE DEF i
      <4>3. i \in T /\ i <= n /\ i <= k
        BY <1>1, <2>1, <4>2
      <4> QED
        BY <2>1, <3>1, <4>3
    <3> HIDE DEF i
    <3> QED
      BY <3>1, <3>2, <3>3
  <2> QED
    BY <2>1
<1> HIDE DEF T
<1>2. T \in SUBSET Nat
  BY DEF T
<1>3. \A k \in Nat : k \in T
  BY <1>1, <1>2, CourseOfValues
<1> QED
  BY <1>3 DEF T

LEMMA LabelStep ==
  ASSUME NEW n \in Nat
  PROVE  /\ n < Letters => Label(n) = <<n>>
         /\ n >= Letters => Label(n) = Append(Label(n \div Letters - 1), n % Letters)
<1> DEFINE f == Labels(n)
           i == n \div Letters - 1
<1>1. LabelsUpTo(n, f) /\ Label(n) = f[n]
  BY LabelIsOfLabels
<1> HIDE DEF f
<1>5. n \in 0..n
  OBVIOUS
<1>2. f[n] = (IF n < Letters THEN <<n>> ELSE Append(f[i], n % Letters))
  BY <1>1, <1>5 DEF LabelsUpTo
<1>3. n >= Letters => f[i] = Label(i)
  BY <1>1, Quotient, LabelsAgree
<1> HIDE DEF i
<1>4. ~(n < Letters) <=> n >= Letters
  BY IndexAssumption
<1> QED
  BY <1>1, <1>2, <1>3, <1>4 DEF i

LEMMA LabelType ==
  \A n \in Nat : Label(n) \in Seq(Nat) /\ Len(Label(n)) >= 1
<1> DEFINE T == {k \in Nat : Label(k) \in Seq(Nat) /\ Len(Label(k)) >= 1}
<1>1. ASSUME NEW k \in Nat, \A m \in Nat : m < k => m \in T
      PROVE  k \in T
  <2>1. CASE k < Letters
    <3>1. Label(k) = <<k>> /\ <<k>> \in Seq(Nat) /\ Len(<<k>>) = 1
      BY <2>1, LabelStep
    <3> QED
      BY <3>1
  <2>2. CASE k >= Letters
    <3> DEFINE i == k \div Letters - 1
    <3>1. i \in Nat /\ i < k /\ k % Letters \in Nat /\ Label(k) = Append(Label(i), k % Letters)
      BY <2>2, Quotient, LabelStep
    <3> HIDE DEF i
    <3>2. Label(i) \in Seq(Nat) /\ Len(Label(i)) >= 1
      BY <1>1, <3>1
    <3>3. Label(k) \in Seq(Nat) /\ Len(Label(k)) = Len(Label(i)) + 1
      BY <3>1, <3>2, AppendProperties
    <3> QED
      BY <3>2, <3>3, LenProperties
  <2> QED
    BY <2>1, <2>2, IndexAssumption
<1> HIDE DEF T
<1>2. T \in SUBSET Nat
  BY DEF T
<1>3. \A k \in Nat : k \in T
  BY <1>1, <1>2, CourseOfValues
<1> QED
  BY <1>3 DEF T

\* Counting goes on after the last letter, and never comes back to a label it
\* has given (ghostr-store/src/sqlite.rs, spreadsheet_label).
THEOREM LabelsDiffer ==
  \A m, n \in Nat : Label(m) = Label(n) => m = n
<1> DEFINE T == {k \in Nat : \A n \in Nat : Label(k) = Label(n) => k = n}
           i(k) == k \div Letters - 1
<1>0. ASSUME NEW k \in Nat, k >= Letters
      PROVE  /\ i(k) \in Nat /\ i(k) < k /\ k % Letters \in Nat /\ Label(i(k)) \in Seq(Nat)
             /\ Len(Label(i(k))) >= 1 /\ Label(k) = Append(Label(i(k)), k % Letters)
  BY <1>0, Quotient, LabelStep, LabelType
<1>1. ASSUME NEW k \in Nat, \A m \in Nat : m < k => m \in T
      PROVE  k \in T
  <2>1. SUFFICES ASSUME NEW n \in Nat, Label(k) = Label(n) PROVE k = n
    OBVIOUS
  <2>2. CASE k < Letters /\ n < Letters
    BY <2>1, <2>2, LabelStep
  <2>3. ASSUME NEW p \in Nat, NEW r \in Nat, Label(p) = Label(r), p < Letters, r >= Letters PROVE FALSE
    <3>1. Len(Label(p)) = 1
      BY <2>3, LabelStep
    <3>2. /\ Label(i(r)) \in Seq(Nat) /\ Len(Label(i(r))) >= 1 /\ r % Letters \in Nat
          /\ Label(r) = Append(Label(i(r)), r % Letters)
      BY <1>0, <2>3
    <3>3. Len(Label(r)) = Len(Label(i(r))) + 1
      BY <3>2, AppendProperties
    <3> QED
      BY <2>3, <3>1, <3>2, <3>3, LenProperties
  <2>4. CASE k >= Letters /\ n >= Letters
    <3>1. /\ Label(i(k)) \in Seq(Nat) /\ Label(i(n)) \in Seq(Nat)
          /\ Append(Label(i(k)), k % Letters) = Append(Label(i(n)), n % Letters)
          /\ k % Letters \in Nat /\ n % Letters \in Nat /\ i(k) \in Nat /\ i(n) \in Nat /\ i(k) < k
      BY <1>0, <2>1, <2>4
    <3>2. Label(i(k)) = Label(i(n)) /\ k % Letters = n % Letters
      <4> HIDE DEF i
      <4> QED
        BY <3>1, AppendInjective
    <3>3. i(k) \in T
      BY <1>1, <3>1
    <3>4. i(k) = i(n)
      BY <3>1, <3>2, <3>3
    <3>5. k \div Letters = n \div Letters
      BY <3>1, <3>4, IndexAssumption
    <3> QED
      BY <2>4, <3>2, <3>5, Quotient
  <2> QED
    BY <2>2, <2>3, <2>4, <2>1, IndexAssumption
<1> HIDE DEF T
<1>2. T \in SUBSET Nat
  BY DEF T
<1>3. \A k \in Nat : k \in T
  BY <1>1, <1>2, CourseOfValues
<1> QED
  BY <1>3 DEF T

-----------------------------------------------------------------------------
\* People.

\* How many of the first n entities are of a kind.
KindUpTo(n, kind) == {j \in 1..n : entities[j].kind = kind}

\* Whoever resolves a name alone has counted what there is.
PeopleInv ==
  /\ DOMAIN hand = Hands
  /\ \E S : entities \in Seq(S)
  /\ \A i \in DOMAIN entities : entities[i].tag = NameTag(entities[i].written)
  /\ \A i, j \in DOMAIN entities : entities[i].tag = entities[j].tag => i = j
  /\ together \in BOOLEAN
  /\ ~together => \A g, h \in Hands : Resolving(g) /\ Resolving(h) => g = h
  /\ ~together => \A h \in Hands :
       hand[h].pc = "insert" => hand[h].pseudonym = Label(OfKind(hand[h].kind))
  /\ ~together => \A i \in DOMAIN entities :
       entities[i].pseudonym = Label(Cardinality(KindUpTo(i - 1, entities[i].kind)))

LEMMA KindsAreFinite ==
  ASSUME NEW n \in Nat, NEW kind
  PROVE  IsFiniteSet(KindUpTo(n, kind)) /\ Cardinality(KindUpTo(n, kind)) \in Nat
<1>1. IsFiniteSet(1..n)
  BY FS_Interval
<1>2. KindUpTo(n, kind) \in SUBSET (1..n)
  BY DEF KindUpTo
<1> QED
  BY <1>1, <1>2, FS_Subset, FS_CardinalityType

LEMMA LaterCountsMore ==
  ASSUME NEW i \in Nat \ {0}, NEW j \in Nat, i < j, NEW kind, entities[i].kind = kind
  PROVE  Cardinality(KindUpTo(i - 1, kind)) < Cardinality(KindUpTo(j - 1, kind))
<1> DEFINE A == KindUpTo(i - 1, kind)
           B == KindUpTo(j - 1, kind)
<1>1. A \cup {i} \in SUBSET B /\ i \notin A
  BY DEF KindUpTo
<1>2. IsFiniteSet(A) /\ Cardinality(A) \in Nat /\ IsFiniteSet(B) /\ Cardinality(B) \in Nat
  BY KindsAreFinite
<1> HIDE DEF A, B
<1>3. IsFiniteSet(A \cup {i}) /\ Cardinality(A \cup {i}) = Cardinality(A) + 1
  BY <1>1, <1>2, FS_AddElement
<1>4. Cardinality(A \cup {i}) <= Cardinality(B)
  BY <1>1, <1>2, FS_Subset
<1> QED
  BY <1>2, <1>3, <1>4 DEF A, B

LEMMA PeopleSay ==
  ASSUME PeopleInv
  PROVE  PeopleAreToldApart
<1>1. SUFFICES ASSUME NEW i \in DOMAIN entities, NEW j \in DOMAIN entities
               PROVE  /\ entities[i].written[1] = entities[j].written[1] => i = j
                      /\ ~together /\ entities[i].kind = entities[j].kind
                           /\ entities[i].pseudonym = entities[j].pseudonym => i = j
  BY DEF PeopleAreToldApart
<1>2. entities[i].written[1] = entities[j].written[1] => i = j
  BY DEF PeopleInv, NameTag
<1>3. ASSUME NEW a \in DOMAIN entities, NEW b \in DOMAIN entities, a < b, ~together,
             entities[a].kind = entities[b].kind, entities[a].pseudonym = entities[b].pseudonym
      PROVE  FALSE
  <2> DEFINE kind == entities[a].kind
             m == Cardinality(KindUpTo(a - 1, kind))
             n == Cardinality(KindUpTo(b - 1, kind))
  <2>1. DOMAIN entities = 1..Len(entities) /\ Len(entities) \in Nat
    BY LenProperties DEF PeopleInv
  <2>2. a \in Nat \ {0} /\ b \in Nat \ {0} /\ a - 1 \in Nat /\ b - 1 \in Nat
    BY <2>1
  <2>3. m < n
    BY <1>3, <2>2, LaterCountsMore
  <2>4. m \in Nat /\ n \in Nat
    BY <2>2, KindsAreFinite
  <2>5. Label(m) = Label(n)
    BY <1>3 DEF PeopleInv
  <2> HIDE DEF m, n
  <2> QED
    BY <2>3, <2>4, <2>5, LabelsDiffer
<1>4. i < j \/ j < i \/ i = j
  <2>1. DOMAIN entities = 1..Len(entities) /\ Len(entities) \in Nat
    BY LenProperties DEF PeopleInv
  <2> QED
    BY <2>1
<1> QED
  BY <1>2, <1>3, <1>4

\* What is not about people leaves them alone.
LEMMA OthersStay ==
  ASSUME PeopleInv, UNCHANGED entities, UNCHANGED together, DOMAIN hand' = Hands,
         \A h \in Hands : Resolving(h)' => hand'[h] = hand[h]
  PROVE  PeopleInv'
<1>1. \A kind : OfKind(kind)' = OfKind(kind)
  BY DEF OfKind
<1>2. \A n, kind : KindUpTo(n, kind)' = KindUpTo(n, kind)
  BY DEF KindUpTo
<1>3. \A h \in Hands : Resolving(h)' => Resolving(h)
  BY DEF Resolving
<1>4. \A h \in Hands : hand'[h].pc = "insert" => hand'[h] = hand[h]
  BY DEF Resolving
<1> QED
  BY <1>1, <1>2, <1>3, <1>4 DEF PeopleInv

LEMMA LookUpStep ==
  ASSUME PeopleInv, NEW h \in Hands, LookUp(h)
  PROVE  PeopleInv'
<1>1. /\ UNCHANGED entities /\ hand[h].pc = "none"
      /\ together' = (together \/ \E g \in Hands \ {h} : Resolving(g))
  BY DEF LookUp, MarkTogether
<1>2. /\ DOMAIN hand' = Hands /\ \A g \in Hands \ {h} : hand'[g] = hand[g]
      /\ hand'[h].pc # "insert"
  <2>1. CASE UNCHANGED hand
    BY <1>1, <2>1 DEF PeopleInv
  <2>2. ASSUME NEW w \in Written, NEW kind \in Kinds, Put(h, [pc |-> "count", written |-> w, kind |-> kind])
        PROVE  /\ DOMAIN hand' = Hands /\ \A g \in Hands \ {h} : hand'[g] = hand[g]
               /\ hand'[h].pc # "insert"
    BY <2>2 DEF Put, PeopleInv
  <2> QED
    BY <2>1, <2>2 DEF LookUp
<1>3. \A kind : OfKind(kind)' = OfKind(kind)
  BY <1>1 DEF OfKind
<1>4. \A n, kind : KindUpTo(n, kind)' = KindUpTo(n, kind)
  BY <1>1 DEF KindUpTo
<1>5. ~together' => ~together /\ \A g \in Hands \ {h} : ~Resolving(g)
  BY <1>1 DEF PeopleInv
<1>6. \A g \in Hands \ {h} : Resolving(g)' = Resolving(g)
  BY <1>2 DEF Resolving
<1>7. ~together' => \A f, g \in Hands : Resolving(f)' /\ Resolving(g)' => f = g
  BY <1>5, <1>6
<1>8. ~together' => \A g \in Hands : (hand[g].pc = "insert" => hand[g].pseudonym = Label(OfKind(hand[g].kind)))'
  BY <1>2, <1>3, <1>5 DEF PeopleInv
<1>9. together' \in BOOLEAN
  BY <1>1 DEF PeopleInv
<1> QED
  BY <1>1, <1>2, <1>3, <1>4, <1>5, <1>7, <1>8, <1>9 DEF PeopleInv

LEMMA NextPseudonymStep ==
  ASSUME PeopleInv, NEW h \in Hands, NextPseudonym(h)
  PROVE  PeopleInv'
<1>1. UNCHANGED <<entities, together>> /\ hand[h].pc = "count"
  BY DEF NextPseudonym
<1>2. /\ DOMAIN hand' = Hands /\ \A g \in Hands \ {h} : hand'[g] = hand[g]
      /\ hand'[h].pc = "insert" /\ hand'[h].kind = hand[h].kind
      /\ hand'[h].pseudonym = Label(OfKind(hand[h].kind))
  BY DEF NextPseudonym, Put, PeopleInv
<1>3. \A kind : OfKind(kind)' = OfKind(kind)
  BY <1>1 DEF OfKind
<1>4. \A n, kind : KindUpTo(n, kind)' = KindUpTo(n, kind)
  BY <1>1 DEF KindUpTo
<1>5. \A g \in Hands : Resolving(g)' = Resolving(g)
  BY <1>1, <1>2 DEF Resolving
<1>6. ~together => \A g \in Hands : (hand[g].pc = "insert" => hand[g].pseudonym = Label(OfKind(hand[g].kind)))'
  BY <1>2, <1>3 DEF PeopleInv
<1> QED
  BY <1>1, <1>2, <1>3, <1>4, <1>5, <1>6 DEF PeopleInv

LEMMA InsertEntityStep ==
  ASSUME PeopleInv, NEW h \in Hands, InsertEntity(h)
  PROVE  PeopleInv'
<1> DEFINE tag == NameTag(hand[h].written)
           new == [tag |-> tag, written |-> hand[h].written, kind |-> hand[h].kind,
                   pseudonym |-> hand[h].pseudonym]
<1>1. UNCHANGED together /\ hand[h].pc = "insert" /\ hand' = [hand EXCEPT ![h] = Free]
  BY DEF InsertEntity, Put
<1>2. /\ DOMAIN hand' = Hands /\ \A g \in Hands \ {h} : hand'[g] = hand[g]
      /\ hand'[h].pc = "none"
  BY <1>1 DEF PeopleInv, Free
<1>3. CASE ByTag(tag) # {}
  <2>1. UNCHANGED entities
    BY <1>3 DEF InsertEntity
  <2>2. \A g \in Hands : Resolving(g)' => hand'[g] = hand[g]
    BY <1>2 DEF Resolving
  <2> QED
    BY <1>1, <1>2, <2>1, <2>2, OthersStay
<1>4. CASE ByTag(tag) = {}
  <2>1. entities' = Append(entities, new)
    BY <1>4 DEF InsertEntity
  <2>2. /\ new.tag = tag /\ new.written = hand[h].written /\ new.kind = hand[h].kind
        /\ new.pseudonym = hand[h].pseudonym
    OBVIOUS
  <2> DEFINE n == Len(entities)
  <2>3. PICK S : entities \in Seq(S)
    BY DEF PeopleInv
  <2> HIDE DEF new
  <2>4. entities \in Seq(S \cup {new})
    BY <2>3, SeqMonotonic
  <2>5. /\ entities' \in Seq(S \cup {new}) /\ Len(entities') = n + 1
        /\ \A j \in 1..n : entities'[j] = entities[j]
        /\ entities'[n + 1] = new
    BY <2>1, <2>4, AppendProperties
  <2>6. n \in Nat /\ DOMAIN entities = 1..n /\ DOMAIN entities' = 1..(n + 1)
    BY <2>4, <2>5, LenProperties
  <2> HIDE DEF n
  <2>7. \A i \in DOMAIN entities' : 
          \/ i \in DOMAIN entities /\ entities'[i] = entities[i]
          \/ i = n + 1 /\ entities'[i] = new
    BY <2>5, <2>6
  <2>8. \A i \in DOMAIN entities : entities[i].tag # tag
    BY <1>4 DEF ByTag
  <2>9. \A i \in DOMAIN entities' : entities'[i].tag = NameTag(entities'[i].written)
    BY <2>2, <2>7 DEF PeopleInv
  <2>10. \A i, j \in DOMAIN entities' : entities'[i].tag = entities'[j].tag => i = j
    BY <2>2, <2>7, <2>8 DEF PeopleInv
  <2>11. ~together => \A g \in Hands \ {h} : ~Resolving(g)
    BY <1>1 DEF PeopleInv, Resolving
  <2>12. ~together => \A g \in Hands : ~Resolving(g)'
    BY <1>2, <2>11 DEF Resolving
  <2>13. \A m \in 0..n : \A kind : KindUpTo(m, kind)' = KindUpTo(m, kind)
    BY <2>5, <2>6 DEF KindUpTo
  <2>14. ~together => \A i \in DOMAIN entities' :
           (entities[i].pseudonym = Label(Cardinality(KindUpTo(i - 1, entities[i].kind))))'
    <3>1. SUFFICES ASSUME ~together, NEW i \in DOMAIN entities'
                   PROVE  (entities[i].pseudonym = Label(Cardinality(KindUpTo(i - 1, entities[i].kind))))'
      OBVIOUS
    <3>2. i - 1 \in 0..n
      BY <2>6
    <3>3. KindUpTo(i - 1, entities[i].kind)' = KindUpTo(i - 1, entities'[i].kind)
      BY <2>13, <3>2
    <3>4. CASE i \in DOMAIN entities /\ entities'[i] = entities[i]
      BY <3>1, <3>3, <3>4 DEF PeopleInv
    <3>5. CASE i = n + 1 /\ entities'[i] = new
      <4>1. KindUpTo(n, new.kind) = {k \in DOMAIN entities : entities[k].kind = new.kind}
        BY <2>6 DEF KindUpTo
      <4>2. i - 1 = n
        BY <2>6, <3>5
      <4>3. new.pseudonym = Label(OfKind(new.kind))
        BY <1>1, <2>2, <3>1 DEF PeopleInv
      <4> QED
        BY <3>3, <3>5, <4>1, <4>2, <4>3 DEF OfKind
    <3> QED
      BY <2>7, <3>4, <3>5
  <2>15. ~together => \A g \in Hands : hand'[g].pc # "insert"
    BY <2>12 DEF Resolving
  <2>16. \E T : entities' \in Seq(T)
    BY <2>5
  <2> QED
    BY <1>1, <1>2, <2>9, <2>10, <2>12, <2>14, <2>15, <2>16 DEF PeopleInv
<1> QED
  BY <1>3, <1>4

LEMMA PeopleStep ==
  ASSUME PeopleInv, [IndexNext]_indexVars
  PROVE  PeopleInv'
<1>0. DOMAIN hand = Hands
  BY DEF PeopleInv
<1>1. ASSUME NEW h \in Hands, NEW call, Put(h, call), UNCHANGED <<entities, together>>,
             call.pc \notin {"count", "insert"}
      PROVE  PeopleInv'
  <2>1. DOMAIN hand' = Hands /\ (\A g \in Hands \ {h} : hand'[g] = hand[g]) /\ hand'[h].pc \notin {"count", "insert"}
    BY <1>0, <1>1 DEF Put
  <2> QED
    BY <1>1, <2>1, OthersStay DEF Resolving
<1>2. ASSUME NEW h \in Hands, HandDies(h) PROVE PeopleInv'
  BY <1>1, <1>2 DEF HandDies, Free
<1>3. CASE PeopleNext
  BY <1>2, <1>3, LookUpStep, NextPseudonymStep, InsertEntityStep DEF PeopleNext
<1>4. ASSUME UNCHANGED <<entities, hand, together>> PROVE PeopleInv'
  BY <1>0, <1>4, OthersStay
<1>5. ASSUME NEW m \in Embedded, PutRow(m) \/ ShredRow(m) \/ RemoveVector(m) PROVE PeopleInv'
  BY <1>4, <1>5 DEF PutRow, ShredRow, RemoveVector
<1>6. ASSUME NEW h \in Hands, BeginUpsert(h) PROVE PeopleInv'
  <2>1. PICK m \in Unembedded, model \in Models :
          Put(h, [pc |-> "upsert", memory |-> m, model |-> model, empty |-> declared.width = 0])
    BY <1>6 DEF BeginUpsert
  <2> QED
    BY <1>1, <1>6, <2>1 DEF BeginUpsert
<1>7. ASSUME NEW h \in Hands, Upsert(h) PROVE PeopleInv'
  <2> DEFINE call == IF hand[h].empty THEN [hand[h] EXCEPT !.pc = "settle"] ELSE Free
  <2>1. Put(h, call) /\ UNCHANGED <<entities, together>> /\ hand[h].pc = "upsert"
    BY <1>7 DEF Upsert
  <2>2. call.pc \notin {"count", "insert"}
    <3>1. [hand[h] EXCEPT !.pc = "settle"].pc \in {"settle", hand[h].pc}
      OBVIOUS
    <3> QED
      BY <2>1, <3>1 DEF Free
  <2> HIDE DEF call
  <2> QED
    BY <1>1, <2>1, <2>2
<1>8. ASSUME NEW h \in Hands, Settle(h) PROVE PeopleInv'
  BY <1>1, <1>8 DEF Settle, Free
<1>9. ASSUME NEW h \in Hands, RebuildModel(h) PROVE PeopleInv'
  <2>1. PICK model \in Models : Put(h, [pc |-> "width", model |-> model])
    BY <1>9 DEF RebuildModel
  <2> QED
    BY <1>1, <1>9, <2>1 DEF RebuildModel
<1>10. ASSUME NEW h \in Hands, RebuildWidth(h) PROVE PeopleInv'
  <2>1. [hand[h] EXCEPT !.pc = "drop"].pc \in {"drop", hand[h].pc} /\ hand[h].pc = "width"
    BY <1>10 DEF RebuildWidth
  <2> QED
    BY <1>1, <1>10, <2>1 DEF RebuildWidth
<1>11. ASSUME NEW h \in Hands, RebuildDrop(h) PROVE PeopleInv'
  BY <1>1, <1>11 DEF RebuildDrop, Free
<1>12. CASE VectorNext
  BY <1>2, <1>5, <1>6, <1>7, <1>8, <1>9, <1>10, <1>11, <1>12 DEF VectorNext
<1>13. CASE UNCHANGED indexVars
  BY <1>4, <1>13 DEF indexVars
<1> QED
  BY <1>3, <1>12, <1>13 DEF IndexNext

\* A name is one entity, and two entities of a kind go by two pseudonyms as
\* long as names are resolved by one process at a time (ghostr-store/src/
\* sqlite.rs, resolve_entity): for any number of names, kinds and processes,
\* wherever one dies, and however the vectors are written meanwhile.
THEOREM PeopleHold ==
  IndexSpec => []PeopleAreToldApart
<1>1. IndexInit => PeopleInv
  <2>1. SUFFICES ASSUME IndexInit PROVE PeopleInv
    OBVIOUS
  <2>2. entities = <<>> /\ together = FALSE /\ DOMAIN hand = Hands /\ \A h \in Hands : hand[h].pc = "none"
    BY <2>1 DEF IndexInit, Free
  <2>3. entities \in Seq({}) /\ DOMAIN entities = {}
    BY <2>2
  <2> QED
    BY <2>2, <2>3 DEF PeopleInv, Resolving
<1>2. PeopleInv /\ [IndexNext]_indexVars => PeopleInv'
  BY PeopleStep
<1>3. PeopleInv => PeopleAreToldApart
  BY PeopleSay
<1> QED
  BY <1>1, <1>2, <1>3, PTL DEF IndexSpec
-----------------------------------------------------------------------------
(* Searching the vectors. *)

\* Of a set of memories, the one with so many likelier ones before it.
LEMMA LikelierRanks ==
  ASSUME NEW S \in SUBSET Embedded
  PROVE  /\ IsFiniteSet(S) /\ Cardinality(S) \in Nat
         /\ \A k \in 1 .. Cardinality(S) : Nth(S, k, Likelier) \in S
         /\ \A k, l \in 1 .. Cardinality(S) : k < l =>
              /\ Nth(S, k, Likelier) # Nth(S, l, Likelier)
              /\ Likeness[Nth(S, k, Likelier)] >= Likeness[Nth(S, l, Likelier)]
  <1> DEFINE R == {p \in S \X S : Likelier(p[1], p[2])}
  <1>1. /\ IsFiniteSet(S) /\ Cardinality(S) \in Nat /\ S \subseteq Int
        /\ \A m \in S : Likeness[m] \in Int
    BY IndexAssumption, FS_Subset, FS_CardinalityType DEF IndexAssumption
  <1>2. Orders(R, S)
    BY <1>1 DEF Orders, Likelier
  <1>3. \A i \in S : {j \in S : Likelier(j, i)} = Under(R, S, i)
    BY DEF Under
  <1>4. \A i, j \in S : <<i, j>> \in R => Likeness[i] >= Likeness[j]
    BY <1>1 DEF Likelier
  <1> HIDE DEF R
  <1>5. ASSUME NEW k \in 1 .. Cardinality(S)
        PROVE  /\ Nth(S, k, Likelier) \in S
               /\ Cardinality(Under(R, S, Nth(S, k, Likelier))) = k - 1
    <2> DEFINE m == k - 1
    <2>1. m \in Nat /\ m < Cardinality(S)
      BY <1>1
    <2> HIDE DEF m
    <2>2. PICK i \in S : Cardinality(Under(R, S, i)) = m
      BY <1>1, <1>2, <2>1, RankExists
    <2>3. Cardinality({j \in S : Likelier(j, i)}) = k - 1
      BY <1>3, <2>2 DEF m
    <2>4. /\ Nth(S, k, Likelier) \in S
          /\ Cardinality({j \in S : Likelier(j, Nth(S, k, Likelier))}) = k - 1
      BY <2>3 DEF Nth
    <2> QED
      BY <1>3, <2>4
  <1>6. ASSUME NEW k \in 1 .. Cardinality(S), NEW l \in 1 .. Cardinality(S), k < l
        PROVE  /\ Nth(S, k, Likelier) # Nth(S, l, Likelier)
               /\ Likeness[Nth(S, k, Likelier)] >= Likeness[Nth(S, l, Likelier)]
    <2> DEFINE a == Nth(S, k, Likelier)
               b == Nth(S, l, Likelier)
    <2>1. /\ a \in S /\ Cardinality(Under(R, S, a)) = k - 1
          /\ b \in S /\ Cardinality(Under(R, S, b)) = l - 1
      BY <1>5
    <2> HIDE DEF a, b
    <2>2. a # b
      BY <1>6, <2>1
    <2>3. ~(<<b, a>> \in R)
      <3>1. SUFFICES ASSUME <<b, a>> \in R PROVE FALSE
        OBVIOUS
      <3>2. Cardinality(Under(R, S, b)) < Cardinality(Under(R, S, a))
        BY <1>1, <1>2, <2>1, <3>1, LaterHasMore
      <3> QED
        BY <1>6, <2>1, <3>2
    <2>4. <<a, b>> \in R
      BY <1>2, <2>1, <2>2, <2>3 DEF Orders
    <2> QED
      BY <1>4, <2>1, <2>2, <2>4 DEF a, b
  <1> QED
    BY <1>1, <1>5, <1>6

\* Any search, of any state of the index.
LEMMA AnySearch ==
  ASSUME NEW k \in Nat, NEW floor, NEW only, NEW exclude
  PROVE  Comparable(k, floor, only, exclude)
  <1> DEFINE found == {m \in Scan(floor) : (only = {} \/ m \in only) /\ m \notin exclude}
             n == IF declared.width = 0 THEN 0 ELSE IF k < Cardinality(found) THEN k ELSE Cardinality(found)
             got == Knn(k, floor, only, exclude)
             done == {m \in Embedded : AtWidth(m, declared.width)}
  <1>1. got = [i \in 1..n |-> Nth(found, i, Likelier)]
    BY DEF Knn
  <1>2. /\ found \subseteq done /\ done \in SUBSET Embedded /\ found \in SUBSET Embedded
        /\ \A m \in found : m \notin exclude /\ Width[vectors[m][1]] = declared.width
    BY DEF Scan, AtWidth
  <1> HIDE DEF found, got
  <1>3. IsFiniteSet(found) /\ Cardinality(found) \in Nat
    BY <1>2, LikelierRanks
  <1>4. n \in Nat /\ n <= k /\ n <= Cardinality(found)
    BY <1>3
  <1> HIDE DEF n
  <1>5. DOMAIN got = 1..n /\ Len(got) = n
    BY <1>1, <1>4
  <1>6. \A i \in 1..n : i \in 1 .. Cardinality(found)
    BY <1>3, <1>4
  <1>7. \A i \in 1..n : got[i] \in found
    BY <1>1, <1>2, <1>6, LikelierRanks
  <1>8. \A i, j \in 1..n : i < j => got[i] # got[j] /\ Likeness[got[i]] >= Likeness[got[j]]
    BY <1>1, <1>2, <1>6, LikelierRanks
  <1>9. Cardinality(found) <= Cardinality(done) /\ Cardinality(done) \in Nat
    <2>1. IsFiniteSet(done) /\ Cardinality(done) \in Nat
      BY <1>2, LikelierRanks
    <2> HIDE DEF done
    <2> QED
      BY <1>2, <2>1, FS_Subset
  <1>10. Progress.completed = Cardinality(done)
    BY DEF Progress
  <1> HIDE DEF done
  <1>11. Len(got) <= Progress.completed
    BY <1>3, <1>4, <1>5, <1>9, <1>10
  <1>12. ToSet(got) \cap exclude = {}
    BY <1>2, <1>5, <1>7 DEF ToSet
  <1>13. \A i, j \in DOMAIN got : Width[vectors[got[i]][1]] = Width[vectors[got[j]][1]]
    BY <1>2, <1>5, <1>7
  <1> QED
    BY <1>4, <1>5, <1>8, <1>11, <1>12, <1>13 DEF Comparable, got

\* A search gives vectors of one width, each once and likest first, and no
\* more than a rebuild says are done - not only the searches a run tries: any
\* number of neighbours, any floor, any memories asked for or left out, among
\* any number of memories and models, in the middle of any rebuild.
THEOREM SearchesHold ==
  IndexSpec => [](/\ NeighboursAreComparable
                  /\ \A k \in Nat, floor \in Int, only, exclude \in SUBSET Embedded :
                       Comparable(k, floor, only, exclude))
  <1>1. NeighboursAreComparable
    BY AnySearch DEF NeighboursAreComparable
  <1>2. \A k \in Nat, floor \in Int, only, exclude \in SUBSET Embedded : Comparable(k, floor, only, exclude)
    BY AnySearch
  <1> QED
    BY <1>1, <1>2, PTL

-----------------------------------------------------------------------------
(***************************************************************************)
(* However many processes propose and adopt, and wherever they die, the    *)
(* versions form one line and at most one of them - the newest - is head.  *)
(*                                                                         *)
(* The flag is swapped in two statements, so OneHead is not inductive: a   *)
(* process that has cleared the flag may insert after another has set it   *)
(* again.  What saves it is the primary key.  NoRival says so: while a     *)
(* version is flagged, whoever is about to insert holds an ordinal that is *)
(* taken, because its parent is a version no newer than the newest.        *)
(***************************************************************************)

\* A process that is proposing builds on a version that exists, or on none.
KnownParent ==
  \A p \in Procs :
    proc[p].pc \in {"corpus", "deltas", "proposed", "insert"} =>
      proc[p].parent = None \/ proc[p].parent \in DOMAIN persona

\* While a version leads, whoever has cleared the flag will be refused.
NoRival ==
  \A p \in Procs :
    proc[p].pc = "insert" /\ Heads # {} => Ordinal(p) \in DOMAIN persona

IInv == TypeOK /\ Lineage /\ NewestLeads /\ KnownParent /\ NoRival

-----------------------------------------------------------------------------
LEMMA InitIInv == Init => IInv
<1> SUFFICES ASSUME Init PROVE IInv
  OBVIOUS
<1>1. DOMAIN memory = {} /\ DOMAIN persona = {}
  BY DEF Init
<1>2. Idle \in ProcState
  BY DEF Idle, ProcState, None
<1>3. TypeOK
  BY <1>1, <1>2 DEF Init, TypeOK
<1>4. Lineage /\ NewestLeads
  BY <1>1 DEF Lineage, NewestLeads, Heads
<1>5. KnownParent /\ NoRival
  BY DEF Init, Idle, KnownParent, NoRival
<1> QED
  BY <1>3, <1>4, <1>5 DEF IInv

\* What is read as head is nothing, or a version.
LEMMA HeadIsKnown ==
  HeadOrdinal = None \/ HeadOrdinal \in DOMAIN persona
BY DEF HeadOrdinal, Heads

\* A process that goes back to idle disturbs nothing that is said of processes.
LEMMA ReturnKeeps ==
  ASSUME IInv, NEW p \in Procs, Return(p), UNCHANGED persona
  PROVE  /\ proc' \in [Procs -> ProcState]
         /\ Lineage' /\ NewestLeads' /\ KnownParent' /\ NoRival'
<1>1. Idle \in ProcState /\ Idle.pc = "idle"
  BY DEF Idle, ProcState, None
<1>2. /\ proc' \in [Procs -> ProcState]
      /\ \A q \in Procs : proc'[q] = IF q = p THEN Idle ELSE proc[q]
  BY <1>1 DEF IInv, TypeOK, Return
<1>3. Lineage' /\ NewestLeads'
  BY DEF IInv, Lineage, NewestLeads, Heads
<1>4. KnownParent'
  BY <1>1, <1>2 DEF IInv, KnownParent
<1>5. NoRival'
  BY <1>1, <1>2 DEF IInv, NoRival, Heads, Ordinal
<1> QED
  BY <1>2, <1>3, <1>4, <1>5

-----------------------------------------------------------------------------
\* The tables other than persona keep their types.
LEMMA WorldStep ==
  ASSUME IInv, NEW p \in Procs,
         \/ \E m \in Memories : PutMemory(p, m) \/ Shred(p, m)
         \/ \E d \in Corrections : QueueDelta(p, d)
  PROVE  IInv'
<1>1. UNCHANGED <<persona, proc>>
  BY DEF PutMemory, Shred, QueueDelta
<1>2. DOMAIN memory' \subseteq Memories /\ \A m \in DOMAIN memory' : memory'[m] \in MemoryRow
  <2>1. CASE \E m \in Memories : PutMemory(p, m)
    BY <2>1 DEF IInv, TypeOK, PutMemory, Insert, MemoryRow
  <2>2. CASE \E m \in Memories : Shred(p, m)
    BY <2>2 DEF IInv, TypeOK, Shred, MemoryRow
  <2>3. CASE \E d \in Corrections : QueueDelta(p, d)
    BY <2>3 DEF IInv, TypeOK, QueueDelta
  <2> QED
    BY <2>1, <2>2, <2>3
<1>3. queue' \subseteq Corrections /\ given' \subseteq Corrections
  BY DEF IInv, TypeOK, PutMemory, Shred, QueueDelta
<1>4. TypeOK'
  BY <1>1, <1>2, <1>3 DEF IInv, TypeOK
<1> QED
  BY <1>1, <1>4 DEF IInv, Lineage, NewestLeads, KnownParent, NoRival, Heads, Ordinal

\* Proposing writes nothing, and what is read as head is a version.
LEMMA ProposeStep ==
  ASSUME IInv, NEW p \in Procs,
         ReadHead(p) \/ ReadCorpus(p) \/ PeekDeltas(p) \/ Decline(p)
  PROVE  IInv'
<1>1. UNCHANGED <<memory, queue, given, persona>>
  BY DEF ReadHead, ReadCorpus, PeekDeltas, Decline
<1>2. Heads' = Heads
  BY <1>1 DEF Heads
<1>3. CASE Return(p)
  BY <1>1, <1>3, ReturnKeeps DEF IInv, TypeOK
<1>4. ASSUME ~ Return(p)
      PROVE  /\ proc' \in [Procs -> ProcState]
             /\ \A q \in Procs : q # p => proc'[q] = proc[q]
             /\ proc'[p].pc \in {"corpus", "deltas", "proposed"}
             /\ proc'[p].parent = None \/ proc'[p].parent \in DOMAIN persona
  <2>1. CASE ReadHead(p)
    <3>1. HeadOrdinal \in Nat
      BY HeadIsKnown DEF IInv, TypeOK, None, Ordinals
    <3> QED
      BY <2>1, <3>1, HeadIsKnown DEF IInv, TypeOK, ReadHead, ProcState
  <2>2. CASE ReadCorpus(p)
    <3>1. Corpus \subseteq Memories
      BY DEF IInv, TypeOK, Corpus
    <3> QED
      BY <2>2, <3>1 DEF IInv, TypeOK, KnownParent, ReadCorpus, ProcState
  <2>3. CASE PeekDeltas(p)
    BY <1>4, <2>3 DEF IInv, TypeOK, KnownParent, PeekDeltas, ProcState
  <2>4. CASE Decline(p)
    BY <1>4, <2>4 DEF Decline
  <2> QED
    BY <2>1, <2>2, <2>3, <2>4
<1>5. CASE ~ Return(p)
  <2>1. TypeOK'
    BY <1>1, <1>4, <1>5 DEF IInv, TypeOK
  <2>2. Lineage' /\ NewestLeads'
    BY <1>1, <1>2 DEF IInv, Lineage, NewestLeads
  <2>3. KnownParent'
    BY <1>1, <1>4, <1>5 DEF IInv, KnownParent
  <2>4. NoRival'
    BY <1>1, <1>2, <1>4, <1>5 DEF IInv, NoRival, Ordinal
  <2> QED
    BY <2>1, <2>2, <2>3, <2>4 DEF IInv
<1> QED
  BY <1>3, <1>5

LEMMA ClearStep ==
  ASSUME IInv, NEW p \in Procs, ClearHead(p)
  PROVE  IInv'
<1>1. /\ DOMAIN persona' = DOMAIN persona
      /\ \A v \in DOMAIN persona : persona'[v] = [persona[v] EXCEPT !.head = FALSE]
  BY DEF ClearHead
<1>2. \A v \in DOMAIN persona :
        /\ persona'[v] \in VersionRow
        /\ ~ persona'[v].head
        /\ persona'[v].parent = persona[v].parent
        /\ persona'[v].content = persona[v].content
  BY <1>1 DEF IInv, TypeOK, VersionRow
<1>3. Heads' = {}
  BY <1>1, <1>2 DEF Heads
<1>4. /\ proc' \in [Procs -> ProcState]
      /\ \A q \in Procs : proc'[q].parent = proc[q].parent
      /\ \A q \in Procs : q # p => proc'[q] = proc[q]
  BY DEF IInv, TypeOK, ClearHead, ProcState
<1>5. TypeOK'
  BY <1>1, <1>2, <1>4 DEF IInv, TypeOK, ClearHead
<1>6. Lineage'
  BY <1>1, <1>2 DEF IInv, Lineage
<1>7. KnownParent'
  BY <1>1, <1>4 DEF IInv, KnownParent, ClearHead
<1> QED
  BY <1>3, <1>5, <1>6, <1>7 DEF IInv, NewestLeads, NoRival

\* The insert: refused, it changes nothing; accepted, no version was flagged
\* and the new one is the next in line.
LEMMA InsertStep ==
  ASSUME IInv, NEW p \in Procs, InsertVersion(p)
  PROVE  IInv'
<1> DEFINE n == Ordinal(p)
<1>1. UNCHANGED <<memory, queue, given>> /\ proc[p].pc = "insert"
  BY DEF InsertVersion
<1>2. CASE Conflicts(p)
  <2>1. Return(p) /\ UNCHANGED persona
    BY <1>2 DEF InsertVersion
  <2> QED
    BY <1>1, <2>1, ReturnKeeps DEF IInv, TypeOK
<1>3. CASE ~ Conflicts(p)
  <2>1. /\ persona' = Insert(persona, n, Row(p))
        /\ proc' = [proc EXCEPT ![p].pc = "drain"]
    BY <1>3 DEF InsertVersion
  <2>2. /\ proc[p].parent \in Nat /\ n \in Ordinals /\ n = proc[p].parent + 1
        /\ proc[p].corpus \subseteq Memories /\ proc[p].took \subseteq Corrections
    BY DEF IInv, TypeOK, ProcState, Ordinal, Ordinals
  <2>3. n \notin DOMAIN persona /\ \A v \in DOMAIN persona : persona[v].content # Row(p).content
    BY <1>3 DEF Conflicts
  <2>4. proc[p].parent = None \/ proc[p].parent \in DOMAIN persona
    BY <1>1 DEF IInv, KnownParent
  <2>5. Heads = {}
    BY <1>1, <2>3 DEF IInv, NoRival
  <2>6. \A w \in DOMAIN persona : w < n
    <3> SUFFICES ASSUME NEW w \in DOMAIN persona, w > n PROVE FALSE
      BY <2>2, <2>3 DEF IInv, TypeOK, Ordinals
    <3>1. w \in Nat /\ 1..w \subseteq DOMAIN persona
      BY DEF IInv, TypeOK, Lineage, Ordinals
    <3> QED
      BY <2>2, <2>3, <3>1 DEF Ordinals
  <2>7. 1..(n - 1) \subseteq DOMAIN persona
    BY <2>2, <2>4 DEF IInv, Lineage, None
  <2>8. /\ DOMAIN persona' = DOMAIN persona \cup {n}
        /\ persona'[n] = Row(p)
        /\ \A v \in DOMAIN persona : persona'[v] = persona[v]
    BY <2>1, <2>3 DEF Insert
  <2>9. /\ Row(p) \in VersionRow
        /\ Row(p).head /\ Row(p).parent = n - 1
    BY <2>2 DEF Row, VersionRow, Content
  <2>10. Heads' = {n}
    BY <2>5, <2>8, <2>9 DEF Heads
  <2>11. /\ proc' \in [Procs -> ProcState]
         /\ proc'[p].pc = "drain"
         /\ \A q \in Procs : proc'[q].parent = proc[q].parent
         /\ \A q \in Procs : q # p => proc'[q] = proc[q]
    BY <2>1 DEF IInv, TypeOK, ProcState
  <2>12. TypeOK'
    BY <1>1, <2>2, <2>8, <2>9, <2>11 DEF IInv, TypeOK
  <2>13. Lineage'
    <3> SUFFICES ASSUME NEW v \in DOMAIN persona'
                 PROVE  /\ 1..v \subseteq DOMAIN persona'
                        /\ persona'[v].parent = v - 1
                        /\ \A w \in DOMAIN persona' :
                             persona'[w].content = persona'[v].content => w = v
      BY DEF Lineage
    <3>1. CASE v = n
      <4>1. 1..n \subseteq DOMAIN persona'
        BY <2>2, <2>7, <2>8 DEF Ordinals
      <4> QED
        BY <2>3, <2>8, <2>9, <3>1, <4>1
    <3>2. CASE v \in DOMAIN persona
      <4>1. /\ 1..v \subseteq DOMAIN persona
            /\ persona[v].parent = v - 1
            /\ \A w \in DOMAIN persona : persona[w].content = persona[v].content => w = v
        BY <3>2 DEF IInv, Lineage
      <4> QED
        BY <2>3, <2>8, <2>9, <3>2, <4>1
    <3> QED
      BY <2>8, <3>1, <3>2
  <2>14. NewestLeads'
    <3>1. \A w \in DOMAIN persona' : w <= n
      BY <2>2, <2>6, <2>8 DEF IInv, TypeOK, Ordinals
    <3> QED
      BY <2>10, <3>1 DEF NewestLeads
  <2>15. KnownParent'
    BY <2>8, <2>11 DEF IInv, KnownParent
  <2>16. NoRival'
    <3> SUFFICES ASSUME NEW q \in Procs, proc'[q].pc = "insert"
                 PROVE  proc'[q].parent + 1 \in DOMAIN persona'
      BY DEF NoRival, Ordinal
    <3>1. q # p /\ proc'[q] = proc[q]
      BY <2>11
    <3>2. proc[q].parent = 0 \/ proc[q].parent \in DOMAIN persona
      BY <3>1 DEF IInv, KnownParent, None
    <3>3. proc[q].parent \in Nat /\ proc[q].parent < n
      BY <2>2, <2>6, <3>2 DEF IInv, TypeOK, Ordinals
    <3>4. proc[q].parent + 1 \in 1..n
      BY <2>2, <3>3 DEF Ordinals
    <3> QED
      BY <2>2, <2>7, <2>8, <3>1, <3>4 DEF Ordinals
  <2> QED
    BY <2>12, <2>13, <2>14, <2>15, <2>16 DEF IInv
<1> QED
  BY <1>2, <1>3

LEMMA DrainStep ==
  ASSUME IInv, NEW p \in Procs, DrainDeltas(p)
  PROVE  IInv'
<1>1. Return(p) /\ UNCHANGED <<memory, given, persona>> /\ queue' = {}
  BY DEF DrainDeltas
<1> QED
  BY <1>1, ReturnKeeps DEF IInv, TypeOK

LEMMA CrashStep ==
  ASSUME IInv, NEW p \in Procs, Crash(p)
  PROVE  IInv'
<1>1. Return(p) /\ UNCHANGED <<memory, queue, given, persona>>
  BY DEF Crash
<1> QED
  BY <1>1, ReturnKeeps DEF IInv, TypeOK

LEMMA NextIInv == IInv /\ [Next]_vars => IInv'
<1> SUFFICES ASSUME IInv, [Next]_vars PROVE IInv'
  OBVIOUS
<1>1. CASE Next
  <2> PICK p \in Procs :
        \/ \E m \in Memories : PutMemory(p, m) \/ Shred(p, m)
        \/ \E d \in Corrections : QueueDelta(p, d)
        \/ ReadHead(p) \/ ReadCorpus(p) \/ PeekDeltas(p) \/ Decline(p)
        \/ ClearHead(p) \/ InsertVersion(p) \/ DrainDeltas(p)
        \/ Crash(p)
    BY <1>1 DEF Next
  <2> QED
    BY WorldStep, ProposeStep, ClearStep, InsertStep, DrainStep, CrashStep
<1>2. CASE UNCHANGED vars
  BY <1>2 DEF vars, IInv, TypeOK, Lineage, NewestLeads, KnownParent, NoRival,
              Heads, Ordinal
<1> QED
  BY <1>1, <1>2

-----------------------------------------------------------------------------
\* The inductive invariant holds of every behaviour.
THEOREM Invariance == Spec => []IInv
BY InitIInv, NextIInv, PTL DEF Spec

\* Every state has rows of the schema's shape.
THEOREM TypeCorrect == Spec => []TypeOK
<1>1. IInv => TypeOK
  BY DEF IInv
<1> QED
  BY <1>1, Invariance, PTL

\* put_persona flags at most one version, although clearing the old flag and
\* inserting the new row are two statements and any number of processes run
\* them at once.
THEOREM HeadIsUnique == Spec => []OneHead
<1>1. IInv => OneHead
  <2> SUFFICES ASSUME IInv, NEW v \in Heads, NEW w \in Heads PROVE v = w
    BY DEF OneHead
  <2>1. v \in Nat /\ w \in Nat /\ v <= w /\ w <= v
    BY DEF IInv, TypeOK, NewestLeads, Heads, Ordinals
  <2> QED
    BY <2>1
<1> QED
  BY <1>1, Invariance, PTL

\* The flagged version is the newest: a slow adoption never brings back an
\* older persona.
THEOREM HeadIsNewest == Spec => []NewestLeads
<1>1. IInv => NewestLeads
  BY DEF IInv
<1> QED
  BY <1>1, Invariance, PTL

\* The versions are one unbroken line of distinct contents, each distilled
\* from its predecessor.
THEOREM VersionsAreALine == Spec => []Lineage
<1>1. IInv => Lineage
  BY DEF IInv
<1> QED
  BY <1>1, Invariance, PTL

-----------------------------------------------------------------------------
(***************************************************************************)
(* Corrections.  DrainDeltas empties the whole queue, so what it deletes   *)
(* is what was proposed only if nothing was queued since the peek: with    *)
(* one process, crashes or not, that is so.                                *)
(***************************************************************************)
Alone == \A p, q \in Procs : p = q

Applied(d) == \E v \in DOMAIN persona : d \in persona[v].took

\* The queue is still the one that was peeked, and after the insert all of it
\* is in a version.
QueueIsProposed ==
  \A p \in Procs :
    /\ proc[p].pc \in {"proposed", "insert"} => queue = proc[p].took
    /\ proc[p].pc = "drain" => \A d \in queue : Applied(d)

DInv == IInv /\ NothingLost /\ QueueIsProposed

\* No step takes a version away or changes what it was given.
LEMMA AppliedForGood ==
  ASSUME IInv, [Next]_vars, NEW d, Applied(d)
  PROVE  Applied(d)'
<1> PICK v \in DOMAIN persona : d \in persona[v].took
  BY DEF Applied
<1>1. v \in DOMAIN persona' /\ persona'[v].took = persona[v].took
  <2>1. CASE UNCHANGED persona
    BY <2>1
  <2>2. CASE \E p \in Procs : ClearHead(p)
    BY <2>2 DEF ClearHead, IInv, TypeOK, VersionRow
  <2>3. CASE \E p \in Procs : InsertVersion(p) /\ ~ Conflicts(p)
    BY <2>3 DEF InsertVersion, Insert, Conflicts
  <2>4. CASE \E p \in Procs : InsertVersion(p) /\ Conflicts(p)
    BY <2>1, <2>4 DEF InsertVersion
  <2> QED
    BY <2>1, <2>2, <2>3, <2>4 DEF Next, vars, PutMemory, Shred, QueueDelta, ReadHead,
       ReadCorpus, PeekDeltas, Decline, DrainDeltas, Crash
<1> QED
  BY <1>1 DEF Applied

LEMMA DeltaStep ==
  ASSUME Alone, DInv, NEW p \in Procs, NEW d \in Corrections, QueueDelta(p, d), IInv',
         \A e : Applied(e) => Applied(e)'
  PROVE  DInv'
<1>1. \A q \in Procs : proc'[q].pc = "idle"
  BY DEF Alone, QueueDelta
<1>2. QueueIsProposed'
  BY <1>1 DEF QueueIsProposed
<1>3. NothingLost'
  BY DEF DInv, NothingLost, QueueDelta
<1> QED
  BY <1>2, <1>3 DEF DInv

\* A step that leaves the queue alone loses nothing.
LEMMA QuietStep ==
  ASSUME DInv, UNCHANGED <<queue, given>>, IInv', QueueIsProposed',
         \A e : Applied(e) => Applied(e)'
  PROVE  DInv'
BY DEF DInv, NothingLost, Applied

LEMMA NextDInv == Alone /\ DInv /\ [Next]_vars => DInv'
<1> SUFFICES ASSUME Alone, DInv, [Next]_vars PROVE DInv'
  OBVIOUS
<1>1. IInv'
  BY NextIInv DEF DInv
<1>2. \A e : Applied(e) => Applied(e)'
  BY AppliedForGood DEF DInv
<1>3. ASSUME NEW p \in Procs, Return(p), UNCHANGED <<queue, given>>
      PROVE  DInv'
  <2>1. \A q \in Procs : proc'[q].pc = "idle"
    BY <1>3 DEF Alone, Return, Idle, DInv, IInv, TypeOK
  <2> QED
    BY <1>1, <1>2, <1>3, <2>1, QuietStep DEF QueueIsProposed
<1>4. CASE UNCHANGED vars
  BY <1>1, <1>2, <1>4, QuietStep DEF vars, DInv, QueueIsProposed, Applied
<1>5. CASE Next
  <2> PICK p \in Procs :
        \/ \E m \in Memories : PutMemory(p, m) \/ Shred(p, m)
        \/ \E d \in Corrections : QueueDelta(p, d)
        \/ ReadHead(p) \/ ReadCorpus(p) \/ PeekDeltas(p) \/ Decline(p)
        \/ ClearHead(p) \/ InsertVersion(p) \/ DrainDeltas(p)
        \/ Crash(p)
    BY <1>5 DEF Next
  <2>1. CASE \E m \in Memories : PutMemory(p, m) \/ Shred(p, m)
    BY <1>1, <1>2, <2>1, QuietStep DEF PutMemory, Shred, DInv, QueueIsProposed, Applied
  <2>2. CASE \E d \in Corrections : QueueDelta(p, d)
    BY <1>1, <1>2, <2>2, DeltaStep
  <2>3. CASE ReadHead(p) \/ ReadCorpus(p)
    <3>1. \A q \in Procs : proc'[q].pc \in {"corpus", "deltas"}
      BY <2>3 DEF Alone, ReadHead, ReadCorpus, DInv, IInv, TypeOK, ProcState
    <3> QED
      BY <1>1, <1>2, <2>3, <3>1, QuietStep DEF ReadHead, ReadCorpus, QueueIsProposed
  <2>4. CASE PeekDeltas(p)
    <3>1. CASE Return(p)
      BY <1>3, <2>4, <3>1 DEF PeekDeltas
    <3>2. CASE ~ Return(p)
      <4>1. \A q \in Procs : proc'[q].pc = "proposed" /\ proc'[q].took = queue
        BY <2>4, <3>2 DEF Alone, PeekDeltas, DInv, IInv, TypeOK, ProcState
      <4> QED
        BY <1>1, <1>2, <2>4, <4>1, QuietStep DEF PeekDeltas, QueueIsProposed
    <3> QED
      BY <3>1, <3>2
  <2>5. CASE Decline(p)
    BY <1>3, <2>5 DEF Decline
  <2>6. CASE ClearHead(p)
    <3>1. \A q \in Procs : proc'[q].pc = "insert" /\ proc'[q].took = queue
      BY <2>6 DEF Alone, ClearHead, DInv, IInv, TypeOK, ProcState, QueueIsProposed
    <3> QED
      BY <1>1, <1>2, <2>6, <3>1, QuietStep DEF ClearHead, QueueIsProposed
  <2>7. CASE InsertVersion(p)
    <3>1. CASE Conflicts(p)
      BY <1>3, <2>7, <3>1 DEF InsertVersion
    <3>2. CASE ~ Conflicts(p)
      <4>1. /\ Ordinal(p) \in DOMAIN persona' /\ persona'[Ordinal(p)].took = queue
        BY <2>7, <3>2 DEF InsertVersion, Insert, Row, DInv, QueueIsProposed
      <4>2. \A d \in queue : Applied(d)'
        BY <4>1 DEF Applied
      <4>3. \A q \in Procs : proc'[q].pc = "drain"
        BY <2>7, <3>2 DEF Alone, InsertVersion, DInv, IInv, TypeOK, ProcState
      <4>4. QueueIsProposed'
        BY <2>7, <4>2, <4>3 DEF InsertVersion, QueueIsProposed, Applied
      <4> QED
        BY <1>1, <1>2, <2>7, <4>4, QuietStep DEF InsertVersion
    <3> QED
      BY <3>1, <3>2
  <2>8. CASE DrainDeltas(p)
    <3>1. \A d \in given : Applied(d)'
      BY <1>2, <2>8 DEF DrainDeltas, DInv, NothingLost, QueueIsProposed, Applied
    <3>2. \A q \in Procs : proc'[q].pc = "idle"
      BY <2>8 DEF Alone, DrainDeltas, Return, Idle, DInv, IInv, TypeOK
    <3>3. NothingLost'
      BY <2>8, <3>1 DEF DrainDeltas, NothingLost, Applied
    <3> QED
      BY <1>1, <3>2, <3>3 DEF DInv, QueueIsProposed
  <2>9. CASE Crash(p)
    BY <1>3, <2>9 DEF Crash
  <2> QED
    BY <2>1, <2>2, <2>3, <2>4, <2>5, <2>6, <2>7, <2>8, <2>9
<1> QED
  BY <1>4, <1>5

\* With one process no correction is ever lost, wherever it dies: what the
\* drain deletes is what the version it just wrote was given.
THEOREM NothingLostAlone == Alone /\ Spec => []NothingLost
<1>1. Init => DInv
  BY InitIInv DEF Init, Idle, DInv, NothingLost, QueueIsProposed
<1>2. DInv => NothingLost
  BY DEF DInv
<1> SUFFICES ASSUME Alone PROVE Spec => []NothingLost
  OBVIOUS
<1>3. DInv /\ [Next]_vars => DInv'
  BY NextDInv
<1> QED
  BY <1>1, <1>2, <1>3, PTL DEF Spec
=============================================================================
