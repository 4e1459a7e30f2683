------------------------------- MODULE Ghost --------------------------------
(***************************************************************************)
(* What a vault says in public: the manifest that vouches for its ghost,   *)
(* its revocation, and notes under the ghost key (ghostr-engine/src/       *)
(* ghost.rs, publish_logged of sync.rs, the publish side of ghostr-nostr   *)
(* client/websocket.rs).                                                   *)
(*                                                                         *)
(* A manifest is its status and whether it lets the ghost post.  A relay   *)
(* keeps one manifest a vault, the newest by the second it was signed in.  *)
(* The relays of a publish are asked in turn; what each keeps depends on   *)
(* that second alone, so one publish is one action.                        *)
(***************************************************************************)
EXTENDS Naturals, FiniteSets

CONSTANTS Commands,    \* processes that run `ghostr ghost ...`
          Relays,      \* the configured relays
          Kinds,       \* what the commands do: publish a manifest, revoke, post a note
          MaxSigned,   \* bound: events signed
          Hasty        \* whether two events may be signed in one second

ASSUME GhostAssumption ==
  /\ Kinds \subseteq {"active", "suspended", "revoked", "note"}
  /\ MaxSigned \in Nat /\ Hasty \in BOOLEAN

VARIABLES scopes,    \* publish_scopes in config.toml
          second,    \* the clock
          signed,    \* how many events were signed so far
          manifest,  \* the manifest each relay serves
          notice,    \* the relays that hold the revocation notice
          newest,    \* the last signed of the manifests each relay ever kept
          revoked,   \* the relays that ever kept a revoked manifest
          rows,      \* the kinds of egress row: was the event offered to a relay?
          command    \* the running commands

ghostVars == <<scopes, second, signed, manifest, notice, newest, revoked, rows, command>>

Scopes == {"manifest", "ghost_notes"}
NoManifest == [status |-> "none", notes |-> FALSE, at |-> 0, n |-> 0]
Resting == [pc |-> "idle", kind |-> "none", permit |-> FALSE, event |-> NoManifest, ok |-> FALSE]

GhostInit ==
  /\ scopes \in SUBSET Scopes
  /\ second = 1 /\ signed = 0
  /\ manifest = [r \in Relays |-> NoManifest]
  /\ notice = {} /\ revoked = {} /\ rows = {}
  /\ newest = [r \in Relays |-> 0]
  /\ command = [p \in Commands |-> Resting]

Is(p, pc) == command[p].pc = pc
To(p, changed) == command' = [command EXCEPT ![p] = changed]
Public == <<manifest, notice, newest, revoked>>

-----------------------------------------------------------------------------
\* A revocation, and the manifest that is part of one, are always permitted.
Permits(enabled, kind) ==
  \/ kind = "revoked"
  \/ kind = "note" /\ "ghost_notes" \in enabled
  \/ kind \in {"active", "suspended"} /\ "manifest" \in enabled

\* relay_client takes the scopes of the configuration as it is now.
Open(p) ==
  /\ Is(p, "idle")
  /\ \E kind \in Kinds :
       To(p, [Resting EXCEPT !.pc = "sign", !.kind = kind, !.permit = Permits(scopes, kind)])
  /\ UNCHANGED <<scopes, second, signed, rows>> /\ UNCHANGED Public

\* Slip: jittered, as a day's footage is.
CreatedAtJittered(now) == {now, IF now > 2 THEN now - 2 ELSE now}

\* A public statement carries the second it was made in.
CreatedAt(now) == {now}

MayPost == "ghost_notes" \in scopes

Tick == IF Hasty THEN {second, second + 1} ELSE {second + 1}

\* manifest, or publish_note: the policy is read from the configuration again,
\* and a note that it forbids is not signed.
Sign(p) ==
  /\ Is(p, "sign") /\ signed < MaxSigned
  /\ IF command[p].kind = "note" /\ ~MayPost
     THEN To(p, Resting) /\ UNCHANGED <<second, signed>>
     ELSE /\ signed' = signed + 1
          /\ second' \in Tick
          /\ \E at \in CreatedAt(second) :
               To(p, [command[p] EXCEPT !.pc = "send",
                        !.event = [status |-> command[p].kind, notes |-> MayPost,
                                   at |-> at, n |-> signed + 1]])
  /\ UNCHANGED <<scopes, rows>> /\ UNCHANGED Public

\* NIP-01: the newer replaces the older; of one second, the lower id stays.
Replaces(new, old) ==
  {keep \in {new, old} : keep.at >= new.at /\ keep.at >= old.at}

Forbids(m) == \/ m.status \in {"suspended", "revoked"}
              \/ m.status = "active" /\ ~m.notes

\* Some relays keep the event, and the answers of some of those arrive.
Keep(p, kept) ==
  LET e == command[p].event IN
  IF command[p].kind = "note"
  THEN UNCHANGED Public
  ELSE /\ manifest' \in {m \in [Relays -> {manifest[r] : r \in Relays} \cup {e}] :
                           \A r \in Relays : IF r \in kept THEN m[r] \in Replaces(e, manifest[r])
                                                            ELSE m[r] = manifest[r]}
       /\ newest' = [r \in Relays |-> IF r \in kept /\ e.n > newest[r] THEN e.n ELSE newest[r]]
       /\ revoked' = IF e.status = "revoked" THEN revoked \cup kept ELSE revoked
       /\ UNCHANGED notice

Send(p) ==
  /\ Is(p, "send")
  /\ \E kept \in SUBSET (IF command[p].permit THEN Relays ELSE {}) :
     \E ok \in {FALSE, kept # {}} :
       /\ Keep(p, kept)
       /\ To(p, [command[p] EXCEPT !.pc = "log", !.ok = ok])
  /\ UNCHANGED <<scopes, second, signed, rows>>

Row(p) == IF command[p].permit THEN "offered" ELSE "withheld"

\* revoke goes on to the notice only once the manifest was accepted.
AfterManifest(p, ok) ==
  IF ok /\ command[p].kind = "revoked"
  THEN [command[p] EXCEPT !.pc = "signNotice"] ELSE Resting

\* The row is written whatever the relays said; a row that cannot be written
\* is an error.
LogPublish(p) ==
  /\ Is(p, "log")
  /\ \/ /\ rows' = rows \cup {Row(p)}
        /\ To(p, AfterManifest(p, command[p].ok))
     \/ /\ UNCHANGED rows
        /\ To(p, AfterManifest(p, FALSE))
  /\ UNCHANGED <<scopes, second, signed>> /\ UNCHANGED Public

SignNotice(p) ==
  /\ Is(p, "signNotice") /\ signed < MaxSigned
  /\ signed' = signed + 1
  /\ second' \in Tick
  /\ To(p, [command[p] EXCEPT !.pc = "notify", !.event.n = signed + 1])
  /\ UNCHANGED <<scopes, rows>> /\ UNCHANGED Public

SendNotice(p) ==
  /\ Is(p, "notify")
  /\ \E kept \in SUBSET Relays : notice' = notice \cup kept
  /\ To(p, [command[p] EXCEPT !.pc = "logNotice"])
  /\ UNCHANGED <<scopes, second, signed, rows, manifest, newest, revoked>>

\* A notice that failed is reported, not an error.
LogNotice(p) ==
  /\ Is(p, "logNotice")
  /\ \/ rows' = rows \cup {"offered"}
     \/ UNCHANGED rows
  /\ To(p, Resting)
  /\ UNCHANGED <<scopes, second, signed>> /\ UNCHANGED Public

GhostCrash(p) ==
  /\ ~Is(p, "idle")
  /\ To(p, Resting)
  /\ UNCHANGED <<scopes, second, signed, rows>> /\ UNCHANGED Public

\* The user edits config.toml.
Edit ==
  /\ \E s \in SUBSET Scopes : s # scopes /\ scopes' = s
  /\ UNCHANGED <<second, signed, rows, command>> /\ UNCHANGED Public

GhostNext ==
  \/ Edit
  \/ \E p \in Commands :
       \/ Open(p) \/ Sign(p) \/ Send(p) \/ LogPublish(p)
       \/ SignNotice(p) \/ SendNotice(p) \/ LogNotice(p) \/ GhostCrash(p)

GhostSpec == GhostInit /\ [][GhostNext]_ghostVars

-----------------------------------------------------------------------------
\* No relay ever holds a notice for a ghost that no manifest revokes: some
\* relay took the revoked manifest first, whatever failed or died in between
\* (ghost.rs revoke: "the manifest goes first").
NoticeIsBacked ==
  notice # {} => revoked # {}

\* A relay serves the last manifest signed of all those it was given, in
\* whatever order two commands reached it: a manifest whose status changed
\* supersedes the old one, and a late Active does not bring back a revoked
\* ghost.
RevocationSupersedes ==
  \A r \in Relays : manifest[r].n = newest[r]

\* A revocation is public before its notice is, and nothing takes it back.
RevocationHolds == NoticeIsBacked /\ RevocationSupersedes

\* A note is not posted where the manifest forbids it (ghostr ghost note: "your
\* published manifest must say the ghost may post").  The code asks its own
\* configuration and never what it published.
NotesKeepManifest ==
  [][\A p \in Commands : Is(p, "send") /\ command[p].kind = "note" /\ command'[p].ok
        => \E r \in Relays : ~Forbids(manifest[r])]_ghostVars

\* A row that says allow is about something that was offered to a relay
\* (sync.rs: "The scope already said yes - that is why bytes went out").
RowsAreOfSends == "withheld" \notin rows
=============================================================================
