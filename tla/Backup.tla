------------------------------- MODULE Backup -------------------------------
(***************************************************************************)
(* Backing a chain up to relays and rebuilding it on another device        *)
(* (ghostr-engine/src/sync.rs), with the role that decides who may seal.   *)
(*                                                                         *)
(* `ghostr sync` asks the relays once what they hold, then publishes each  *)
(* missing day in two forms - its own kind and the NIP-78 mirror - one     *)
(* event after the other, with an egress row written after every attempt.  *)
(* `ghostr restore` fetches everything, requires a gapless chain and then  *)
(* writes the genesis link, drops the chain id, inserts the days one       *)
(* transaction each and turns the vault into a replica: none of it one     *)
(* transaction.  A process may die between any two of these writes.        *)
(*                                                                         *)
(* A relay is external: it may refuse, keep an event and lose the answer,  *)
(* forget what it held, answer a fetch in part, and serve events of other  *)
(* authors under any d tag.                                                *)
(*                                                                         *)
(* Abstractions.  One process per device.  A day is its place, parent and  *)
(* link; the hash is a free constructor, the device that sealed standing   *)
(* for what it sealed.  Ciphertext, jitter and device ids are left out.    *)
(***************************************************************************)
EXTENDS Integers, Sequences

CONSTANTS Devices,    \* vaults initialised from one seed
          Home,       \* the one that has been sealing all along
          Sealers,    \* devices whose user (or scheduler) runs memoria
          Syncers,    \* devices whose user runs sync
          MaxDays,    \* bound on the length of a chain
          MayCrash    \* a process may die, or a log write fail, anywhere

ASSUME BackupAssumption ==
  /\ Home \in Devices
  /\ Sealers \subseteq Devices
  /\ Syncers \subseteq Devices
  /\ MaxDays \in Nat
  /\ MayCrash \in BOOLEAN

VARIABLES days,     \* table footage of each device
          genesis,  \* meta genesis_link
          chainId,  \* meta chain_id is present
          role,     \* meta device_role
          egress,   \* table egress_log: what each device has a row for
          relays,   \* the events some relay has stored
          report,   \* the SyncReport of the sync under way
          proc      \* what each device is in the middle of

vault == <<days, genesis, chainId, role>>
vars == <<vault, relays, egress, report, proc>>

-----------------------------------------------------------------------------
Forms == {"record", "mirror"}   \* kind 31783 and its NIP-78 copy

\* The preimage of a day's link: its parent's, and what the device sealed.
Link(prev, d) == Append(prev, d)

\* The genesis link init mints for a device, from its own chain id.
Minted(d) == <<d>>

TipLink(d) == IF days[d] = <<>> THEN genesis[d] ELSE days[d][Len(days[d])].link

\* Events of other authors that a relay may serve under this vault's d tags.
Foreign == [author : {"stranger"}, form : Forms,
            day : [seq : 1..MaxDays, prev : {<<>>}, link : {<<>>}]]

Event(form, day) == [author |-> "vault", form |-> form, day |-> day]

\* What one fetch over all relays can return.  Any part of what they stored:
\* they may be down, cut an answer short, have replaced or forgotten an event.
Answers == {own \cup other : own \in SUBSET relays, other \in {{}, Foreign}}

\* Slip: the author is left to the filter.
PresentUnderAnyAuthor(got, form) == {e.day.seq : e \in {x \in got : x.form = form}}

\* The seqs the relays hold in a form, by d tag, once the author is checked.
Present(got, form) == {e.day.seq : e \in {x \in got : x.author = "vault" /\ x.form = form}}

\* Slip: whatever carries the d tag is this vault's.
ReadableByAnyone(got) == {e.day : e \in got}

\* The days that decrypt under this vault's key.
Readable(got) == {e.day : e \in {x \in got : x.author = "vault"}}

\* What restore can make of an answer: one readable day per seq, any of a tie,
\* and no seq missing from 1 on.
Chains(got) ==
  UNION {{c \in [1..n -> Readable(got)] :
            /\ {day.seq : day \in Readable(got)} = 1..n
            /\ \A i \in 1..n : c[i].seq = i} : n \in 0..MaxDays}

Idle == [pc |-> "idle", todo |-> <<>>, form |-> "record", acked |-> FALSE]
NoReport == [published |-> {}, mirrored |-> {}, already |-> {}, failed |-> {}, unmirrored |-> {}]

Init ==
  /\ days = [d \in Devices |-> <<>>]
  /\ genesis = [d \in Devices |-> Minted(d)]
  /\ chainId = [d \in Devices |-> TRUE]
  /\ role = [d \in Devices |-> "sealer"]
  /\ egress = [d \in Devices |-> {}]
  /\ relays = {}
  /\ report = [d \in Devices |-> NoReport]
  /\ proc = [d \in Devices |-> Idle]

Return(d) == proc' = [proc EXCEPT ![d] = Idle]
Goto(d, pc) == proc' = [proc EXCEPT ![d].pc = pc]

-----------------------------------------------------------------------------
\* memoria, as far as the chain goes: a replica refuses before anything else.
\* A machine set up for a restore is not sealed on before it holds any day.
Seal(d) ==
  /\ d \in Sealers
  /\ proc[d].pc = "idle"
  /\ role[d] # "replica"
  /\ d = Home \/ days[d] # <<>>
  /\ Len(days[d]) < MaxDays
  /\ days' = [days EXCEPT ![d] =
       Append(@, [seq |-> Len(days[d]) + 1, prev |-> TipLink(d), link |-> Link(TipLink(d), d)])]
  /\ UNCHANGED <<genesis, chainId, role, relays, egress, report, proc>>

-----------------------------------------------------------------------------
\* sync: what the relays hold is asked once, then all_footage is walked.
BeginSync(d) ==
  /\ d \in Syncers
  /\ proc[d].pc = "idle"
  /\ days[d] # <<>>
  /\ \E got \in Answers :
       proc' = [proc EXCEPT ![d] =
         [Idle EXCEPT !.pc = "record",
            !.todo = [i \in DOMAIN days[d] |->
              [day |-> days[d][i], needs |-> {f \in Forms : i \notin Present(got, f)}]]]]
  /\ UNCHANGED <<vault, relays, egress, report>>

Today(d) == Head(proc[d].todo).day
Needs(d, form) == form \in Head(proc[d].todo).needs

NextDay(d) ==
  proc' = [proc EXCEPT ![d] = [Idle EXCEPT !.pc = "record", !.todo = Tail(proc[d].todo)]]

\* Slip: one set for both forms, so a day without its mirror reads as done.
SkipHalfDay(d) ==
  /\ proc[d].pc = "record" /\ proc[d].todo # <<>>
  /\ ~Needs(d, "record")
  /\ report' = [report EXCEPT ![d].already = @ \cup {Today(d).seq}]
  /\ NextDay(d)
  /\ UNCHANGED <<vault, relays, egress>>

SkipDay(d) ==
  /\ proc[d].pc = "record" /\ proc[d].todo # <<>>
  /\ ~Needs(d, "record") /\ ~Needs(d, "mirror")
  /\ report' = [report EXCEPT ![d].already = @ \cup {Today(d).seq}]
  /\ NextDay(d)
  /\ UNCHANGED <<vault, relays, egress>>

SkipRecord(d) ==
  /\ proc[d].pc = "record" /\ proc[d].todo # <<>>
  /\ ~Needs(d, "record") /\ Needs(d, "mirror")
  /\ Goto(d, "mirror")
  /\ UNCHANGED <<vault, relays, egress, report>>

SkipMirror(d) ==
  /\ proc[d].pc = "mirror" /\ ~Needs(d, "mirror")
  /\ NextDay(d)
  /\ UNCHANGED <<vault, relays, egress, report>>

\* RelayClient::publish: every relay is tried; none may keep the event, and the
\* answer of those that do may be lost.
Send(d, form) ==
  /\ proc[d].pc = form /\ proc[d].todo # <<>>
  /\ Needs(d, form)
  /\ \E kept, ok \in BOOLEAN :
       /\ ok => kept
       /\ relays' = IF kept THEN relays \cup {Event(form, Today(d))} ELSE relays
       /\ proc' = [proc EXCEPT ![d].pc = "sent", ![d].form = form, ![d].acked = ok]
  /\ UNCHANGED <<vault, egress, report>>

\* A failed day sends no mirror; a failed mirror does not fail the day.
Outcome(d, ok) ==
  LET seq == Today(d).seq IN
  IF proc[d].form = "record"
  THEN IF ok THEN /\ report' = [report EXCEPT ![d].published = @ \cup {seq}]
                  /\ proc' = [proc EXCEPT ![d].pc = "mirror", ![d].acked = FALSE]
             ELSE /\ report' = [report EXCEPT ![d].failed = @ \cup {seq}]
                  /\ NextDay(d)
  ELSE /\ report' = IF ok THEN [report EXCEPT ![d].mirrored = @ \cup {seq}]
                          ELSE [report EXCEPT ![d].unmirrored = @ \cup {seq}]
       /\ NextDay(d)

\* publish_logged: the row is written whether or not a relay accepted.
Log(d) ==
  /\ proc[d].pc = "sent"
  /\ egress' = [egress EXCEPT ![d] = @ \cup {Event(proc[d].form, Today(d))}]
  /\ Outcome(d, proc[d].acked)
  /\ UNCHANGED <<vault, relays>>

\* ... and a publish whose row cannot be written is a failed publish.
LogFails(d) ==
  /\ MayCrash
  /\ proc[d].pc = "sent"
  /\ Outcome(d, FALSE)
  /\ UNCHANGED <<vault, relays, egress>>

EndSync(d) ==
  /\ proc[d].pc = "record" /\ proc[d].todo = <<>>
  /\ report' = [report EXCEPT ![d] = NoReport]
  /\ Return(d)
  /\ UNCHANGED <<vault, relays, egress>>

-----------------------------------------------------------------------------
\* restore: nothing is written unless the fetched days form a chain from 1.
BeginRestore(d) ==
  /\ proc[d].pc = "idle"
  /\ \E got \in Answers : \E chain \in Chains(got) :
       proc' = [proc EXCEPT ![d] =
         [Idle EXCEPT !.pc = IF chain = <<>> THEN "last" ELSE "adopt",
                      !.todo = [i \in DOMAIN chain |-> [day |-> chain[i], needs |-> {}]]]]
  /\ UNCHANGED <<vault, relays, egress, report>>

\* Slip: the vault keeps the genesis link init minted for it.
KeepGenesis(d) ==
  /\ proc[d].pc = "adopt"
  /\ Goto(d, "forget")
  /\ UNCHANGED <<vault, relays, egress, report>>

\* Seq 1's prev_link is the genesis link of the chain being joined.
AdoptGenesis(d) ==
  /\ proc[d].pc = "adopt"
  /\ genesis' = [genesis EXCEPT ![d] = Today(d).prev]
  /\ Goto(d, "forget")
  /\ UNCHANGED <<days, chainId, role, relays, egress, report>>

ForgetChainId(d) ==
  /\ proc[d].pc = "forget"
  /\ chainId' = [chainId EXCEPT ![d] = FALSE]
  /\ Goto(d, "insert")
  /\ UNCHANGED <<days, genesis, role, relays, egress, report>>

\* seal_footage accepts tip + 1 only; restore passes it no leaves.
Follows(d, day) == day.seq = Len(days[d]) + 1

InsertDay(d) ==
  /\ proc[d].pc = "insert" /\ proc[d].todo # <<>>
  /\ Follows(d, Today(d))
  /\ days' = [days EXCEPT ![d] = Append(@, Today(d))]
  /\ proc' = [proc EXCEPT ![d].todo = Tail(@),
                          ![d].pc = IF Tail(proc[d].todo) = <<>> THEN "last" ELSE "insert"]
  /\ UNCHANGED <<genesis, chainId, role, relays, egress, report>>

\* DuplicateSeq or ChainGap: restore returns the error, leaving what it wrote.
RefuseDay(d) ==
  /\ proc[d].pc = "insert" /\ proc[d].todo # <<>>
  /\ ~Follows(d, Today(d))
  /\ Return(d)
  /\ UNCHANGED <<vault, relays, egress, report>>

BecomeReplica(d) ==
  /\ proc[d].pc = "last"
  /\ role' = [role EXCEPT ![d] = "replica"]
  /\ Return(d)
  /\ UNCHANGED <<days, genesis, chainId, relays, egress, report>>

-----------------------------------------------------------------------------
Crash(d) ==
  /\ MayCrash
  /\ proc[d].pc # "idle"
  /\ report' = [report EXCEPT ![d] = NoReport]
  /\ Return(d)
  /\ UNCHANGED <<vault, relays, egress>>

Next ==
  \E d \in Devices :
    \/ Seal(d)
    \/ BeginSync(d) \/ SkipDay(d) \/ SkipRecord(d) \/ SkipMirror(d)
    \/ \E form \in Forms : Send(d, form)
    \/ Log(d) \/ LogFails(d) \/ EndSync(d)
    \/ BeginRestore(d) \/ AdoptGenesis(d) \/ ForgetChainId(d)
    \/ InsertDay(d) \/ RefuseDay(d) \/ BecomeReplica(d)
    \/ Crash(d)

Spec == Init /\ [][Next]_vars

-----------------------------------------------------------------------------
Days == [seq : Nat \ {0}, prev : Seq(Devices), link : Seq(Devices)]
Events == [author : {"vault"}, form : Forms, day : Days]
Reports == [published : SUBSET Nat, mirrored : SUBSET Nat, already : SUBSET Nat,
            failed : SUBSET Nat, unmirrored : SUBSET Nat]
Runs == [pc : {"idle", "record", "mirror", "sent", "adopt", "forget", "insert", "last"},
         todo : Seq([day : Days, needs : SUBSET Forms]), form : Forms, acked : BOOLEAN]

\* Every variable holds a value of its type and days are numbered from 1.
TypeOK ==
  /\ days \in [Devices -> Seq(Days)]
  /\ \A d \in Devices : \A i \in DOMAIN days[d] : days[d][i].seq = i
  /\ genesis \in [Devices -> Seq(Devices)]
  /\ chainId \in [Devices -> BOOLEAN]
  /\ role \in [Devices -> {"sealer", "replica"}]
  /\ egress \in [Devices -> SUBSET Events]
  /\ relays \subseteq Events
  /\ report \in [Devices -> Reports]
  /\ proc \in [Devices -> Runs]
  /\ \A d \in Devices : proc[d].pc \notin {"idle", "record", "last"} => proc[d].todo # <<>>

IsPrefixOf(s, t) == Len(s) <= Len(t) /\ \A i \in DOMAIN s : s[i] = t[i]

\* Whatever dies when and whatever relays forget, answer in part or make up: a
\* restored vault holds a prefix of the chain that was backed up (sync.rs,
\* restore).
RestoredIsPrefix == \A d \in Devices \ {Home} : IsPrefixOf(days[d], days[Home])

\* verify_run over a vault's days, from the genesis link it stores.
LinksVerify(d) ==
  \A i \in DOMAIN days[d] :
    days[d][i].prev = IF i = 1 THEN genesis[d] ELSE days[d][i - 1].link

\* Every vault's links verify from its own genesis link at every moment, also
\* in the middle of a restore that has adopted another vault's genesis.
ChainVerifies == \A d \in Devices : LinksVerify(d)

\* A day that `sync` calls published, mirrored or already there has been in
\* that form on some relay, and it was this vault's day: no refusal, lost
\* answer or stranger's event is taken for a backup.
ReportIsTrue ==
  \A d \in Devices : \A i \in DOMAIN days[d] :
    LET backed(form) == Event(form, days[d][i]) \in relays IN
    /\ i \in report[d].published => backed("record")
    /\ i \in report[d].mirrored => backed("mirror")
    /\ i \in report[d].already => backed("record") /\ backed("mirror")

\* A sync that ends with neither failed days nor missing mirrors leaves every
\* day it set out with backed up in both forms.
CleanSyncIsComplete ==
  \A d \in Devices :
    LET r == report[d] IN
    proc[d].pc = "record" /\ proc[d].todo = <<>> /\ r.failed = {} /\ r.unmirrored = {} =>
      \A i \in DOMAIN days[d] : \A form \in Forms : Event(form, days[d][i]) \in relays

\* A publish is only counted when the egress log has its row (I5).
PublishedIsLogged ==
  \A d \in Devices : \A i \in DOMAIN days[d] :
    /\ i \in report[d].published => Event("record", days[d][i]) \in egress[d]
    /\ i \in report[d].mirrored => Event("mirror", days[d][i]) \in egress[d]

-----------------------------------------------------------------------------
\* Violated: "exactly one sealing device per chain" (SPEC Q10) - the chains of
\* any two vaults of one seed never diverge.
OneChain ==
  \A d, e \in Devices : IsPrefixOf(days[d], days[e]) \/ IsPrefixOf(days[e], days[d])

\* Violated: nothing leaves the device without an egress row (I5), once no
\* publish is under way.
EgressLogged ==
  (\A d \in Devices : proc[d].pc = "idle") => relays \subseteq UNION {egress[d] : d \in Devices}

\* Violated: a revocation can always be published (ghost.rs, revoke) - the
\* manifest it starts with needs the chain id, which `ghostr restore` run on
\* the sealing vault drops before it finds that the days are there already.
ManifestPossible == chainId[Home]

\* Violated: the device that has been sealing all along still is (sync.rs,
\* restore) - `ghostr restore` run on it while the relays hold nothing yet
\* makes it a replica, and no command makes it a sealer again.
HomeStillSeals == role[Home] = "sealer"
=============================================================================
