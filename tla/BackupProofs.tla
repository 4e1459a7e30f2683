---------------------------- MODULE BackupProofs ----------------------------
(***************************************************************************)
(* While one device seals, nothing the relays and crashes can do makes a   *)
(* restored vault differ from a prefix of that device's chain, or a sync   *)
(* report a backup that is not there.                                      *)
(*                                                                         *)
(* None of the properties is inductive.  What carries them is that every   *)
(* day in flight - stored by a relay, or in the hands of a sync or restore *)
(* - is the day of the home chain with its number (BackedUp, InHand), and  *)
(* that a vault has adopted the home genesis before it holds a day         *)
(* (Joined).                                                               *)
(*                                                                         *)
(* The last part is about the events themselves: who reads them, who can   *)
(* have signed them, for every key and every note.                         *)
(***************************************************************************)
EXTENDS Backup, SequenceTheorems, TLAPS

CONSTANTS HexDigits, MaxTime   \* of Events
Ev == INSTANCE Events

\* The day with that number on that chain.
On(chain, day) == day.seq \in DOMAIN chain /\ chain[day.seq] = day

BackedUp == \A e \in relays : On(days[Home], e.day)

\* A process holds days of the home chain, starts a restore with day 1, and has
\* adopted the home genesis before it inserts.
Holds(d, run) ==
  /\ \A i \in DOMAIN run.todo : On(days[Home], run.todo[i].day)
  /\ run.pc = "adopt" => Head(run.todo).day.seq = 1
  /\ run.pc \in {"forget", "insert"} => genesis[d] = genesis[Home]

InHand == \A d \in Devices : Holds(d, proc[d])

Joined == \A d \in Devices : days[d] # <<>> => genesis[d] = genesis[Home]

Chained == BackedUp /\ InHand /\ Joined /\ RestoredIsPrefix /\ LinksVerify(Home)

-----------------------------------------------------------------------------
LEMMA TailElements ==
  ASSUME NEW S, NEW s \in Seq(S), s # <<>>
  PROVE  /\ Tail(s) \in Seq(S) /\ Head(s) \in S
         /\ 1 \in DOMAIN s /\ Head(s) = s[1]
         /\ \A i \in DOMAIN Tail(s) : i + 1 \in DOMAIN s /\ Tail(s)[i] = s[i + 1]
  OBVIOUS

LEMMA AppendElements ==
  ASSUME NEW S, NEW s \in Seq(S), NEW e \in S
  PROVE  /\ Append(s, e) \in Seq(S) /\ Append(s, e) # <<>>
         /\ Len(Append(s, e)) = Len(s) + 1
         /\ DOMAIN s = 1..Len(s) /\ DOMAIN Append(s, e) = 1..(Len(s) + 1)
         /\ \A i \in DOMAIN s : Append(s, e)[i] = s[i]
         /\ Append(s, e)[Len(s) + 1] = e
  OBVIOUS

\* Whatever a fetch returns, what can be made of it comes from the relays.
LEMMA AnswersAreEvents ==
  ASSUME NEW got \in Answers
  PROVE  {e \in got : e.author = "vault"} \subseteq relays
  <1>1. PICK own \in SUBSET relays, other \in {{}, Foreign} : got = own \cup other
    BY DEF Answers
  <1>2. \A e \in Foreign : e.author = "stranger"
    BY DEF Foreign
  <1>3. \A e \in other : e.author # "vault"
    <2>1. CASE other = {}
      BY <2>1
    <2>2. CASE other = Foreign
      BY <1>2, <2>2
    <2> QED
      BY <2>1, <2>2
  <1> QED
    BY <1>1, <1>3

LEMMA ChainElements ==
  ASSUME TypeOK, NEW got \in Answers, NEW chain \in Chains(got)
  PROVE  /\ chain \in Seq(Days)
         /\ \A i \in DOMAIN chain :
              chain[i].seq = i /\ \E e \in relays : e.day = chain[i]
  <1>1. PICK n \in 0..MaxDays : /\ chain \in [1..n -> Readable(got)]
                                /\ \A i \in 1..n : chain[i].seq = i
    BY DEF Chains
  <1>2. \A day \in Readable(got) : day \in Days /\ \E e \in relays : e.day = day
    BY AnswersAreEvents DEF Readable, TypeOK, Events
  <1>3. n \in Nat
    BY BackupAssumption
  <1>4. chain \in Seq(Days)
    BY <1>1, <1>2, <1>3
  <1> QED
    BY <1>1, <1>2, <1>4

-----------------------------------------------------------------------------
\* Types.  Most steps only move a process; what they move it to is a Run.
Moves(d, run) == run \in Runs /\ (run.pc \notin {"idle", "record", "last"} => run.todo # <<>>)

LEMMA MoveTypes ==
  ASSUME TypeOK, NEW d \in Devices, NEW run,
         proc' = [proc EXCEPT ![d] = run], Moves(d, run)
  PROVE  /\ proc' \in [Devices -> Runs]
         /\ \A e \in Devices : proc'[e].pc \notin {"idle", "record", "last"} => proc'[e].todo # <<>>
  BY DEF TypeOK, Moves

LEMMA IdleIsRun == ASSUME NEW d \in Devices PROVE Moves(d, Idle)
  BY DEF Moves, Idle, Runs, Forms

LEMMA InitTypes == Init => TypeOK
  <1> SUFFICES ASSUME Init PROVE TypeOK
    OBVIOUS
  <1>1. days \in [Devices -> Seq(Days)] /\ \A d \in Devices : DOMAIN days[d] = {}
    BY DEF Init
  <1>2. genesis \in [Devices -> Seq(Devices)]
    BY DEF Init, Minted
  <1>3. report \in [Devices -> Reports]
    BY DEF Init, NoReport, Reports
  <1>4. proc \in [Devices -> Runs] /\ \A d \in Devices : proc[d].pc = "idle"
    BY DEF Init, Idle, Runs, Forms
  <1> QED
    BY <1>1, <1>2, <1>3, <1>4 DEF Init, TypeOK

\* What a process holds, and what it holds after the day in hand.
LEMMA RunTypes ==
  ASSUME TypeOK, NEW d \in Devices
  PROVE  /\ proc[d] \in Runs /\ proc[d].todo \in Seq([day : Days, needs : SUBSET Forms])
         /\ proc[d].todo # <<>> =>
              /\ Today(d) \in Days /\ Today(d).seq \in Nat
              /\ Tail(proc[d].todo) \in Seq([day : Days, needs : SUBSET Forms])
         /\ proc[d].pc \notin {"idle", "record", "last"} => proc[d].todo # <<>>
  <1>1. proc[d] \in Runs /\ proc[d].todo \in Seq([day : Days, needs : SUBSET Forms])
    BY DEF TypeOK, Runs
  <1>2. ASSUME proc[d].todo # <<>>
        PROVE  /\ Head(proc[d].todo) \in [day : Days, needs : SUBSET Forms]
               /\ Tail(proc[d].todo) \in Seq([day : Days, needs : SUBSET Forms])
    BY <1>1, <1>2, TailElements
  <1> QED
    BY <1>1, <1>2 DEF TypeOK, Today, Days

LEMMA NextDayTypes ==
  ASSUME TypeOK, NEW d \in Devices, proc[d].todo # <<>>, NextDay(d)
  PROVE  /\ proc' \in [Devices -> Runs]
         /\ \A e \in Devices : proc'[e].pc \notin {"idle", "record", "last"} => proc'[e].todo # <<>>
  <1> DEFINE run == [Idle EXCEPT !.pc = "record", !.todo = Tail(proc[d].todo)]
  <1>1. Moves(d, run)
    BY RunTypes DEF Moves, Idle, Runs, Forms
  <1> QED
    BY <1>1, MoveTypes DEF NextDay

LEMMA ReturnTypes ==
  ASSUME TypeOK, NEW d \in Devices, Return(d)
  PROVE  /\ proc' \in [Devices -> Runs]
         /\ \A e \in Devices : proc'[e].pc \notin {"idle", "record", "last"} => proc'[e].todo # <<>>
  BY MoveTypes, IdleIsRun DEF Return

LEMMA GotoTypes ==
  ASSUME TypeOK, NEW d \in Devices, proc[d].todo # <<>>,
         NEW pc \in {"mirror", "forget", "insert"}, Goto(d, pc)
  PROVE  /\ proc' \in [Devices -> Runs]
         /\ \A e \in Devices : proc'[e].pc \notin {"idle", "record", "last"} => proc'[e].todo # <<>>
  <1> DEFINE run == [proc[d] EXCEPT !.pc = pc]
  <1>1. Moves(d, run)
    BY RunTypes DEF Moves, Runs
  <1>2. proc' = [proc EXCEPT ![d] = run]
    BY DEF Goto
  <1> QED
    BY <1>1, <1>2, MoveTypes

\* The report of a step only gains the number of the day in hand.
LEMMA ReportTypes ==
  ASSUME TypeOK, NEW d \in Devices, NEW seq \in Nat,
         \/ report' = [report EXCEPT ![d].published = @ \cup {seq}]
         \/ report' = [report EXCEPT ![d].mirrored = @ \cup {seq}]
         \/ report' = [report EXCEPT ![d].already = @ \cup {seq}]
         \/ report' = [report EXCEPT ![d].failed = @ \cup {seq}]
         \/ report' = [report EXCEPT ![d].unmirrored = @ \cup {seq}]
         \/ report' = [report EXCEPT ![d] = NoReport]
  PROVE  report' \in [Devices -> Reports]
  <1>1. report \in [Devices -> Reports] /\ report[d] \in Reports
    BY DEF TypeOK
  <1>2. ASSUME NEW f \in {"published", "mirrored", "already", "failed", "unmirrored"}
        PROVE  [report[d] EXCEPT ![f] = @ \cup {seq}] \in Reports
    BY <1>1 DEF Reports
  <1>3. NoReport \in Reports
    BY DEF Reports, NoReport
  <1>4. PICK row \in Reports : report' = [report EXCEPT ![d] = row]
    <2>1. CASE report' = [report EXCEPT ![d].published = @ \cup {seq}]
      BY <1>2, <2>1
    <2>2. CASE report' = [report EXCEPT ![d].mirrored = @ \cup {seq}]
      BY <1>2, <2>2
    <2>3. CASE report' = [report EXCEPT ![d].already = @ \cup {seq}]
      BY <1>2, <2>3
    <2>4. CASE report' = [report EXCEPT ![d].failed = @ \cup {seq}]
      BY <1>2, <2>4
    <2>5. CASE report' = [report EXCEPT ![d].unmirrored = @ \cup {seq}]
      BY <1>2, <2>5
    <2> QED
      BY <1>3, <2>1, <2>2, <2>3, <2>4, <2>5
  <1> QED
    BY <1>1, <1>4

LEMMA OutcomeTypes ==
  ASSUME TypeOK, NEW d \in Devices, NEW ok \in BOOLEAN,
         proc[d].pc = "sent", Outcome(d, ok)
  PROVE  /\ report' \in [Devices -> Reports]
         /\ proc' \in [Devices -> Runs]
         /\ \A e \in Devices : proc'[e].pc \notin {"idle", "record", "last"} => proc'[e].todo # <<>>
  <1>1. proc[d].todo # <<>> /\ Today(d).seq \in Nat
    BY RunTypes
  <1>2. report' \in [Devices -> Reports]
    BY <1>1, ReportTypes DEF Outcome
  <1>3. CASE NextDay(d)
    BY <1>1, <1>2, <1>3, NextDayTypes
  <1>4. CASE proc' = [proc EXCEPT ![d].pc = "mirror", ![d].acked = FALSE]
    <2> DEFINE run == [proc[d] EXCEPT !.pc = "mirror", !.acked = FALSE]
    <2>1. Moves(d, run)
      BY <1>1, RunTypes DEF Moves, Runs
    <2>2. proc' = [proc EXCEPT ![d] = run]
      BY <1>4
    <2> QED
      BY <1>2, <2>1, <2>2, MoveTypes
  <1> QED
    BY <1>3, <1>4 DEF Outcome

-----------------------------------------------------------------------------
LEMMA SealedDay ==
  ASSUME TypeOK, NEW d \in Devices
  PROVE  /\ days[d] \in Seq(Days) /\ Len(days[d]) \in Nat /\ TipLink(d) \in Seq(Devices)
         /\ [seq |-> Len(days[d]) + 1, prev |-> TipLink(d), link |-> Link(TipLink(d), d)] \in Days
  <1>1. days[d] \in Seq(Days) /\ Len(days[d]) \in Nat /\ genesis[d] \in Seq(Devices)
    BY DEF TypeOK
  <1>2. TipLink(d) \in Seq(Devices)
    <2>1. CASE days[d] = <<>>
      BY <1>1, <2>1 DEF TipLink
    <2>2. CASE days[d] # <<>>
      <3>1. days[d][Len(days[d])] \in Days
        BY <1>1, <2>2
      <3> QED
        BY <2>2, <3>1 DEF TipLink, Days
    <2> QED
      BY <2>1, <2>2
  <1>3. Link(TipLink(d), d) \in Seq(Devices)
    BY <1>2 DEF Link
  <1> QED
    BY <1>1, <1>2, <1>3 DEF Days

\* A day appended in its place keeps days well typed and numbered.
LEMMA AppendedTypes ==
  ASSUME TypeOK, NEW d \in Devices, NEW day \in Days, day.seq = Len(days[d]) + 1,
         days' = [days EXCEPT ![d] = Append(@, day)]
  PROVE  /\ days' \in [Devices -> Seq(Days)]
         /\ \A e \in Devices : \A i \in DOMAIN days'[e] : days'[e][i].seq = i
  <1>1. days \in [Devices -> Seq(Days)] /\ days[d] \in Seq(Days)
    BY DEF TypeOK
  <1>2. Append(days[d], day) \in Seq(Days)
    BY <1>1
  <1>3. \A i \in DOMAIN Append(days[d], day) : Append(days[d], day)[i].seq = i
    <2> SUFFICES ASSUME NEW i \in 1..(Len(days[d]) + 1) PROVE Append(days[d], day)[i].seq = i
      BY <1>1, AppendElements
    <2>1. CASE i \in DOMAIN days[d]
      BY <1>1, <2>1, AppendElements DEF TypeOK
    <2>2. CASE i = Len(days[d]) + 1
      BY <1>1, <2>2, AppendElements
    <2> QED
      BY <1>1, <2>1, <2>2, AppendElements
  <1>4. days'[d] = Append(days[d], day) /\ \A e \in Devices \ {d} : days'[e] = days[e]
    BY <1>1
  <1>5. days' \in [Devices -> Seq(Days)]
    BY <1>1, <1>2
  <1>6. ASSUME NEW e \in Devices PROVE \A i \in DOMAIN days'[e] : days'[e][i].seq = i
    <2>1. CASE e = d
      BY <1>3, <1>4, <2>1
    <2>2. CASE e # d
      BY <1>4, <2>2 DEF TypeOK
    <2> QED
      BY <2>1, <2>2
  <1> QED
    BY <1>5, <1>6

LEMMA SealTypes == ASSUME TypeOK, NEW d \in Devices, Seal(d) PROVE TypeOK'
  <1> DEFINE day == [seq |-> Len(days[d]) + 1, prev |-> TipLink(d), link |-> Link(TipLink(d), d)]
  <1>1. day \in Days /\ day.seq = Len(days[d]) + 1
    BY SealedDay
  <1>2. days' = [days EXCEPT ![d] = Append(@, day)]
    BY DEF Seal
  <1> HIDE DEF day
  <1>3. /\ days' \in [Devices -> Seq(Days)]
        /\ \A e \in Devices : \A i \in DOMAIN days'[e] : days'[e][i].seq = i
    BY <1>1, <1>2, AppendedTypes
  <1> QED
    BY <1>3 DEF Seal, TypeOK

LEMMA SyncTypes ==
  ASSUME TypeOK, NEW d \in Devices,
         \/ BeginSync(d) \/ SkipDay(d) \/ SkipRecord(d) \/ SkipMirror(d) \/ EndSync(d)
  PROVE  TypeOK'
  <1>1. CASE BeginSync(d)
    <2>1. PICK got \in Answers :
            proc' = [proc EXCEPT ![d] =
              [Idle EXCEPT !.pc = "record",
                !.todo = [i \in DOMAIN days[d] |->
                  [day |-> days[d][i], needs |-> {f \in Forms : i \notin Present(got, f)}]]]]
      BY <1>1 DEF BeginSync
    <2> DEFINE todo == [i \in DOMAIN days[d] |->
                  [day |-> days[d][i], needs |-> {f \in Forms : i \notin Present(got, f)}]]
    <2>2. days[d] \in Seq(Days)
      BY DEF TypeOK
    <2>a. Len(days[d]) \in Nat /\ DOMAIN days[d] = 1..Len(days[d])
      BY <2>2
    <2>b. \A i \in 1..Len(days[d]) : todo[i] \in [day : Days, needs : SUBSET Forms]
      BY <2>2
    <2>c. todo \in [1..Len(days[d]) -> [day : Days, needs : SUBSET Forms]]
      BY <2>a, <2>b
    <2>3. todo \in Seq([day : Days, needs : SUBSET Forms])
      BY <2>a, <2>c
    <2> HIDE DEF todo
    <2>4. Moves(d, [Idle EXCEPT !.pc = "record", !.todo = todo])
      BY <2>3 DEF Moves, Idle, Runs, Forms
    <2>5. proc' = [proc EXCEPT ![d] = [Idle EXCEPT !.pc = "record", !.todo = todo]]
      BY <2>1 DEF todo
    <2> QED
      BY <1>1, <2>4, <2>5, MoveTypes DEF BeginSync, TypeOK, vault
  <1>2. CASE SkipDay(d)
    <2>1. Today(d).seq \in Nat /\ proc[d].todo # <<>>
      BY <1>2, RunTypes DEF SkipDay
    <2>2. report' \in [Devices -> Reports]
      BY <1>2, <2>1, ReportTypes DEF SkipDay
    <2> QED
      BY <1>2, <2>1, <2>2, NextDayTypes DEF SkipDay, TypeOK, vault
  <1>3. CASE SkipRecord(d)
    BY <1>3, GotoTypes DEF SkipRecord, TypeOK, vault
  <1>4. CASE SkipMirror(d)
    <2>1. proc[d].todo # <<>>
      BY <1>4, RunTypes DEF SkipMirror
    <2> QED
      BY <1>4, <2>1, NextDayTypes DEF SkipMirror, TypeOK, vault
  <1>5. CASE EndSync(d)
    <2>1. report' \in [Devices -> Reports]
      BY <1>5, ReportTypes DEF EndSync
    <2> QED
      BY <1>5, <2>1, ReturnTypes DEF EndSync, TypeOK, vault
  <1> QED
    BY <1>1, <1>2, <1>3, <1>4, <1>5

LEMMA PublishTypes ==
  ASSUME TypeOK, NEW d \in Devices,
         \/ \E form \in Forms : Send(d, form)
         \/ Log(d) \/ LogFails(d)
  PROVE  TypeOK'
  <1>1. ASSUME NEW form \in Forms, Send(d, form) PROVE TypeOK'
    <2>1. PICK kept \in BOOLEAN, ok \in BOOLEAN :
            /\ relays' = IF kept THEN relays \cup {Event(form, Today(d))} ELSE relays
            /\ proc' = [proc EXCEPT ![d].pc = "sent", ![d].form = form, ![d].acked = ok]
      BY <1>1 DEF Send
    <2>2. proc[d].todo # <<>> /\ Today(d) \in Days
      BY <1>1, RunTypes DEF Send
    <2>3. relays' \subseteq Events
      BY <2>1, <2>2 DEF TypeOK, Event, Events
    <2> DEFINE run == [proc[d] EXCEPT !.pc = "sent", !.form = form, !.acked = ok]
    <2>4. Moves(d, run)
      BY <2>2, RunTypes DEF Moves, Runs
    <2>5. proc' = [proc EXCEPT ![d] = run]
      BY <2>1
    <2> HIDE DEF run
    <2> QED
      BY <1>1, <2>3, <2>4, <2>5, MoveTypes DEF Send, TypeOK, vault
  <1>2. ASSUME NEW ok \in BOOLEAN, proc[d].pc = "sent", Outcome(d, ok),
               UNCHANGED <<vault, relays>>, egress' \in [Devices -> SUBSET Events]
        PROVE  TypeOK'
    BY <1>2, OutcomeTypes DEF TypeOK, vault
  <1>3. CASE Log(d)
    <2>1. proc[d].acked \in BOOLEAN /\ proc[d].form \in Forms
      BY RunTypes DEF Runs
    <2>2. proc[d].pc = "sent" /\ Today(d) \in Days
      BY <1>3, RunTypes DEF Log
    <2>3. Event(proc[d].form, Today(d)) \in Events
      BY <2>1, <2>2 DEF Event, Events
    <2>4. egress' \in [Devices -> SUBSET Events]
      BY <1>3, <2>3 DEF Log, TypeOK
    <2> QED
      BY <1>2, <1>3, <2>1, <2>4 DEF Log
  <1>4. CASE LogFails(d)
    BY <1>2, <1>4 DEF LogFails, TypeOK
  <1> QED
    BY <1>1, <1>3, <1>4

LEMMA RestoreTypes ==
  ASSUME TypeOK, NEW d \in Devices,
         \/ BeginRestore(d) \/ AdoptGenesis(d) \/ ForgetChainId(d)
         \/ InsertDay(d) \/ RefuseDay(d) \/ BecomeReplica(d) \/ Crash(d)
  PROVE  TypeOK'
  <1>1. CASE BeginRestore(d)
    <2>1. PICK got \in Answers : \E chain \in Chains(got) :
            proc' = [proc EXCEPT ![d] =
              [Idle EXCEPT !.pc = IF chain = <<>> THEN "last" ELSE "adopt",
                           !.todo = [i \in DOMAIN chain |-> [day |-> chain[i], needs |-> {}]]]]
      BY <1>1 DEF BeginRestore
    <2>2. PICK chain \in Chains(got) :
            proc' = [proc EXCEPT ![d] =
              [Idle EXCEPT !.pc = IF chain = <<>> THEN "last" ELSE "adopt",
                           !.todo = [i \in DOMAIN chain |-> [day |-> chain[i], needs |-> {}]]]]
      BY <2>1
    <2> DEFINE todo == [i \in DOMAIN chain |-> [day |-> chain[i], needs |-> {}]]
    <2>3. chain \in Seq(Days)
      BY ChainElements
    <2>4. Len(chain) \in Nat /\ DOMAIN chain = 1..Len(chain)
      BY <2>3
    <2>5. todo \in [1..Len(chain) -> [day : Days, needs : SUBSET Forms]]
      BY <2>3, <2>4
    <2>6. todo \in Seq([day : Days, needs : SUBSET Forms])
      BY <2>4, <2>5
    <2>7. chain # <<>> => todo # <<>>
      BY <2>3, <2>4
    <2> DEFINE run == [Idle EXCEPT !.pc = IF chain = <<>> THEN "last" ELSE "adopt", !.todo = todo]
    <2>8. proc' = [proc EXCEPT ![d] = run]
      BY <2>2
    <2> HIDE DEF todo
    <2>9. Moves(d, run)
      BY <2>6, <2>7 DEF Moves, Idle, Runs, Forms
    <2> HIDE DEF run
    <2> QED
      BY <1>1, <2>8, <2>9, MoveTypes DEF BeginRestore, TypeOK, vault
  <1>2. CASE AdoptGenesis(d)
    <2>1. proc[d].todo # <<>> /\ Today(d).prev \in Seq(Devices)
      BY <1>2, RunTypes DEF AdoptGenesis, Days
    <2> QED
      BY <1>2, <2>1, GotoTypes DEF AdoptGenesis, TypeOK
  <1>3. CASE ForgetChainId(d)
    <2>1. proc[d].todo # <<>>
      BY <1>3, RunTypes DEF ForgetChainId
    <2> QED
      BY <1>3, <2>1, GotoTypes DEF ForgetChainId, TypeOK
  <1>4. CASE InsertDay(d)
    <2>1. Today(d) \in Days /\ Today(d).seq = Len(days[d]) + 1
      BY <1>4, RunTypes DEF InsertDay, Follows
    <2>2. days' = [days EXCEPT ![d] = Append(@, Today(d))]
      BY <1>4 DEF InsertDay
    <2>3. /\ days' \in [Devices -> Seq(Days)]
          /\ \A e \in Devices : \A i \in DOMAIN days'[e] : days'[e][i].seq = i
      BY <2>1, <2>2, AppendedTypes
    <2> DEFINE run == [proc[d] EXCEPT !.todo = Tail(proc[d].todo),
                         !.pc = IF Tail(proc[d].todo) = <<>> THEN "last" ELSE "insert"]
    <2>4. Moves(d, run)
      BY <1>4, RunTypes DEF InsertDay, Moves, Runs
    <2>5. proc' = [proc EXCEPT ![d] = run]
      BY <1>4 DEF InsertDay
    <2> HIDE DEF run
    <2> QED
      BY <1>4, <2>3, <2>4, <2>5, MoveTypes DEF InsertDay, TypeOK
  <1>5. CASE RefuseDay(d)
    BY <1>5, ReturnTypes DEF RefuseDay, TypeOK, vault
  <1>6. CASE BecomeReplica(d)
    BY <1>6, ReturnTypes DEF BecomeReplica, TypeOK
  <1>7. CASE Crash(d)
    <2>1. report' \in [Devices -> Reports]
      BY <1>7, ReportTypes DEF Crash
    <2> QED
      BY <1>7, <2>1, ReturnTypes DEF Crash, TypeOK, vault
  <1> QED
    BY <1>1, <1>2, <1>3, <1>4, <1>5, <1>6, <1>7

LEMMA StepTypes == TypeOK /\ [Next]_vars => TypeOK'
  <1> SUFFICES ASSUME TypeOK, [Next]_vars PROVE TypeOK'
    OBVIOUS
  <1>1. ASSUME NEW d \in Devices, Seal(d) PROVE TypeOK'
    BY <1>1, SealTypes
  <1>3. CASE UNCHANGED vars
    BY <1>3 DEF vars, vault, TypeOK
  <1> QED
    BY <1>1, <1>3, SyncTypes, PublishTypes, RestoreTypes DEF Next

\* Days are numbered from 1 and every row has its type at every moment.
THEOREM Typed == Spec => []TypeOK
  BY InitTypes, StepTypes, PTL DEF Spec

-----------------------------------------------------------------------------
\* A chain that grows keeps the days it had.
LEMMA Grown ==
  ASSUME NEW c \in Seq(Days), NEW new \in Days, NEW day, On(c, day)
  PROVE  On(Append(c, new), day)
  BY AppendElements DEF On

\* A process that moves on, with nothing else changed that Chained is about.
LEMMA ChainedMove ==
  ASSUME TypeOK, Chained, NEW d \in Devices, NEW run, Holds(d, run),
         proc' = [proc EXCEPT ![d] = run], UNCHANGED <<days, genesis, relays>>
  PROVE  Chained'
  <1>1. proc'[d] = run /\ \A e \in Devices \ {d} : proc'[e] = proc[e]
    BY DEF TypeOK
  <1>2. \A e \in Devices : Holds(e, proc'[e])
    BY <1>1 DEF Chained, InHand
  <1>3. InHand'
    BY <1>2 DEF InHand, Holds
  <1>4. BackedUp' /\ Joined' /\ RestoredIsPrefix' /\ LinksVerify(Home)'
    BY BackupAssumption DEF Chained, BackedUp, Joined, RestoredIsPrefix, LinksVerify
  <1> QED
    BY <1>3, <1>4 DEF Chained

LEMMA HoldsRest ==
  ASSUME TypeOK, Chained, NEW d \in Devices, proc[d].todo # <<>>
  PROVE  /\ On(days[Home], Today(d))
         /\ \A i \in DOMAIN Tail(proc[d].todo) : On(days[Home], Tail(proc[d].todo)[i].day)
  <1>1. /\ proc[d].todo \in Seq([day : Days, needs : SUBSET Forms])
        /\ \A i \in DOMAIN proc[d].todo : On(days[Home], proc[d].todo[i].day)
    BY RunTypes DEF Chained, InHand, Holds
  <1>2. 1 \in DOMAIN proc[d].todo /\ Head(proc[d].todo) = proc[d].todo[1]
    BY <1>1, TailElements
  <1>3. \A i \in DOMAIN Tail(proc[d].todo) :
          i + 1 \in DOMAIN proc[d].todo /\ Tail(proc[d].todo)[i] = proc[d].todo[i + 1]
    BY <1>1, TailElements
  <1> QED
    BY <1>1, <1>2, <1>3 DEF Today

LEMMA ChainedReturn ==
  ASSUME TypeOK, Chained, NEW d \in Devices, Return(d), UNCHANGED <<days, genesis, relays>>
  PROVE  Chained'
  <1>1. Holds(d, Idle)
    BY DEF Holds, Idle
  <1> QED
    BY <1>1, ChainedMove DEF Return

LEMMA ChainedNextDay ==
  ASSUME TypeOK, Chained, NEW d \in Devices, proc[d].todo # <<>>, NextDay(d),
         UNCHANGED <<days, genesis, relays>>
  PROVE  Chained'
  <1>1. Holds(d, [Idle EXCEPT !.pc = "record", !.todo = Tail(proc[d].todo)])
    BY HoldsRest DEF Holds, Idle
  <1> QED
    BY <1>1, ChainedMove DEF NextDay

LEMMA ChainedGoto ==
  ASSUME TypeOK, Chained, NEW d \in Devices, NEW pc \in {"mirror", "sent"},
         NEW form, NEW ok,
         \/ proc' = [proc EXCEPT ![d].pc = pc]
         \/ proc' = [proc EXCEPT ![d].pc = pc, ![d].acked = ok]
         \/ proc' = [proc EXCEPT ![d].pc = pc, ![d].form = form, ![d].acked = ok],
         UNCHANGED <<days, genesis, relays>>
  PROVE  Chained'
  <1>1. proc \in [Devices -> Runs] /\ Holds(d, proc[d])
    BY DEF TypeOK, Chained, InHand
  <1>2. PICK run : /\ proc' = [proc EXCEPT ![d] = run]
                   /\ run.pc = pc /\ run.todo = proc[d].todo
    BY <1>1 DEF Runs
  <1>3. Holds(d, run)
    BY <1>1, <1>2 DEF Holds
  <1> QED
    BY <1>2, <1>3, ChainedMove

\* Every vault's days are days of the home chain.
LEMMA PrefixDays ==
  ASSUME TypeOK, RestoredIsPrefix, NEW d \in Devices, NEW i \in DOMAIN days[d]
  PROVE  On(days[Home], days[d][i])
  <1>1. days[d][i].seq = i
    BY DEF TypeOK
  <1>2. CASE d = Home
    BY <1>1, <1>2 DEF On
  <1>3. CASE d # Home
    <2>1. /\ Len(days[d]) <= Len(days[Home]) /\ days[d][i] = days[Home][i]
      BY <1>3 DEF RestoredIsPrefix, IsPrefixOf
    <2>2. days[d] \in Seq(Days) /\ days[Home] \in Seq(Days)
      BY BackupAssumption DEF TypeOK
    <2>3. i \in 1..Len(days[Home])
      BY <2>1, <2>2
    <2> QED
      BY <1>1, <2>1, <2>2, <2>3 DEF On
  <1> QED
    BY <1>2, <1>3

LEMMA ChainedInit == Init => Chained
  <1> SUFFICES ASSUME Init PROVE Chained
    OBVIOUS
  <1>1. \A d \in Devices : days[d] = <<>> /\ proc[d] = Idle
    BY DEF Init
  <1>2. Home \in Devices
    BY BackupAssumption
  <1>3. BackedUp /\ Joined /\ RestoredIsPrefix /\ LinksVerify(Home)
    BY <1>1, <1>2 DEF Init, BackedUp, Joined, RestoredIsPrefix, IsPrefixOf, LinksVerify
  <1>4. \A d \in Devices : Holds(d, Idle)
    BY DEF Holds, Idle
  <1>5. InHand
    BY <1>1, <1>4 DEF InHand
  <1> QED
    BY <1>3, <1>5 DEF Chained

\* The home chain grows by a day that links to its tip.
LEMMA ChainedSeal ==
  ASSUME TypeOK, Chained, Seal(Home)
  PROVE  Chained'
  <1> DEFINE day == [seq |-> Len(days[Home]) + 1, prev |-> TipLink(Home),
                     link |-> Link(TipLink(Home), Home)]
  <1>1. /\ days[Home] \in Seq(Days) /\ Len(days[Home]) \in Nat /\ day \in Days
        /\ Home \in Devices
    BY SealedDay, BackupAssumption
  <1>2. /\ days'[Home] = Append(days[Home], day)
        /\ \A e \in Devices \ {Home} : days'[e] = days[e]
        /\ UNCHANGED <<genesis, relays, proc>>
    BY <1>1 DEF Seal, TypeOK
  <1>3. day.prev = TipLink(Home)
    OBVIOUS
  <1> HIDE DEF day
  <1>4. ASSUME NEW x, On(days[Home], x) PROVE On(days'[Home], x)
    BY <1>1, <1>2, <1>4, Grown
  <1>5. BackedUp'
    BY <1>2, <1>4 DEF Chained, BackedUp
  <1>6. InHand'
    BY <1>2, <1>4 DEF Chained, InHand, Holds
  <1>7. Joined'
    BY <1>2 DEF Chained, Joined
  <1>8. RestoredIsPrefix'
    <2> SUFFICES ASSUME NEW d \in Devices \ {Home} PROVE IsPrefixOf(days'[d], days'[Home])
      BY DEF RestoredIsPrefix, IsPrefixOf
    <2>1. days[d] \in Seq(Days) /\ IsPrefixOf(days[d], days[Home]) /\ days'[d] = days[d]
      BY <1>2 DEF Chained, RestoredIsPrefix, TypeOK
    <2>2. Len(days[d]) <= Len(days[Home]) /\ \A i \in DOMAIN days[d] : i \in DOMAIN days[Home]
      BY <1>1, <2>1 DEF IsPrefixOf
    <2> QED
      BY <1>1, <1>2, <2>1, <2>2, AppendElements DEF IsPrefixOf
  <1>9. LinksVerify(Home)'
    <2> SUFFICES ASSUME NEW i \in DOMAIN days'[Home]
                 PROVE  days'[Home][i].prev =
                          IF i = 1 THEN genesis'[Home] ELSE days'[Home][i - 1].link
      BY DEF LinksVerify
    <2>1. /\ DOMAIN days[Home] = 1..Len(days[Home]) /\ i \in 1..(Len(days[Home]) + 1)
          /\ \A j \in DOMAIN days[Home] : days'[Home][j] = days[Home][j]
          /\ days'[Home][Len(days[Home]) + 1] = day
      BY <1>1, <1>2, AppendElements
    <2>2. CASE i \in DOMAIN days[Home]
      <3>1. i # 1 => i - 1 \in DOMAIN days[Home]
        BY <1>1, <2>1, <2>2
      <3> QED
        BY <1>2, <2>1, <2>2, <3>1 DEF Chained, LinksVerify
    <2>3. CASE i = Len(days[Home]) + 1
      <3>1. days'[Home][i].prev = TipLink(Home)
        BY <1>3, <2>1, <2>3
      <3>2. CASE days[Home] = <<>>
        BY <1>1, <1>2, <2>3, <3>1, <3>2 DEF TipLink
      <3>3. CASE days[Home] # <<>>
        BY <1>1, <2>1, <2>3, <3>1, <3>3 DEF TipLink
      <3> QED
        BY <3>2, <3>3
    <2> QED
      BY <1>1, <2>1, <2>2, <2>3
  <1> QED
    BY <1>5, <1>6, <1>7, <1>8, <1>9 DEF Chained

LEMMA ChainedSync ==
  ASSUME TypeOK, Chained, NEW d \in Devices,
         \/ BeginSync(d) \/ SkipDay(d) \/ SkipRecord(d) \/ SkipMirror(d) \/ EndSync(d)
         \/ Log(d) \/ LogFails(d)
  PROVE  Chained'
  <1>1. CASE BeginSync(d)
    <2>1. PICK got \in Answers :
            proc' = [proc EXCEPT ![d] =
              [Idle EXCEPT !.pc = "record",
                !.todo = [i \in DOMAIN days[d] |->
                  [day |-> days[d][i], needs |-> {f \in Forms : i \notin Present(got, f)}]]]]
      BY <1>1 DEF BeginSync
    <2> DEFINE todo == [i \in DOMAIN days[d] |->
                  [day |-> days[d][i], needs |-> {f \in Forms : i \notin Present(got, f)}]]
               run == [Idle EXCEPT !.pc = "record", !.todo = todo]
    <2>2. \A i \in DOMAIN todo : On(days[Home], todo[i].day)
      BY PrefixDays DEF Chained
    <2>3. proc' = [proc EXCEPT ![d] = run]
      BY <2>1
    <2> HIDE DEF todo
    <2>4. Holds(d, run)
      BY <2>2 DEF Holds, Idle
    <2> HIDE DEF run
    <2> QED
      BY <1>1, <2>3, <2>4, ChainedMove DEF BeginSync, vault
  <1>2. CASE SkipDay(d)
    BY <1>2, ChainedNextDay DEF SkipDay, vault
  <1>3. CASE SkipRecord(d)
    BY <1>3, ChainedGoto DEF SkipRecord, Goto, vault
  <1>4. CASE SkipMirror(d)
    <2>1. proc[d].todo # <<>>
      BY <1>4, RunTypes DEF SkipMirror
    <2> QED
      BY <1>4, <2>1, ChainedNextDay DEF SkipMirror, vault
  <1>5. CASE EndSync(d)
    BY <1>5, ChainedReturn DEF EndSync, vault
  <1>6. ASSUME NEW ok, proc[d].pc = "sent", Outcome(d, ok), UNCHANGED <<vault, relays>>
        PROVE  Chained'
    <2>1. proc[d].todo # <<>>
      BY <1>6, RunTypes
    <2>2. CASE NextDay(d)
      BY <1>6, <2>1, <2>2, ChainedNextDay DEF vault
    <2>3. CASE proc' = [proc EXCEPT ![d].pc = "mirror", ![d].acked = FALSE]
      BY <1>6, <2>3, ChainedGoto DEF vault
    <2> QED
      BY <1>6, <2>2, <2>3 DEF Outcome
  <1>7. CASE Log(d)
    BY <1>6, <1>7 DEF Log
  <1>8. CASE LogFails(d)
    BY <1>6, <1>8 DEF LogFails
  <1> QED
    BY <1>1, <1>2, <1>3, <1>4, <1>5, <1>7, <1>8

LEMMA ChainedSend ==
  ASSUME TypeOK, Chained, NEW d \in Devices, NEW form \in Forms, Send(d, form)
  PROVE  Chained'
  <1>1. PICK kept \in BOOLEAN, ok \in BOOLEAN :
          /\ relays' = IF kept THEN relays \cup {Event(form, Today(d))} ELSE relays
          /\ proc' = [proc EXCEPT ![d].pc = "sent", ![d].form = form, ![d].acked = ok]
    BY DEF Send
  <1>2. On(days[Home], Today(d)) /\ UNCHANGED <<days, genesis>>
    BY HoldsRest DEF Send, vault
  <1>3. BackedUp'
    BY <1>1, <1>2 DEF Chained, BackedUp, Event
  <1> DEFINE run == [proc[d] EXCEPT !.pc = "sent", !.form = form, !.acked = ok]
  <1>4. Holds(d, proc[d]) /\ proc[d] \in Runs
    BY DEF TypeOK, Chained, InHand
  <1>5. Holds(d, run)
    BY <1>4 DEF Holds, Runs
  <1>6. proc'[d] = run /\ \A e \in Devices \ {d} : proc'[e] = proc[e]
    BY <1>1 DEF TypeOK
  <1> HIDE DEF run
  <1>7. \A e \in Devices : Holds(e, proc'[e])
    BY <1>5, <1>6 DEF Chained, InHand
  <1>8. InHand'
    BY <1>2, <1>7 DEF InHand, Holds
  <1>9. Joined' /\ RestoredIsPrefix' /\ LinksVerify(Home)'
    BY <1>2 DEF Chained, Joined, RestoredIsPrefix, LinksVerify
  <1> QED
    BY <1>3, <1>8, <1>9 DEF Chained

\* The genesis link a restore adopts is the one the home chain starts from.
LEMMA ChainedAdopt ==
  ASSUME TypeOK, Chained, NEW d \in Devices, AdoptGenesis(d)
  PROVE  Chained'
  <1>1. proc[d].todo # <<>> /\ Holds(d, proc[d]) /\ proc[d] \in Runs
    BY RunTypes DEF AdoptGenesis, Chained, InHand
  <1>2. On(days[Home], Today(d)) /\ Today(d).seq = 1
    BY <1>1, HoldsRest DEF AdoptGenesis, Holds, Today
  <1>3. Today(d).prev = genesis[Home]
    BY <1>2 DEF On, Chained, LinksVerify
  <1>4. /\ genesis'[d] = genesis[Home] /\ genesis'[Home] = genesis[Home]
        /\ \A e \in Devices \ {d} : genesis'[e] = genesis[e]
        /\ UNCHANGED <<days, relays>>
    BY <1>3, BackupAssumption DEF AdoptGenesis, TypeOK
  <1> DEFINE run == [proc[d] EXCEPT !.pc = "forget"]
  <1>5. proc'[d] = run /\ \A e \in Devices \ {d} : proc'[e] = proc[e]
    BY DEF AdoptGenesis, Goto, TypeOK
  <1>6. run.pc = "forget" /\ run.todo = proc[d].todo
    BY <1>1 DEF Runs
  <1> HIDE DEF run
  <1>7. InHand'
    <2> SUFFICES ASSUME NEW e \in Devices PROVE Holds(e, proc[e])'
      BY DEF InHand
    <2>1. CASE e = d
      BY <1>1, <1>4, <1>5, <1>6, <2>1 DEF Holds
    <2>2. CASE e # d
      BY <1>4, <1>5, <2>2 DEF Holds, Chained, InHand
    <2> QED
      BY <2>1, <2>2
  <1>8. Joined'
    BY <1>4 DEF Chained, Joined
  <1>9. BackedUp' /\ RestoredIsPrefix' /\ LinksVerify(Home)'
    BY <1>4 DEF Chained, BackedUp, RestoredIsPrefix, LinksVerify
  <1> QED
    BY <1>7, <1>8, <1>9 DEF Chained

\* The home vault holds every day there is, so only another one inserts.
LEMMA ChainedInsert ==
  ASSUME TypeOK, Chained, NEW d \in Devices, InsertDay(d)
  PROVE  Chained'
  <1>1. proc[d].todo # <<>> /\ Holds(d, proc[d]) /\ proc[d] \in Runs /\ Today(d) \in Days
    BY RunTypes DEF InsertDay, Chained, InHand
  <1>2. On(days[Home], Today(d)) /\ Today(d).seq = Len(days[d]) + 1
    BY <1>1, HoldsRest DEF InsertDay, Follows
  <1>3. days[d] \in Seq(Days) /\ days[Home] \in Seq(Days) /\ Home \in Devices
    BY BackupAssumption DEF TypeOK
  <1>4. d # Home
    BY <1>2, <1>3 DEF On
  <1>5. /\ days'[d] = Append(days[d], Today(d))
        /\ \A e \in Devices \ {d} : days'[e] = days[e]
        /\ days'[Home] = days[Home]
        /\ UNCHANGED <<genesis, relays>>
    BY <1>3, <1>4 DEF InsertDay, TypeOK
  <1> DEFINE run == [proc[d] EXCEPT !.todo = Tail(proc[d].todo),
                       !.pc = IF Tail(proc[d].todo) = <<>> THEN "last" ELSE "insert"]
  <1>6. proc'[d] = run /\ \A e \in Devices \ {d} : proc'[e] = proc[e]
    BY DEF InsertDay, TypeOK
  <1>7. run.pc \in {"last", "insert"} /\ run.todo = Tail(proc[d].todo)
    BY <1>1 DEF Runs
  <1> HIDE DEF run
  <1>8. genesis[d] = genesis[Home]
    BY <1>1 DEF InsertDay, Holds
  <1>9. InHand'
    <2> SUFFICES ASSUME NEW e \in Devices PROVE Holds(e, proc[e])'
      BY DEF InHand
    <2>1. CASE e = d
      BY <1>1, <1>5, <1>6, <1>7, <1>8, <2>1, HoldsRest DEF Holds
    <2>2. CASE e # d
      BY <1>5, <1>6, <2>2 DEF Holds, Chained, InHand
    <2> QED
      BY <2>1, <2>2
  <1>10. Joined'
    BY <1>5, <1>8 DEF Chained, Joined
  <1>11. RestoredIsPrefix'
    <2> SUFFICES ASSUME NEW e \in Devices \ {Home} PROVE IsPrefixOf(days'[e], days'[Home])
      BY DEF RestoredIsPrefix, IsPrefixOf
    <2>1. CASE e = d
      <3>1. IsPrefixOf(days[d], days[Home])
        BY <1>4 DEF Chained, RestoredIsPrefix
      <3>2. /\ days[Home][Len(days[d]) + 1] = Today(d)
            /\ Len(days[d]) + 1 \in 1..Len(days[Home])
        BY <1>2, <1>3 DEF On
      <3>3. /\ Len(Append(days[d], Today(d))) = Len(days[d]) + 1
            /\ DOMAIN Append(days[d], Today(d)) = 1..(Len(days[d]) + 1)
            /\ DOMAIN days[d] = 1..Len(days[d])
            /\ \A i \in DOMAIN days[d] : Append(days[d], Today(d))[i] = days[d][i]
            /\ Append(days[d], Today(d))[Len(days[d]) + 1] = Today(d)
        BY <1>1, <1>3, AppendElements
      <3>4. Len(days[d]) \in Nat /\ Len(days[Home]) \in Nat
        BY <1>3
      <3>5. \A i \in 1..(Len(days[d]) + 1) : Append(days[d], Today(d))[i] = days[Home][i]
        <4> SUFFICES ASSUME NEW i \in 1..(Len(days[d]) + 1)
                     PROVE  Append(days[d], Today(d))[i] = days[Home][i]
          OBVIOUS
        <4>1. CASE i = Len(days[d]) + 1
          BY <3>2, <3>3, <4>1
        <4>2. CASE i # Len(days[d]) + 1
          <5>1. i \in DOMAIN days[d]
            BY <3>3, <3>4, <4>2
          <5> QED
            BY <3>1, <3>3, <5>1 DEF IsPrefixOf
        <4> QED
          BY <4>1, <4>2
      <3>6. Len(Append(days[d], Today(d))) <= Len(days[Home])
        BY <3>2, <3>3, <3>4
      <3>7. IsPrefixOf(Append(days[d], Today(d)), days[Home])
        BY <3>3, <3>5, <3>6 DEF IsPrefixOf
      <3> QED
        BY <1>5, <2>1, <3>7
    <2>2. CASE e # d
      BY <1>5, <2>2 DEF Chained, RestoredIsPrefix
    <2> QED
      BY <2>1, <2>2
  <1>12. BackedUp' /\ LinksVerify(Home)'
    BY <1>5 DEF Chained, BackedUp, LinksVerify
  <1> QED
    BY <1>9, <1>10, <1>11, <1>12 DEF Chained

LEMMA ChainedRestore ==
  ASSUME TypeOK, Chained, NEW d \in Devices,
         \/ BeginRestore(d) \/ ForgetChainId(d) \/ RefuseDay(d)
         \/ BecomeReplica(d) \/ Crash(d)
  PROVE  Chained'
  <1>1. CASE BeginRestore(d)
    <2>1. PICK got \in Answers : \E chain \in Chains(got) :
            proc' = [proc EXCEPT ![d] =
              [Idle EXCEPT !.pc = IF chain = <<>> THEN "last" ELSE "adopt",
                           !.todo = [i \in DOMAIN chain |-> [day |-> chain[i], needs |-> {}]]]]
      BY <1>1 DEF BeginRestore
    <2>2. PICK chain \in Chains(got) :
            proc' = [proc EXCEPT ![d] =
              [Idle EXCEPT !.pc = IF chain = <<>> THEN "last" ELSE "adopt",
                           !.todo = [i \in DOMAIN chain |-> [day |-> chain[i], needs |-> {}]]]]
      BY <2>1
    <2>3. /\ chain \in Seq(Days)
          /\ \A i \in DOMAIN chain : chain[i].seq = i /\ \E e \in relays : e.day = chain[i]
      BY ChainElements
    <2> DEFINE todo == [i \in DOMAIN chain |-> [day |-> chain[i], needs |-> {}]]
               run == [Idle EXCEPT !.pc = IF chain = <<>> THEN "last" ELSE "adopt", !.todo = todo]
    <2>4. \A i \in DOMAIN todo : On(days[Home], todo[i].day)
      BY <2>3 DEF Chained, BackedUp
    <2>5. todo \in Seq([day : Days, needs : {{}}]) /\ \A i \in DOMAIN todo : todo[i].day.seq = i
      <3>1. Len(chain) \in Nat /\ DOMAIN chain = 1..Len(chain)
        BY <2>3
      <3>2. todo \in [1..Len(chain) -> [day : Days, needs : {{}}]]
        BY <2>3, <3>1
      <3>3. \A i \in DOMAIN todo : todo[i].day.seq = i
        BY <2>3
      <3> QED
        BY <3>1, <3>2, <3>3
    <2>6. proc' = [proc EXCEPT ![d] = run]
      BY <2>2
    <2>7. run.todo = todo /\ run.pc \in {"last", "adopt"} /\ (run.pc = "adopt" => chain # <<>>)
      BY DEF Idle
    <2>8. chain # <<>> => todo # <<>>
      BY <2>3
    <2> HIDE DEF todo, run
    <2>9. todo # <<>> => Head(todo).day.seq = 1
      BY <2>5, TailElements
    <2>10. Holds(d, run)
      BY <2>4, <2>7, <2>8, <2>9 DEF Holds
    <2> QED
      BY <1>1, <2>6, <2>10, ChainedMove DEF BeginRestore, vault
  <1>2. CASE ForgetChainId(d)
    <2>1. proc[d] \in Runs /\ Holds(d, proc[d])
      BY DEF TypeOK, Chained, InHand
    <2> DEFINE run == [proc[d] EXCEPT !.pc = "insert"]
    <2>2. Holds(d, run)
      BY <1>2, <2>1 DEF ForgetChainId, Holds, Runs
    <2>3. proc' = [proc EXCEPT ![d] = run]
      BY <1>2 DEF ForgetChainId, Goto
    <2> HIDE DEF run
    <2> QED
      BY <1>2, <2>2, <2>3, ChainedMove DEF ForgetChainId
  <1>3. CASE RefuseDay(d)
    BY <1>3, ChainedReturn DEF RefuseDay, vault
  <1>4. CASE BecomeReplica(d)
    BY <1>4, ChainedReturn DEF BecomeReplica
  <1>5. CASE Crash(d)
    BY <1>5, ChainedReturn DEF Crash, vault
  <1> QED
    BY <1>1, <1>2, <1>3, <1>4, <1>5

LEMMA ChainedStep ==
  ASSUME Sealers \subseteq {Home}
  PROVE  TypeOK /\ Chained /\ [Next]_vars => Chained'
  <1> SUFFICES ASSUME TypeOK, Chained, [Next]_vars PROVE Chained'
    OBVIOUS
  <1>1. ASSUME NEW d \in Devices, Seal(d) PROVE Chained'
    <2>1. d = Home
      BY <1>1 DEF Seal
    <2> QED
      BY <1>1, <2>1, ChainedSeal
  <1>2. CASE UNCHANGED vars
    BY <1>2 DEF vars, vault, Chained, BackedUp, InHand, Holds, Joined, RestoredIsPrefix, LinksVerify
  <1> QED
    BY <1>1, <1>2, ChainedSync, ChainedSend, ChainedAdopt, ChainedInsert, ChainedRestore DEF Next

\* A vault on a prefix of the home chain, with its genesis, verifies.
LEMMA ChainedVerifies == TypeOK /\ Chained => ChainVerifies
  <1> SUFFICES ASSUME TypeOK, Chained, NEW d \in Devices, NEW i \in DOMAIN days[d]
               PROVE  days[d][i].prev = IF i = 1 THEN genesis[d] ELSE days[d][i - 1].link
    BY DEF ChainVerifies, LinksVerify
  <1>1. CASE d = Home
    BY <1>1 DEF Chained, LinksVerify
  <1>2. CASE d # Home
    <2>1. days[d] \in Seq(Days) /\ days[Home] \in Seq(Days) /\ Home \in Devices
      BY BackupAssumption DEF TypeOK
    <2>2. genesis[d] = genesis[Home]
      BY <2>1 DEF Chained, Joined
    <2>3. IsPrefixOf(days[d], days[Home])
      BY <1>2 DEF Chained, RestoredIsPrefix
    <2>4. i \in DOMAIN days[Home] /\ (i # 1 => i - 1 \in DOMAIN days[d])
      BY <2>1, <2>3 DEF IsPrefixOf
    <2> QED
      BY <2>2, <2>3, <2>4 DEF IsPrefixOf, Chained, LinksVerify
  <1> QED
    BY <1>1, <1>2

\* While only the home device seals, a restored vault holds a prefix of its chain
\* whatever relays answer and wherever a restore dies.
THEOREM Restored ==
  ASSUME Sealers \subseteq {Home}
  PROVE  Spec => []RestoredIsPrefix
  <1>1. TypeOK /\ Chained => RestoredIsPrefix
    BY DEF Chained
  <1> QED
    BY <1>1, InitTypes, StepTypes, ChainedInit, ChainedStep, PTL DEF Spec

\* ... and every vault's links verify, also in the middle of a restore.
THEOREM Verifies ==
  ASSUME Sealers \subseteq {Home}
  PROVE  Spec => []ChainVerifies
  BY ChainedVerifies, InitTypes, StepTypes, ChainedInit, ChainedStep, PTL DEF Spec

-----------------------------------------------------------------------------
\* What a sync knows.  A form a day does not need is on a relay; a day whose
\* mirror is next has its record there, and an answer that came is true.
InSync(d) == proc[d].pc \in {"record", "mirror", "sent"}

ToDo(d) ==
  \A j \in DOMAIN proc[d].todo :
    /\ On(days[d], proc[d].todo[j].day)
    /\ \A f \in Forms \ proc[d].todo[j].needs : Event(f, proc[d].todo[j].day) \in relays

Sent(d) ==
  /\ proc[d].pc = "mirror" \/ (proc[d].pc = "sent" /\ proc[d].form = "mirror")
       => Event("record", Today(d)) \in relays
  /\ proc[d].pc = "sent" /\ proc[d].acked => Event(proc[d].form, Today(d)) \in relays

\* A day is still to do, or backed up, or the report says that something failed.
Covered(d) ==
  report[d].failed = {} /\ report[d].unmirrored = {} =>
    \A i \in DOMAIN days[d] :
      \/ \E j \in DOMAIN proc[d].todo : proc[d].todo[j].day.seq = i
      \/ \A f \in Forms : Event(f, days[d][i]) \in relays

Reported(d) ==
  \A i \in DOMAIN days[d] :
    /\ i \in report[d].published =>
         Event("record", days[d][i]) \in relays /\ Event("record", days[d][i]) \in egress[d]
    /\ i \in report[d].mirrored =>
         Event("mirror", days[d][i]) \in relays /\ Event("mirror", days[d][i]) \in egress[d]
    /\ i \in report[d].already =>
         Event("record", days[d][i]) \in relays /\ Event("mirror", days[d][i]) \in relays

Backing(d) ==
  IF InSync(d) THEN ToDo(d) /\ Sent(d) /\ Covered(d) /\ Reported(d) ELSE report[d] = NoReport

Accounted == \A d \in Devices : Backing(d)

\* A process is not disturbed by what others do: relays only gain events.
LEMMA BackingFrame ==
  ASSUME NEW d \in Devices, Backing(d), relays \subseteq relays',
         days'[d] = days[d], egress'[d] = egress[d], report'[d] = report[d], proc'[d] = proc[d]
  PROVE  Backing(d)'
  <1>1. InSync(d)' = InSync(d) /\ Today(d)' = Today(d)
    BY DEF InSync, Today
  <1>2. ASSUME ToDo(d) PROVE ToDo(d)'
    BY <1>2 DEF ToDo
  <1>3. ASSUME Sent(d) PROVE Sent(d)'
    BY <1>1, <1>3 DEF Sent
  <1>4. ASSUME Covered(d) PROVE Covered(d)'
    BY <1>4 DEF Covered
  <1>5. ASSUME Reported(d) PROVE Reported(d)'
    BY <1>5 DEF Reported
  <1> QED
    BY <1>1, <1>2, <1>3, <1>4, <1>5 DEF Backing

LEMMA OneByOne ==
  ASSUME Accounted, NEW d \in Devices, Backing(d)', relays \subseteq relays',
         \A e \in Devices \ {d} : /\ days'[e] = days[e] /\ egress'[e] = egress[e]
                                  /\ report'[e] = report[e] /\ proc'[e] = proc[e]
  PROVE  Accounted'
  <1>1. \A e \in Devices \ {d} : Backing(e)'
    BY BackingFrame DEF Accounted
  <1> QED
    BY <1>1 DEF Accounted

\* Leaving a day behind: it must be backed up, or be reported as failed.
LEMMA NextBacks ==
  ASSUME TypeOK, NEW d \in Devices, proc[d].todo # <<>>, NextDay(d),
         ToDo(d), Covered(d), UNCHANGED <<days, relays>>,
         report'[d].failed = {} /\ report'[d].unmirrored = {} =>
           /\ report[d].failed = {} /\ report[d].unmirrored = {}
           /\ \A f \in Forms : Event(f, Today(d)) \in relays
  PROVE  InSync(d)' /\ ToDo(d)' /\ Sent(d)' /\ Covered(d)'
  <1>1. proc'[d].pc = "record" /\ proc'[d].todo = Tail(proc[d].todo)
    BY DEF NextDay, Idle, TypeOK
  <1>2. proc[d].todo \in Seq([day : Days, needs : SUBSET Forms])
    BY RunTypes
  <1>3. /\ Today(d) = proc[d].todo[1].day /\ 1 \in DOMAIN proc[d].todo
        /\ \A j \in DOMAIN Tail(proc[d].todo) :
             j + 1 \in DOMAIN proc[d].todo /\ Tail(proc[d].todo)[j] = proc[d].todo[j + 1]
    BY <1>2, TailElements DEF Today
  <1>4. \A j \in DOMAIN proc[d].todo :
          j # 1 => j - 1 \in DOMAIN Tail(proc[d].todo)
                   /\ Tail(proc[d].todo)[j - 1] = proc[d].todo[j]
    BY <1>2
  <1>5. ToDo(d)'
    BY <1>1, <1>3 DEF ToDo
  <1>6. Covered(d)'
    <2> SUFFICES ASSUME report'[d].failed = {}, report'[d].unmirrored = {},
                        NEW i \in DOMAIN days[d],
                        ~ \A f \in Forms : Event(f, days[d][i]) \in relays
                 PROVE  \E j \in DOMAIN proc'[d].todo : proc'[d].todo[j].day.seq = i
      BY DEF Covered
    <2>1. PICK j \in DOMAIN proc[d].todo : proc[d].todo[j].day.seq = i
      BY DEF Covered
    <2>2. j # 1
      BY <1>3, <2>1 DEF ToDo, On
    <2> QED
      BY <1>1, <1>4, <2>1, <2>2
  <1> QED
    BY <1>1, <1>5, <1>6 DEF InSync, Sent

LEMMA AccountedInit == Init => Accounted
  <1> SUFFICES ASSUME Init, NEW d \in Devices PROVE Backing(d)
    BY DEF Accounted
  <1>1. proc[d].pc = "idle" /\ report[d] = NoReport
    BY DEF Init, Idle
  <1> QED
    BY <1>1 DEF Backing, InSync

\* The steps of a device that is not syncing before or after them.
LEMMA AccountedElsewhere ==
  ASSUME TypeOK, Accounted, NEW d \in Devices, ~InSync(d),
         \/ Seal(d) \/ BeginRestore(d) \/ AdoptGenesis(d) \/ ForgetChainId(d)
         \/ InsertDay(d) \/ RefuseDay(d) \/ BecomeReplica(d)
  PROVE  Accounted'
  <1>1. report[d] = NoReport /\ UNCHANGED <<relays, egress, report>>
    BY DEF Accounted, Backing, Seal, BeginRestore, AdoptGenesis, ForgetChainId, InsertDay,
           RefuseDay, BecomeReplica, vault
  <1>2. \A e \in Devices \ {d} : days'[e] = days[e] /\ proc'[e] = proc[e]
    BY DEF TypeOK, Seal, BeginRestore, AdoptGenesis, ForgetChainId, InsertDay,
           RefuseDay, BecomeReplica, vault, Goto, Return
  <1>3. proc'[d].pc = proc[d].pc \/ proc'[d].pc \in {"idle", "adopt", "forget", "insert", "last"}
    <2>1. proc \in [Devices -> Runs]
      BY DEF TypeOK
    <2>2. CASE Seal(d)
      BY <2>2 DEF Seal
    <2>3. CASE BeginRestore(d)
      BY <2>1, <2>3 DEF BeginRestore, Idle
    <2>4. CASE AdoptGenesis(d) \/ ForgetChainId(d)
      BY <2>1, <2>4 DEF AdoptGenesis, ForgetChainId, Goto, Runs
    <2>5. CASE InsertDay(d)
      BY <2>1, <2>5 DEF InsertDay, Runs
    <2>6. CASE RefuseDay(d) \/ BecomeReplica(d)
      BY <2>1, <2>6 DEF RefuseDay, BecomeReplica, Return, Idle
    <2> QED
      BY <2>2, <2>3, <2>4, <2>5, <2>6
  <1>4. Backing(d)'
    BY <1>1, <1>3 DEF Backing, InSync
  <1> QED
    BY <1>1, <1>2, <1>4, OneByOne

LEMMA AccountedEnds ==
  ASSUME TypeOK, Accounted, NEW d \in Devices, EndSync(d) \/ Crash(d)
  PROVE  Accounted'
  <1>1. /\ proc' = [proc EXCEPT ![d] = Idle] /\ report' = [report EXCEPT ![d] = NoReport]
        /\ UNCHANGED <<days, relays, egress>>
    BY DEF EndSync, Crash, Return, vault
  <1>2. Backing(d)'
    BY <1>1 DEF TypeOK, Backing, InSync, Idle
  <1> QED
    BY <1>1, <1>2, OneByOne DEF TypeOK

\* A seq that the answer gives for a form is the seq of a day of the home chain,
\* so the day of that seq here is the one that is on the relay.
LEMMA PresentIsBacked ==
  ASSUME TypeOK, Chained, NEW got \in Answers, NEW f \in Forms,
         NEW d \in Devices, NEW i \in DOMAIN days[d], i \in Present(got, f)
  PROVE  Event(f, days[d][i]) \in relays
  <1>1. PICK e \in got : e.author = "vault" /\ e.form = f /\ e.day.seq = i
    BY DEF Present
  <1>2. e \in relays
    BY <1>1, AnswersAreEvents
  <1>3. days[Home][i] = e.day
    BY <1>1, <1>2 DEF Chained, BackedUp, On
  <1>4. days[Home][i] = days[d][i]
    <2>1. On(days[Home], days[d][i])
      BY PrefixDays DEF Chained
    <2>2. days[d][i].seq = i
      BY DEF TypeOK
    <2> QED
      BY <2>1, <2>2 DEF On
  <1>5. e = Event(f, e.day)
    BY <1>1, <1>2 DEF TypeOK, Events, Event
  <1> QED
    BY <1>2, <1>3, <1>4, <1>5

LEMMA AccountedBegins ==
  ASSUME TypeOK, Chained, Accounted, NEW d \in Devices, BeginSync(d)
  PROVE  Accounted'
  <1>1. PICK got \in Answers :
          proc' = [proc EXCEPT ![d] =
            [Idle EXCEPT !.pc = "record",
              !.todo = [i \in DOMAIN days[d] |->
                [day |-> days[d][i], needs |-> {f \in Forms : i \notin Present(got, f)}]]]]
    BY DEF BeginSync
  <1> DEFINE todo == [i \in DOMAIN days[d] |->
                [day |-> days[d][i], needs |-> {f \in Forms : i \notin Present(got, f)}]]
  <1>2. proc'[d].pc = "record" /\ proc'[d].todo = todo
    BY <1>1 DEF TypeOK, Idle
  <1>3. /\ report[d] = NoReport /\ UNCHANGED <<days, relays, egress, report>>
        /\ \A e \in Devices \ {d} : proc'[e] = proc[e]
    BY <1>1 DEF BeginSync, vault, Accounted, Backing, InSync, TypeOK
  <1>4. \A i \in DOMAIN todo :
          /\ On(days[d], todo[i].day)
          /\ \A f \in Forms \ todo[i].needs : Event(f, todo[i].day) \in relays
    <2> SUFFICES ASSUME NEW i \in DOMAIN days[d]
                 PROVE  /\ On(days[d], days[d][i])
                        /\ \A f \in Forms : i \in Present(got, f) => Event(f, days[d][i]) \in relays
      OBVIOUS
    <2>1. On(days[d], days[d][i])
      BY DEF TypeOK, On
    <2> QED
      BY <2>1, PresentIsBacked
  <1>5. \A i \in DOMAIN days[d] : i \in DOMAIN todo /\ todo[i].day.seq = i
    BY DEF TypeOK
  <1> HIDE DEF todo
  <1>6. ToDo(d)'
    BY <1>2, <1>3, <1>4 DEF ToDo
  <1>7. Covered(d)'
    BY <1>2, <1>3, <1>5 DEF Covered
  <1>8. Sent(d)' /\ InSync(d)'
    BY <1>2 DEF Sent, InSync
  <1>9. Reported(d)'
    BY <1>3 DEF Reported, NoReport
  <1> QED
    BY <1>3, <1>6, <1>7, <1>8, <1>9, OneByOne DEF Backing

\* In a sync there is a day in hand, and it is this vault's.
LEMMA DayInHand ==
  ASSUME TypeOK, Accounted, NEW d \in Devices, InSync(d), proc[d].todo # <<>>
  PROVE  /\ ToDo(d) /\ Sent(d) /\ Covered(d) /\ Reported(d)
         /\ On(days[d], Today(d))
         /\ \A f \in Forms : ~Needs(d, f) => Event(f, Today(d)) \in relays
  <1>1. ToDo(d) /\ Sent(d) /\ Covered(d) /\ Reported(d)
    BY DEF Accounted, Backing
  <1>2. 1 \in DOMAIN proc[d].todo /\ Head(proc[d].todo) = proc[d].todo[1]
    BY RunTypes, TailElements
  <1> QED
    BY <1>1, <1>2 DEF ToDo, Today, Needs

LEMMA AccountedSkips ==
  ASSUME TypeOK, Accounted, NEW d \in Devices,
         SkipDay(d) \/ SkipRecord(d) \/ SkipMirror(d)
  PROVE  Accounted'
  <1>1. InSync(d) /\ proc[d].todo # <<>>
    BY RunTypes DEF SkipDay, SkipRecord, SkipMirror, InSync
  <1>2. /\ ToDo(d) /\ Sent(d) /\ Covered(d) /\ Reported(d) /\ On(days[d], Today(d))
        /\ \A f \in Forms : ~Needs(d, f) => Event(f, Today(d)) \in relays
    BY <1>1, DayInHand
  <1>3. UNCHANGED <<days, relays, egress>>
    BY DEF SkipDay, SkipRecord, SkipMirror, vault
  <1>4. \A e \in Devices \ {d} : report'[e] = report[e] /\ proc'[e] = proc[e]
    BY DEF TypeOK, SkipDay, SkipRecord, SkipMirror, NextDay, Goto
  <1>5. CASE SkipDay(d)
    <2>1. \A f \in Forms : Event(f, Today(d)) \in relays
      BY <1>2, <1>5 DEF SkipDay, Forms
    <2>2. /\ report'[d].already = report[d].already \cup {Today(d).seq}
          /\ report'[d].published = report[d].published
          /\ report'[d].mirrored = report[d].mirrored
          /\ report'[d].failed = report[d].failed
          /\ report'[d].unmirrored = report[d].unmirrored
      BY <1>5 DEF SkipDay, TypeOK, Reports
    <2>3. InSync(d)' /\ ToDo(d)' /\ Sent(d)' /\ Covered(d)'
      BY <1>1, <1>2, <1>3, <1>5, <2>1, <2>2, NextBacks DEF SkipDay
    <2>4. Reported(d)'
      BY <1>2, <1>3, <2>1, <2>2 DEF Reported, On, Forms
    <2> QED
      BY <1>3, <1>4, <2>3, <2>4, OneByOne DEF Backing
  <1>6. CASE SkipRecord(d)
    <2>1. /\ proc'[d].pc = "mirror" /\ proc'[d].todo = proc[d].todo /\ Today(d)' = Today(d)
      BY <1>6 DEF SkipRecord, Goto, TypeOK, Runs, Today
    <2>2. Event("record", Today(d)) \in relays /\ report' = report
      BY <1>2, <1>6 DEF SkipRecord, Forms
    <2>3. InSync(d)' /\ Sent(d)'
      BY <1>3, <2>1, <2>2 DEF InSync, Sent
    <2>4. ToDo(d)' /\ Covered(d)' /\ Reported(d)'
      BY <1>2, <1>3, <2>1, <2>2 DEF ToDo, Covered, Reported
    <2> QED
      BY <1>3, <1>4, <2>3, <2>4, OneByOne DEF Backing
  <1>7. CASE SkipMirror(d)
    <2>1. \A f \in Forms : Event(f, Today(d)) \in relays
      BY <1>2, <1>7 DEF SkipMirror, Forms, Sent
    <2>2. report' = report
      BY <1>7 DEF SkipMirror
    <2>3. InSync(d)' /\ ToDo(d)' /\ Sent(d)' /\ Covered(d)'
      BY <1>1, <1>2, <1>3, <1>7, <2>1, <2>2, NextBacks DEF SkipMirror
    <2>4. Reported(d)'
      BY <1>2, <1>3, <2>2 DEF Reported
    <2> QED
      BY <1>3, <1>4, <2>3, <2>4, OneByOne DEF Backing
  <1> QED
    BY <1>5, <1>6, <1>7

LEMMA AccountedSend ==
  ASSUME TypeOK, Accounted, NEW d \in Devices, NEW form \in Forms, Send(d, form)
  PROVE  Accounted'
  <1>1. PICK kept \in BOOLEAN, ok \in BOOLEAN :
          /\ ok => kept
          /\ relays' = IF kept THEN relays \cup {Event(form, Today(d))} ELSE relays
          /\ proc' = [proc EXCEPT ![d].pc = "sent", ![d].form = form, ![d].acked = ok]
    BY DEF Send
  <1>2. /\ relays \subseteq relays' /\ (ok => Event(form, Today(d)) \in relays')
        /\ UNCHANGED <<days, egress, report>>
    BY <1>1 DEF Send, vault
  <1>3. InSync(d) /\ proc[d].todo # <<>> /\ proc[d].pc = form
    BY DEF Send, InSync, Forms
  <1>4. ToDo(d) /\ Sent(d) /\ Covered(d) /\ Reported(d)
    BY <1>3, DayInHand
  <1>5. /\ proc'[d].pc = "sent" /\ proc'[d].form = form /\ proc'[d].acked = ok
        /\ proc'[d].todo = proc[d].todo
        /\ \A e \in Devices \ {d} : proc'[e] = proc[e]
    BY <1>1 DEF TypeOK, Runs
  <1>6. InSync(d)' /\ Sent(d)'
    BY <1>2, <1>3, <1>4, <1>5 DEF InSync, Sent, Today
  <1>7. ToDo(d)'
    BY <1>2, <1>4, <1>5 DEF ToDo
  <1>8. Covered(d)'
    BY <1>2, <1>4, <1>5 DEF Covered
  <1>9. Reported(d)'
    BY <1>2, <1>4 DEF Reported
  <1> QED
    BY <1>2, <1>5, <1>6, <1>7, <1>8, <1>9, OneByOne DEF Backing

\* A publish that counts has its event on a relay and its row in the log.
LEMMA AccountedOutcome ==
  ASSUME TypeOK, Accounted, NEW d \in Devices, NEW ok \in BOOLEAN,
         proc[d].pc = "sent", Outcome(d, ok), UNCHANGED <<vault, relays>>,
         egress[d] \subseteq egress'[d], \A e \in Devices \ {d} : egress'[e] = egress[e],
         ok => /\ Event(proc[d].form, Today(d)) \in relays
               /\ Event(proc[d].form, Today(d)) \in egress'[d]
  PROVE  Accounted'
  <1>1. InSync(d) /\ proc[d].todo # <<>> /\ proc[d].form \in {"record", "mirror"}
    BY RunTypes DEF InSync, Runs, Forms
  <1>2. ToDo(d) /\ Sent(d) /\ Covered(d) /\ Reported(d) /\ On(days[d], Today(d))
    BY <1>1, DayInHand
  <1>3. UNCHANGED <<days, relays>> /\ report \in [Devices -> Reports] /\ report[d] \in Reports
    BY DEF vault, TypeOK
  <1>4. \A e \in Devices \ {d} : report'[e] = report[e] /\ proc'[e] = proc[e]
    BY <1>3 DEF TypeOK, Outcome, NextDay
  <1>5. CASE proc[d].form = "record" /\ ok
    <2>1. /\ report' = [report EXCEPT ![d].published = @ \cup {Today(d).seq}]
          /\ proc' = [proc EXCEPT ![d].pc = "mirror", ![d].acked = FALSE]
      BY <1>5 DEF Outcome
    <2>2. /\ report'[d].published = report[d].published \cup {Today(d).seq}
          /\ report'[d].mirrored = report[d].mirrored /\ report'[d].already = report[d].already
          /\ report'[d].failed = report[d].failed /\ report'[d].unmirrored = report[d].unmirrored
      BY <1>3, <2>1 DEF Reports
    <2>3. proc'[d].pc = "mirror" /\ proc'[d].todo = proc[d].todo
      BY <2>1 DEF TypeOK, Runs
    <2>4. InSync(d)' /\ Sent(d)'
      BY <1>3, <1>5, <2>3 DEF InSync, Sent, Today
    <2>5. ToDo(d)'
      BY <1>2, <1>3, <2>3 DEF ToDo
    <2>6. Covered(d)'
      BY <1>2, <1>3, <2>2, <2>3 DEF Covered
    <2>7. Reported(d)'
      BY <1>2, <1>3, <1>5, <2>2 DEF Reported, On
    <2> QED
      BY <1>3, <1>4, <2>4, <2>5, <2>6, <2>7, OneByOne DEF Backing
  <1>6. CASE proc[d].form = "record" /\ ~ok
    <2>1. report' = [report EXCEPT ![d].failed = @ \cup {Today(d).seq}] /\ NextDay(d)
      BY <1>6 DEF Outcome
    <2>2. /\ report'[d].failed # {} /\ report'[d].published = report[d].published
          /\ report'[d].mirrored = report[d].mirrored /\ report'[d].already = report[d].already
      BY <1>3, <2>1 DEF Reports
    <2>3. InSync(d)' /\ ToDo(d)' /\ Sent(d)' /\ Covered(d)'
      BY <1>1, <1>2, <1>3, <2>1, <2>2, NextBacks
    <2>4. Reported(d)'
      BY <1>2, <1>3, <2>2 DEF Reported
    <2> QED
      BY <1>3, <1>4, <2>3, <2>4, OneByOne DEF Backing
  <1>7. CASE proc[d].form = "mirror" /\ ok
    <2>1. report' = [report EXCEPT ![d].mirrored = @ \cup {Today(d).seq}] /\ NextDay(d)
      BY <1>7 DEF Outcome
    <2>2. /\ report'[d].mirrored = report[d].mirrored \cup {Today(d).seq}
          /\ report'[d].published = report[d].published /\ report'[d].already = report[d].already
          /\ report'[d].failed = report[d].failed /\ report'[d].unmirrored = report[d].unmirrored
      BY <1>3, <2>1 DEF Reports
    <2>3. \A f \in Forms : Event(f, Today(d)) \in relays
      BY <1>2, <1>7 DEF Sent, Forms
    <2>4. InSync(d)' /\ ToDo(d)' /\ Sent(d)' /\ Covered(d)'
      BY <1>1, <1>2, <1>3, <2>1, <2>2, <2>3, NextBacks
    <2>5. Reported(d)'
      BY <1>2, <1>3, <1>7, <2>2 DEF Reported, On
    <2> QED
      BY <1>3, <1>4, <2>4, <2>5, OneByOne DEF Backing
  <1>8. CASE proc[d].form = "mirror" /\ ~ok
    <2>1. report' = [report EXCEPT ![d].unmirrored = @ \cup {Today(d).seq}] /\ NextDay(d)
      BY <1>8 DEF Outcome
    <2>2. /\ report'[d].unmirrored # {} /\ report'[d].published = report[d].published
          /\ report'[d].mirrored = report[d].mirrored /\ report'[d].already = report[d].already
      BY <1>3, <2>1 DEF Reports
    <2>3. InSync(d)' /\ ToDo(d)' /\ Sent(d)' /\ Covered(d)'
      BY <1>1, <1>2, <1>3, <2>1, <2>2, NextBacks
    <2>4. Reported(d)'
      BY <1>2, <1>3, <2>2 DEF Reported
    <2> QED
      BY <1>3, <1>4, <2>3, <2>4, OneByOne DEF Backing
  <1> QED
    BY <1>1, <1>5, <1>6, <1>7, <1>8

LEMMA AccountedLog ==
  ASSUME TypeOK, Accounted, NEW d \in Devices, Log(d) \/ LogFails(d)
  PROVE  Accounted'
  <1>1. CASE Log(d)
    <2>1. InSync(d) /\ proc[d].todo # <<>> /\ proc[d].acked \in BOOLEAN /\ proc[d].pc = "sent"
      BY <1>1, RunTypes DEF Log, InSync, Runs
    <2>2. proc[d].acked => Event(proc[d].form, Today(d)) \in relays
      BY <2>1, DayInHand DEF Sent
    <2>3. /\ egress[d] \subseteq egress'[d] /\ \A e \in Devices \ {d} : egress'[e] = egress[e]
          /\ Event(proc[d].form, Today(d)) \in egress'[d]
      BY <1>1 DEF Log, TypeOK
    <2>4. Outcome(d, proc[d].acked) /\ UNCHANGED <<vault, relays>>
      BY <1>1 DEF Log
    <2> QED
      BY <2>1, <2>2, <2>3, <2>4, AccountedOutcome
  <1>2. CASE LogFails(d)
    <2>1. proc[d].pc = "sent" /\ Outcome(d, FALSE) /\ UNCHANGED <<vault, relays, egress>>
      BY <1>2 DEF LogFails
    <2> QED
      BY <2>1, AccountedOutcome
  <1> QED
    BY <1>1, <1>2

LEMMA AccountedStep == TypeOK /\ Chained /\ Accounted /\ [Next]_vars => Accounted'
  <1> SUFFICES ASSUME TypeOK, Chained, Accounted, [Next]_vars PROVE Accounted'
    OBVIOUS
  <1>1. ASSUME NEW d \in Devices,
               \/ Seal(d) \/ BeginRestore(d) \/ AdoptGenesis(d) \/ ForgetChainId(d)
               \/ InsertDay(d) \/ RefuseDay(d) \/ BecomeReplica(d)
        PROVE  Accounted'
    <2>1. ~InSync(d)
      BY <1>1 DEF InSync, Seal, BeginRestore, AdoptGenesis, ForgetChainId, InsertDay,
                  RefuseDay, BecomeReplica
    <2> QED
      BY <1>1, <2>1, AccountedElsewhere
  <1>2. CASE UNCHANGED vars
    BY <1>2, BackingFrame DEF vars, vault, Accounted
  <1> QED
    BY <1>1, <1>2, AccountedBegins, AccountedSkips, AccountedSend, AccountedLog, AccountedEnds
    DEF Next

LEMMA AccountedTells ==
  TypeOK /\ Accounted => ReportIsTrue /\ PublishedIsLogged /\ CleanSyncIsComplete
  <1> SUFFICES ASSUME TypeOK, Accounted, NEW d \in Devices
               PROVE  /\ Reported(d)
                      /\ proc[d].pc = "record" /\ proc[d].todo = <<>>
                         /\ report[d].failed = {} /\ report[d].unmirrored = {} =>
                           \A i \in DOMAIN days[d] : \A f \in Forms :
                             Event(f, days[d][i]) \in relays
    BY DEF Reported, ReportIsTrue, PublishedIsLogged, CleanSyncIsComplete
  <1>1. CASE InSync(d)
    BY <1>1 DEF Accounted, Backing, Covered
  <1>2. CASE ~InSync(d)
    BY <1>2 DEF Accounted, Backing, InSync, Reported, NoReport
  <1> QED
    BY <1>1, <1>2

\* While only the home device seals, no refusal, lost answer or stranger's event
\* is reported as a backup, on any device that syncs.
THEOREM ReportsTrue ==
  ASSUME Sealers \subseteq {Home}
  PROVE  Spec => []ReportIsTrue
  BY AccountedTells, InitTypes, StepTypes, ChainedInit, ChainedStep, AccountedInit,
     AccountedStep, PTL DEF Spec

\* ... no publish counts without its egress row ...
THEOREM ReportsLogged ==
  ASSUME Sealers \subseteq {Home}
  PROVE  Spec => []PublishedIsLogged
  BY AccountedTells, InitTypes, StepTypes, ChainedInit, ChainedStep, AccountedInit,
     AccountedStep, PTL DEF Spec

\* ... and a sync that reports no failure has left every day backed up twice.
THEOREM ReportsComplete ==
  ASSUME Sealers \subseteq {Home}
  PROVE  Spec => []CleanSyncIsComplete
  BY AccountedTells, InitTypes, StepTypes, ChainedInit, ChainedStep, AccountedInit,
     AccountedStep, PTL DEF Spec

-----------------------------------------------------------------------------
\* While only the home device seals, the chains of any two vaults of the seed
\* agree as far as both go, at every moment of any restore (SPEC Q10; with two
\* sealers they do not).
THEOREM ChainsAgree ==
  ASSUME Sealers \subseteq {Home}
  PROVE  Spec => []OneChain
  <1>1. TypeOK /\ Chained => OneChain
    <2> SUFFICES ASSUME TypeOK, Chained, NEW d \in Devices, NEW e \in Devices
                 PROVE  IsPrefixOf(days[d], days[e]) \/ IsPrefixOf(days[e], days[d])
      BY DEF OneChain
    <2>1. days[d] \in Seq(Days) /\ days[e] \in Seq(Days) /\ days[Home] \in Seq(Days)
      BY BackupAssumption DEF TypeOK
    <2>2. \A x \in {d, e} : IsPrefixOf(days[x], days[Home])
      BY <2>1 DEF Chained, RestoredIsPrefix, IsPrefixOf
    <2>3. CASE Len(days[d]) <= Len(days[e])
      BY <2>1, <2>2, <2>3 DEF IsPrefixOf
    <2>4. CASE Len(days[e]) <= Len(days[d])
      BY <2>1, <2>2, <2>4 DEF IsPrefixOf
    <2> QED
      BY <2>1, <2>3, <2>4
  <1> QED
    BY <1>1, InitTypes, StepTypes, ChainedInit, ChainedStep, PTL DEF Spec

\* No restore is under way on the home vault, and it is as init made it.
Untouched ==
  /\ proc[Home].pc \notin {"adopt", "forget", "insert", "last"}
  /\ genesis[Home] = Minted(Home) /\ ManifestPossible /\ HomeStillSeals

LEMMA UntouchedStep ==
  TypeOK /\ Untouched /\ [Next /\ ~BeginRestore(Home)]_vars => Untouched'
  <1> SUFFICES ASSUME TypeOK, Untouched, [Next /\ ~BeginRestore(Home)]_vars PROVE Untouched'
    OBVIOUS
  <1> USE DEF Untouched, ManifestPossible, HomeStillSeals
  <1>0. /\ Home \in Devices /\ proc \in [Devices -> Runs]
        /\ genesis \in [Devices -> Seq(Devices)] /\ chainId \in [Devices -> BOOLEAN]
        /\ role \in [Devices -> {"sealer", "replica"}]
        /\ Idle.pc = "idle"
    BY BackupAssumption DEF TypeOK, Idle
  <1>m. ASSUME NEW d \in Devices, NEW run, proc' = [proc EXCEPT ![d] = run],
               d = Home => run.pc \notin {"adopt", "forget", "insert", "last"}
        PROVE  proc'[Home].pc \notin {"adopt", "forget", "insert", "last"}
    BY <1>0, <1>m
  <1>1. CASE UNCHANGED vars
    BY <1>1 DEF vars, vault
  <1>2. ASSUME NEW d \in Devices, Seal(d) PROVE Untouched'
    BY <1>2 DEF Seal
  <1>3. ASSUME NEW d \in Devices,
               BeginSync(d) \/ SkipDay(d) \/ SkipRecord(d) \/ SkipMirror(d)
        PROVE  Untouched'
    <2>1. CASE BeginSync(d)
      <3>1. PICK got \in Answers :
              proc' = [proc EXCEPT ![d] =
                [Idle EXCEPT !.pc = "record",
                   !.todo = [i \in DOMAIN days[d] |->
                     [day |-> days[d][i], needs |-> {f \in Forms : i \notin Present(got, f)}]]]]
        BY <2>1 DEF BeginSync
      <3> QED
        BY <1>0, <2>1, <3>1 DEF BeginSync, vault, Idle
    <2>2. CASE SkipDay(d)
      BY <1>0, <2>2 DEF SkipDay, NextDay, vault, Idle
    <2>3. CASE SkipRecord(d)
      BY <1>0, <2>3 DEF SkipRecord, Goto, vault, Runs
    <2>4. CASE SkipMirror(d)
      BY <1>0, <2>4 DEF SkipMirror, NextDay, vault, Idle
    <2> QED
      BY <1>3, <2>1, <2>2, <2>3, <2>4
  <1>4. ASSUME NEW d \in Devices, NEW form \in Forms, Send(d, form) PROVE Untouched'
    <2>1. PICK ok \in BOOLEAN :
            proc' = [proc EXCEPT ![d].pc = "sent", ![d].form = form, ![d].acked = ok]
      BY <1>4 DEF Send
    <2>2. UNCHANGED <<genesis, chainId, role>>
      BY <1>4 DEF Send, vault
    <2>3. proc[d] \in Runs
      BY <1>0
    <2> QED
      BY <1>0, <2>1, <2>2, <2>3 DEF Runs
  <1>5. ASSUME NEW d \in Devices, Log(d) \/ LogFails(d) \/ EndSync(d) \/ Crash(d) PROVE Untouched'
    <2>1. UNCHANGED <<genesis, chainId, role>>
      BY <1>5 DEF Log, LogFails, EndSync, Crash, vault
    <2>2. CASE \E ok \in BOOLEAN : Outcome(d, ok)
      <3>1. PICK ok \in BOOLEAN : Outcome(d, ok)
        BY <2>2
      <3>2. CASE NextDay(d)
        BY <1>0, <2>1, <3>2 DEF NextDay, Idle
      <3>3. CASE proc' = [proc EXCEPT ![d].pc = "mirror", ![d].acked = FALSE]
        BY <1>0, <2>1, <3>3 DEF Runs
      <3> QED
        BY <3>1, <3>2, <3>3 DEF Outcome
    <2>3. CASE Return(d)
      BY <1>0, <2>1, <2>3 DEF Return
    <2>4. Log(d) => Outcome(d, proc[d].acked)
      BY DEF Log
    <2>5. proc[d].acked \in BOOLEAN
      BY <1>0 DEF Runs
    <2> QED
      BY <1>5, <2>2, <2>3, <2>4, <2>5 DEF LogFails, EndSync, Crash
  <1>6. ASSUME NEW d \in Devices, ~BeginRestore(Home),
               BeginRestore(d) \/ AdoptGenesis(d) \/ ForgetChainId(d)
                 \/ InsertDay(d) \/ RefuseDay(d) \/ BecomeReplica(d)
        PROVE  Untouched'
    <2>1. d # Home
      BY <1>6 DEF AdoptGenesis, ForgetChainId, InsertDay, RefuseDay, BecomeReplica
    <2>2. proc'[Home] = proc[Home]
      <3>1. CASE BeginRestore(d)
        BY <1>0, <2>1, <3>1 DEF BeginRestore
      <3> QED
        BY <1>0, <1>6, <2>1, <3>1
           DEF AdoptGenesis, ForgetChainId, InsertDay, RefuseDay, BecomeReplica, Goto, Return
    <2>3. genesis'[Home] = genesis[Home] /\ chainId'[Home] = chainId[Home] /\ role'[Home] = role[Home]
      BY <1>0, <1>6, <2>1
         DEF BeginRestore, AdoptGenesis, ForgetChainId, InsertDay, RefuseDay, BecomeReplica, vault
    <2> QED
      BY <2>2, <2>3
  <1> QED
    BY <1>1, <1>2, <1>3, <1>4, <1>5, <1>6 DEF Next

\* A vault on which nobody runs `ghostr restore` can always publish a manifest,
\* so a revocation too, and stays the sealer of its chain: whatever the other
\* devices, the relays and crashes do (sync.rs, restore; ghost.rs, publish_manifest).
THEOREM HomeHolds ==
  Spec /\ [][~BeginRestore(Home)]_vars => [](ManifestPossible /\ HomeStillSeals)
  <1>1. Init => Untouched
    BY BackupAssumption DEF Init, Untouched, ManifestPossible, HomeStillSeals, Idle
  <1>2. Untouched => ManifestPossible /\ HomeStillSeals
    BY DEF Untouched
  <1>3. [Next]_vars /\ [~BeginRestore(Home)]_vars => [Next /\ ~BeginRestore(Home)]_vars
    OBVIOUS
  <1> QED
    BY <1>1, <1>2, <1>3, UntouchedStep, InitTypes, StepTypes, PTL DEF Spec

-----------------------------------------------------------------------------
(* Who reads an event.  Secrets are compared, never guessed: two keys are the *)
(* same only where they were derived the same way.                            *)

\* No account of that vault has one of those secrets.
Lacks(holder, secrets) == \A a \in Ev!Accounts : holder[a] \notin secrets

LEMMA PublicIsOneToOne == \A s, t : Ev!Public(s) = Ev!Public(t) => s = t
  BY DEF Ev!Public

\* Whoever has neither of the two secrets gets nothing out of a conversation.
LEMMA OutsidersReadNothing ==
  ASSUME NEW one, NEW other, NEW third, third \notin {one, other}, NEW text, NEW nonce
  PROVE  Ev!Nip44Decrypt(third, Ev!Public(one), Ev!Nip44Encrypt(one, Ev!Public(other), text, nonce)) = <<>>
  <1>1. Ev!Public(third) \notin {Ev!Public(one), Ev!Public(other)}
    BY PublicIsOneToOne
  <1>2. {Ev!Public(third), Ev!Public(one)} # {Ev!Public(one), Ev!Public(other)}
    BY <1>1
  <1> QED
    BY <1>2 DEF Ev!Nip44Decrypt, Ev!Nip44Encrypt, Ev!Conversation

LEMMA RecipientReads ==
  ASSUME NEW one, NEW other, NEW text, NEW nonce
  PROVE  Ev!Nip44Decrypt(other, Ev!Public(one), Ev!Nip44Encrypt(one, Ev!Public(other), text, nonce)) = <<text>>
  <1>1. {Ev!Public(other), Ev!Public(one)} = {Ev!Public(one), Ev!Public(other)}
    OBVIOUS
  <1> QED
    BY <1>1 DEF Ev!Nip44Decrypt, Ev!Nip44Encrypt, Ev!Conversation

LEMMA SignedVerifies ==
  ASSUME NEW secret, NEW event, event.pubkey = Ev!Public(secret)
  PROVE  /\ Ev!VerifyEvent(Ev!Signed(secret, event))
         /\ Ev!Signed(secret, event).event = event
  BY DEF Ev!VerifyEvent, Ev!Signed, Ev!Verify, Ev!Sign

\* A gift wrap shows neither its author nor when it was written, and only the
\* one it is for gets at what is in it (privacy.rs, gift_wrap): for any keys, any
\* note and any draw of the one-time key that neither vault has, as long as the
\* recipient's identity is not one of theirs.
THEOREM WrapsHide ==
  ASSUME NEW keys, NEW recipient, NEW stranger, NEW account \in Ev!Accounts, NEW rumor, NEW entropy,
         entropy.wrap_created_at \in Int, rumor.created_at \in Int,
         Lacks(keys, {<<"scalar", entropy.ephemeral_secret>>, recipient["identity"]}),
         Lacks(stranger, {<<"scalar", entropy.ephemeral_secret>>, recipient["identity"]})
  PROVE  Ev!WrapHidesItsAuthor(keys, recipient, stranger, account, rumor, entropy)
  <1> DEFINE once == <<"scalar", entropy.ephemeral_secret>>
             author == keys[account]
             reader == recipient["identity"]
             seal == Ev!UnsignedEvent(Ev!Public(author), entropy.seal_created_at, 13, <<>>,
                       Ev!Nip44Encrypt(author, Ev!Public(reader), rumor, entropy.seal_nonce))
             outer == Ev!UnsignedEvent(Ev!Public(once), entropy.wrap_created_at, 1059,
                        <<<<"p", Ev!Key, Ev!Public(reader)>>>>,
                        Ev!Nip44Encrypt(once, Ev!Public(reader), Ev!Signed(author, seal), entropy.wrap_nonce))
             made == Ev!GiftWrap(keys, account, Ev!Public(reader), rumor, entropy)
             wrap == made[1]
  <1>1. SUFFICES ASSUME made # <<>>
                 PROVE  Ev!WrapHidesItsAuthor(keys, recipient, stranger, account, rumor, entropy)
    BY DEF Ev!WrapHidesItsAuthor
  <1>2. /\ made = <<Ev!Signed(once, outer)>>
        /\ ~(entropy.wrap_created_at > rumor.created_at) /\ entropy.seal_nonce # entropy.wrap_nonce
    BY <1>1 DEF Ev!GiftWrap, Ev!FromSecret
  <1>3. /\ seal.pubkey = Ev!Public(author) /\ outer.pubkey = Ev!Public(once)
        /\ outer.created_at = entropy.wrap_created_at
        /\ seal.content = Ev!Nip44Encrypt(author, Ev!Public(reader), rumor, entropy.seal_nonce)
        /\ outer.content = Ev!Nip44Encrypt(once, Ev!Public(reader), Ev!Signed(author, seal), entropy.wrap_nonce)
        /\ seal.content.nonce = entropy.seal_nonce /\ outer.content.nonce = entropy.wrap_nonce
    BY DEF Ev!UnsignedEvent, Ev!Nip44Encrypt
  <1> HIDE DEF once, author, reader, seal, outer
  <1>4. wrap = Ev!Signed(once, outer) /\ wrap.event = outer /\ Ev!VerifyEvent(wrap)
    BY <1>2, <1>3, SignedVerifies
  <1>5. \A holder \in {keys, stranger}, a \in Ev!Accounts :
          /\ wrap.event.pubkey # Ev!Public(holder[a])
          /\ Ev!Nip44Decrypt(holder[a], wrap.event.pubkey, wrap.event.content) = <<>>
    <2> SUFFICES ASSUME NEW holder \in {keys, stranger}, NEW a \in Ev!Accounts
                 PROVE  /\ wrap.event.pubkey # Ev!Public(holder[a])
                        /\ Ev!Nip44Decrypt(holder[a], wrap.event.pubkey, wrap.event.content) = <<>>
      OBVIOUS
    <2>1. holder[a] \notin {once, reader}
      BY DEF Lacks, once, reader
    <2>2. Ev!Public(holder[a]) # Ev!Public(once)
      BY <2>1, PublicIsOneToOne
    <2> QED
      BY <1>3, <1>4, <2>1, <2>2, OutsidersReadNothing
  <1>6. Ev!Nip44Decrypt(reader, wrap.event.pubkey, wrap.event.content) = <<Ev!Signed(author, seal)>>
    BY <1>3, <1>4, RecipientReads
  <1>7. /\ Ev!VerifyEvent(Ev!Signed(author, seal)) /\ Ev!Signed(author, seal).event = seal
        /\ Ev!Nip44Decrypt(reader, seal.pubkey, seal.content) = <<rumor>>
    BY <1>3, RecipientReads, SignedVerifies
  <1>8. wrap.event.created_at <= rumor.created_at
    BY <1>2, <1>3, <1>4
  <1>9. \E inner : /\ Ev!Nip44Decrypt(recipient["identity"], wrap.event.pubkey, wrap.event.content)[1] = inner
                   /\ Ev!VerifyEvent(inner) /\ inner.event.pubkey = Ev!Public(keys[account])
                   /\ Ev!Nip44Decrypt(recipient["identity"], inner.event.pubkey, inner.event.content) = <<rumor>>
                   /\ inner.event.content.nonce # wrap.event.content.nonce
    <2>1. Ev!Nip44Decrypt(reader, wrap.event.pubkey, wrap.event.content)[1] = Ev!Signed(author, seal)
      BY <1>6
    <2>2. Ev!Signed(author, seal).event.content.nonce # wrap.event.content.nonce
      BY <1>2, <1>3, <1>4, <1>7
    <2>3. Ev!Signed(author, seal).event.pubkey = Ev!Public(author)
      BY <1>3, <1>7
    <2> QED
      BY <1>7, <2>1, <2>2, <2>3 DEF author, reader
  <1> HIDE DEF made
  <1> QED
    BY <1>4, <1>5, <1>8, <1>9, Zenon DEF Ev!WrapHidesItsAuthor, made, reader

\* Every kind has a number and a slug of its own.
LEMMA KindsDiffer ==
  /\ Ev!Kinds = DOMAIN Ev!Slug
  /\ \A k, l \in Ev!Kinds : Ev!Number[k] = Ev!Number[l] \/ Ev!Slug[k] = Ev!Slug[l] => k = l
  /\ \A k \in Ev!Kinds : Ev!Number[k] \in Nat /\ Ev!Number[k] # Ev!AppData
  <1>1. Ev!Kinds = {"ghost_manifest", "source_descriptor", "persona_version", "footage_record", "anchor_receipt",
                    "quest_set", "fidelity_attestation", "device_registration", "revocation_notice"}
    BY DEF Ev!Kinds, Ev!Number
  <1>2. DOMAIN Ev!Slug = {"ghost_manifest", "source_descriptor", "persona_version", "footage_record", "anchor_receipt",
                    "quest_set", "fidelity_attestation", "device_registration", "revocation_notice"}
    BY DEF Ev!Slug
  <1>3. \A k, l \in Ev!Kinds : Ev!Number[k] = Ev!Number[l] => k = l
    BY <1>1 DEF Ev!Number
  <1>4. \A k, l \in Ev!Kinds : Ev!Slug[k] = Ev!Slug[l] => k = l
    BY <1>1 DEF Ev!Slug
  <1>5. \A k \in Ev!Kinds : Ev!Number[k] \in Nat /\ Ev!Number[k] # Ev!AppData
    BY <1>1 DEF Ev!Number, Ev!AppData
  <1> QED
    BY <1>1, <1>2, <1>3, <1>4, <1>5

\* The d tag of a kind is read back as that kind.
LEMMA TagNamesItsKind ==
  ASSUME NEW kind \in Ev!Kinds, NEW Words, NEW identifier \in Seq(Words), identifier # <<>>
  PROVE  Ev!FromDTag(Ev!DTag(kind, identifier)) = <<kind>>
  <1> DEFINE prefix == <<"ghostr", "v1", Ev!Slug[kind]>>
             text == Ev!DTag(kind, identifier)
             S == Words \cup {"ghostr", "v1", Ev!Slug[kind]}
  <1>1. prefix \in Seq(S) /\ identifier \in Seq(S) /\ Len(identifier) \in Nat \ {0}
    OBVIOUS
  <1>2. text = prefix \o identifier
    BY DEF Ev!DTag
  <1>3. Len(text) >= 4 /\ text[1] = "ghostr" /\ text[2] = "v1" /\ text[3] = Ev!Slug[kind]
    BY <1>1, <1>2
  <1>4. SubSeq(text, 1, 2) = <<"ghostr", "v1">>
    <2>1. text \in Seq(S)
      BY <1>1, <1>2
    <2> HIDE DEF text, S
    <2>2. SubSeq(text, 1, 2) \in Seq(S) /\ Len(SubSeq(text, 1, 2)) = 2
          /\ SubSeq(text, 1, 2)[1] = text[1] /\ SubSeq(text, 1, 2)[2] = text[2]
      BY <1>3, <2>1
    <2>3. <<"ghostr", "v1">> \in Seq(S)
      BY DEF S
    <2> DEFINE two == SubSeq(text, 1, 2)
               names == <<"ghostr", "v1">>
    <2>4. Len(names) = 2 /\ names[1] = "ghostr" /\ names[2] = "v1"
      OBVIOUS
    <2> HIDE DEF two, names
    <2>5. Len(two) = Len(names) /\ two \in Seq(S) /\ names \in Seq(S)
      BY <2>2, <2>3, <2>4 DEF two, names
    <2>6. \A i \in 1..Len(two) : two[i] = names[i]
      BY <1>3, <2>2, <2>4, <2>5 DEF two
    <2>7. two = names
      BY <2>5, <2>6, SeqEqual
    <2> QED
      BY <2>7 DEF two, names
  <1>5. {k \in Ev!Kinds : Ev!Slug[k] = text[3]} = {kind}
    BY <1>3, KindsDiffer
  <1> HIDE DEF text
  <1> QED
    BY <1>3, <1>4, <1>5 DEF Ev!FromDTag, text

\* A tag that comes first is the first of its name.
LEMMA FirstOfTags ==
  ASSUME NEW event, NEW text, NEW n \in Nat \ {0}, DOMAIN event.tags = 1..n, event.tags[1] = <<"d", text>>
  PROVE  Ev!FirstTag(event, "d") = <<text>>
  <1> DEFINE named == {i \in DOMAIN event.tags : event.tags[i][1] = "d"}
             first == CHOOSE i \in named : \A j \in named : i <= j
  <1>1. 1 \in named /\ \A j \in named : j \in Nat /\ 1 <= j
    OBVIOUS
  <1>2. first = 1
    <2>1. \E i \in named : \A j \in named : i <= j
      BY <1>1
    <2>2. first \in named /\ \A j \in named : first <= j
      BY <2>1
    <2> QED
      BY <1>1, <2>2
  <1>3. Tail(<<"d", text>>) = <<text>>
    OBVIOUS
  <1> QED
    BY <1>1, <1>2, <1>3 DEF Ev!FirstTag

\* What is in the text of an event of that kind, for whoever holds that account.
Plain(holder, a, k, event) ==
  IF Ev!IsEncrypted(k) THEN Ev!Nip44Decrypt(holder[a], event.pubkey, event.content) ELSE <<event.content>>

LEMMA DecodesAs ==
  ASSUME NEW event, NEW text, Ev!FirstTag(event, "d") = <<text>>, NEW kind, Ev!FromDTag(text) = <<kind>>, NEW holder, NEW a, NEW k, NEW mirror \in BOOLEAN
  PROVE  Ev!Decode(holder, a, k, event, mirror) =
           IF k = kind /\ (event.kind = Ev!Number[k] \/ (mirror /\ event.kind = Ev!AppData))
              /\ Ev!Reads(k, Plain(holder, a, k, event))
           THEN Plain(holder, a, k, event) ELSE <<>>
  <1>2. <<text>> # <<>> /\ <<text>>[1] = text
    OBVIOUS
  <1>3. <<kind>> # <<k>> <=> k # kind
    OBVIOUS
  <1>4. event.kind \notin {Ev!Number[k]} \cup (IF mirror THEN {Ev!AppData} ELSE {})
          <=> ~(event.kind = Ev!Number[k] \/ (mirror /\ event.kind = Ev!AppData))
    OBVIOUS
  <1> QED
    BY <1>2, <1>3, <1>4, Zenon DEF Ev!Decode, Plain

LEMMA OwnTextOnly ==
  ASSUME NEW own, NEW third, NEW text, NEW nonce
  PROVE  Ev!Nip44Decrypt(third, Ev!Public(own), Ev!Nip44Encrypt(own, Ev!Public(own), text, nonce))
           = IF third = own THEN <<text>> ELSE <<>>
  <1>1. {Ev!Public(third), Ev!Public(own)} = {Ev!Public(own), Ev!Public(own)} <=> third = own
    BY PublicIsOneToOne
  <1> QED
    BY <1>1 DEF Ev!Nip44Decrypt, Ev!Nip44Encrypt, Ev!Conversation

\* Whoever has the event reads it as the kind it was written as, and a private one
\* only with the account that wrote it, under its own number or mirrored; only
\* that account signs it, and no field of it can be changed (codec.rs, event.rs):
\* for any keys that differ, and a key in the place of the author's that is another.
THEOREM EventsHold ==
  ASSUME NEW keys, NEW stranger, NEW account \in Ev!Accounts, NEW kind \in Ev!Kinds,
         NEW Words, NEW identifier \in Seq(Words), identifier # <<>>, NEW nonce,
         \A a \in Ev!Accounts \ {account} : keys[a] # keys[account],
         Lacks(stranger, {keys[account]}), keys[account] # <<"scalar", 9>>
  PROVE  Ev!EventStaysWhatItIs(keys, stranger, account, kind, identifier, nonce)
  <1> DEFINE own == keys[account]
             text == Ev!DTag(kind, identifier)
             tags == <<<<"d", text>>>>
             said == Ev!Payload(kind)
             content == IF Ev!IsEncrypted(kind) THEN Ev!Nip44Encrypt(own, Ev!Public(own), said, nonce) ELSE said
             event == Ev!UnsignedEvent(Ev!Public(own), 5, Ev!Number[kind], tags, content)
             mirror == [event EXCEPT !.kind = Ev!AppData]
             other == <<<<"d", Ev!DTag("quest_set", <<"x">>)>>>>
             two == [mirror EXCEPT !.tags = @ \o other]
             made == Ev!Encode(keys, account, kind, identifier, 5, said, nonce)
             readable(holder, a, k) == k = kind /\ (Ev!IsEncrypted(k) => holder = keys /\ a = account)
  <1>0. SUFFICES ASSUME made # <<>>
                 PROVE  Ev!EventStaysWhatItIs(keys, stranger, account, kind, identifier, nonce)
    BY DEF Ev!EventStaysWhatItIs
  <1>1. made = <<event>> /\ account = Ev!SigningAccount(kind)
    BY <1>0 DEF Ev!Encode
  <1>2. Ev!FromDTag(text) = <<kind>>
    BY TagNamesItsKind
  <1>4. /\ DOMAIN tags = 1..1 /\ tags[1] = <<"d", text>>
        /\ DOMAIN (tags \o other) = 1..2 /\ (tags \o other)[1] = <<"d", text>>
    OBVIOUS
  <1> HIDE DEF tags, text, content, other
  <1>3. /\ event.pubkey = Ev!Public(own) /\ event.created_at = 5 /\ event.kind = Ev!Number[kind]
        /\ event.tags = tags /\ event.content = content
        /\ mirror.pubkey = Ev!Public(own) /\ mirror.kind = Ev!AppData /\ mirror.tags = tags /\ mirror.content = content
        /\ two.pubkey = Ev!Public(own) /\ two.kind = Ev!AppData /\ two.tags = tags \o other /\ two.content = content
    BY DEF Ev!UnsignedEvent
  <1>14. \A e : /\ [event EXCEPT !.created_at = e].created_at = e
                /\ [event EXCEPT !.kind = e].kind = e
                /\ [event EXCEPT !.tags = e].tags = e
                /\ [event EXCEPT !.content = e].content = e
                /\ [event EXCEPT !.pubkey = e].pubkey = e
    BY DEF Ev!UnsignedEvent
  <1> HIDE DEF event, mirror, two, said
  <1>5. Ev!Number[kind] # Ev!AppData /\ \A k \in Ev!Kinds : Ev!Number[k] # Ev!AppData
    BY KindsDiffer
  <1>6. account # "signer_channel"
    BY <1>1 DEF Ev!SigningAccount
  <1>16. /\ Ev!FirstTag(event, "d") = <<text>> /\ Ev!FirstTag(mirror, "d") = <<text>>
         /\ Ev!FirstTag(two, "d") = <<text>>
    <2>1. 1 \in Nat \ {0} /\ 2 \in Nat \ {0}
      OBVIOUS
    <2>2. DOMAIN event.tags = 1..1 /\ event.tags[1] = <<"d", text>>
      BY <1>3, <1>4
    <2>3. DOMAIN mirror.tags = 1..1 /\ mirror.tags[1] = <<"d", text>>
      BY <1>3, <1>4
    <2>4. DOMAIN two.tags = 1..2 /\ two.tags[1] = <<"d", text>>
      BY <1>3, <1>4
    <2>5. Ev!FirstTag(event, "d") = <<text>>
      BY <2>1, <2>2, FirstOfTags
    <2>6. Ev!FirstTag(mirror, "d") = <<text>>
      BY <2>1, <2>3, FirstOfTags
    <2>7. Ev!FirstTag(two, "d") = <<text>>
      BY <2>1, <2>4, FirstOfTags
    <2> QED
      BY <2>5, <2>6, <2>7
  <1>7. Ev!MirrorAsNip78(event) = <<mirror>>
    <2>1. <<text>> # <<>> /\ <<text>>[1] = text
      OBVIOUS
    <2>2. {Ev!Number[k] : k \in Ev!Range(<<kind>>)} = {event.kind}
      BY <1>3 DEF Ev!Range
    <2> QED
      BY <1>2, <1>16, <2>1, <2>2, Zenon DEF Ev!MirrorAsNip78, mirror
  <1>8. ASSUME NEW holder \in {keys, stranger}, NEW a \in Ev!Accounts
        PROVE  Plain(holder, a, kind, event) =
                 IF readable(holder, a, kind) THEN <<said>> ELSE <<>>
    <2>1. holder[a] = own <=> holder = keys /\ a = account
      BY <1>8 DEF Lacks
    <2> QED
      BY <1>3, <2>1, OwnTextOnly DEF Plain, content
  <1>9. /\ \A holder, a, k : Plain(holder, a, k, two) = Plain(holder, a, k, event)
        /\ Ev!Reads(kind, <<said>>) /\ ~Ev!Reads(kind, <<>>)
    BY <1>3 DEF Plain, Ev!Reads, Ev!Payload, said
  <1>10. ASSUME NEW holder \in {keys, stranger}, NEW a \in Ev!Accounts, NEW k \in Ev!Kinds
         PROVE  /\ Ev!Decode(holder, a, k, event, FALSE) = (IF readable(holder, a, k) THEN <<Ev!Payload(k)>> ELSE <<>>)
                /\ Ev!Decode(holder, a, k, two, TRUE) = Ev!Decode(holder, a, k, event, FALSE)
                /\ Ev!Decode(holder, a, k, mirror, FALSE) = <<>>
    <2>1. Ev!Decode(holder, a, k, event, FALSE) =
            IF k = kind /\ Ev!Reads(k, Plain(holder, a, k, event)) THEN Plain(holder, a, k, event) ELSE <<>>
      <3>1. Ev!Decode(holder, a, k, event, FALSE) =
              IF k = kind /\ (event.kind = Ev!Number[k] \/ (FALSE /\ event.kind = Ev!AppData))
                 /\ Ev!Reads(k, Plain(holder, a, k, event))
              THEN Plain(holder, a, k, event) ELSE <<>>
        BY <1>2, <1>16, DecodesAs
      <3> QED
        BY <1>3, <3>1
    <2>2. Ev!Decode(holder, a, k, two, TRUE) =
            IF k = kind /\ Ev!Reads(k, Plain(holder, a, k, event)) THEN Plain(holder, a, k, event) ELSE <<>>
      <3>1. Ev!Decode(holder, a, k, two, TRUE) =
              IF k = kind /\ (two.kind = Ev!Number[k] \/ (TRUE /\ two.kind = Ev!AppData))
                 /\ Ev!Reads(k, Plain(holder, a, k, two))
              THEN Plain(holder, a, k, two) ELSE <<>>
        BY <1>2, <1>16, DecodesAs
      <3> QED
        BY <1>3, <1>9, <3>1
    <2>3. Ev!Decode(holder, a, k, mirror, FALSE) = <<>>
      BY <1>2, <1>3, <1>5, <1>16, DecodesAs
    <2> QED
      BY <1>8, <1>9, <2>1, <2>2, <2>3 DEF said
  <1>11. \A a \in Ev!Accounts : (Ev!SignEvent(keys, a, event) # <<>>) <=> a = account
    BY <1>3, PublicIsOneToOne DEF Ev!SignEvent
  <1>12. Ev!VerifyEvent(Ev!Signed(own, event))
    BY <1>3, SignedVerifies
  <1>13. ASSUME NEW changed \in Ev!Tampered(event)
         PROVE  ~Ev!VerifyEvent([Ev!Signed(own, event) EXCEPT !.event = changed])
    <2>1. Ev!Id(changed) # Ev!Id(event)
      <3>1. CASE changed = [event EXCEPT !.created_at = @ + 1]
        BY <1>3, <1>14, <3>1 DEF Ev!Id
      <3>2. CASE changed = [event EXCEPT !.kind = Ev!AppData]
        BY <1>3, <1>5, <1>14, <3>2 DEF Ev!Id
      <3>3. CASE changed = [event EXCEPT !.tags = Append(@, <<"d", <<"x">>>>)]
        <4>1. Append(tags, <<"d", <<"x">>>>) # tags
          <5>1. Len(tags) = 1 /\ Len(Append(tags, <<"d", <<"x">>>>)) = 2
            BY DEF tags
          <5> QED
            BY <5>1
        <4>2. changed.tags # event.tags
          BY <1>3, <1>14, <3>3, <4>1
        <4> QED
          BY <4>2 DEF Ev!Id
      <3>4. CASE changed = [event EXCEPT !.content = [form |-> "json", fields |-> {}]]
        <4>1. content # [form |-> "json", fields |-> {}]
          BY DEF content, said, Ev!Nip44Encrypt, Ev!Payload, Ev!Required, Ev!GhostManifest, Ev!AnchorReceipt,
             Ev!FidelityAttestation, Ev!RevocationNotice, Ev!DeviceRegistration, Ev!Footage
        <4>2. changed.content # event.content
          BY <1>3, <1>14, <3>4, <4>1
        <4> QED
          BY <4>2 DEF Ev!Id
      <3>5. CASE changed = [event EXCEPT !.pubkey = Ev!Public(<<"scalar", 9>>)]
        BY <1>3, <1>14, <3>5, PublicIsOneToOne DEF Ev!Id
      <3> QED
        BY <1>13, <3>1, <3>2, <3>3, <3>4, <3>5 DEF Ev!Tampered
    <2> QED
      BY <2>1 DEF Ev!VerifyEvent, Ev!Signed
  <1> HIDE DEF made
  <1>15. made[1] = event /\ Ev!MirrorAsNip78(event)[1] = mirror /\ Ev!MirrorAsNip78(event) # <<>>
    BY <1>1, <1>7
  <1> QED
    BY <1>6, <1>10, <1>11, <1>12, <1>13, <1>15, Zenon DEF Ev!EventStaysWhatItIs, made, two, said, other

\* A note of the ghost always says so, blank ones are not written, and a time is
\* scattered forward only, by less than the window (ghost notes, privacy.rs).
THEOREM NotesDisclose ==
  ASSUME HexDigits \in Nat, MaxTime \in Nat, NEW keys, NEW text,
         \A a \in Ev!Accounts \ {"ghost"} : keys[a] # keys["ghost"]
  PROVE  Ev!NoteDiscloses(keys, text)
  <1> DEFINE ghost == Ev!Public(keys["ghost"])
             principal == Ev!Public(keys["identity"])
             tags == <<Ev!DisclosureTag, <<"p", Ev!Key, principal>>, <<"client", "ghostr">>>>
             note == Ev!UnsignedEvent(ghost, 5, Ev!TextNote, tags, [form |-> "text", fields |-> {text}])
             bare == [note EXCEPT !.tags = Tail(@)]
             made == Ev!GhostNote(ghost, principal, text, 5)
  <1>1. made = IF text = "blank" THEN <<>> ELSE <<note>>
    BY DEF Ev!GhostNote
  <1>2. DOMAIN tags = 1..3 /\ tags[1] = Ev!DisclosureTag /\ tags[2] = <<"p", Ev!Key, principal>> /\ tags[3] = <<"client", "ghostr">>
    OBVIOUS
  <1>3. note.pubkey = ghost /\ note.tags = tags /\ bare.tags = Tail(tags)
    BY DEF Ev!UnsignedEvent
  <1>4. Tail(tags) = <<<<"p", Ev!Key, principal>>, <<"client", "ghostr">>>>
    OBVIOUS
  <1> HIDE DEF note, tags, bare, made, ghost, principal
  <1>5. Ev!FirstTag(note, "p") = <<Ev!Key, principal>>
    <2> DEFINE named == {i \in DOMAIN note.tags : note.tags[i][1] = "p"}
    <2>1. note.tags[1][1] = "ghostr" /\ note.tags[2][1] = "p" /\ note.tags[3][1] = "client"
      BY <1>2, <1>3 DEF Ev!DisclosureTag
    <2>2. named = {2}
      BY <1>2, <1>3, <2>1
    <2>3. (CHOOSE i \in named : \A j \in named : i <= j) = 2
      BY <2>2
    <2>4. Tail(note.tags[2]) = <<Ev!Key, principal>>
      <3>1. note.tags[2] = <<"p", Ev!Key, principal>>
        BY <1>2, <1>3
      <3>2. \A k, t : Tail(<<"p", k, t>>) = <<k, t>>
        OBVIOUS
      <3> QED
        BY <3>1, <3>2
    <2> QED
      BY <2>2, <2>3, <2>4 DEF Ev!FirstTag
  <1>6. Ev!PublicFromHex(Ev!Key) = <<"key">>
    <2>1. Len(Ev!Key) = HexDigits /\ DOMAIN Ev!Key = 1..HexDigits /\ \A i \in 1..HexDigits : Ev!Key[i] = "lower"
      BY DEF Ev!Key
    <2>2. "other" \notin Ev!Range(Ev!Key)
      BY <2>1 DEF Ev!Range
    <2> QED
      BY <2>1, <2>2 DEF Ev!PublicFromHex
  <1>7. Ev!HasDisclosure(note)
    <2>1. Ev!DisclosureTag \in Ev!Range(note.tags)
      BY <1>2, <1>3 DEF Ev!Range
    <2>2. <<Ev!Key, principal>> # <<>> /\ <<Ev!Key, principal>>[1] = Ev!Key
      OBVIOUS
    <2> QED
      BY <1>5, <1>6, <2>1, <2>2 DEF Ev!HasDisclosure
  <1>8. ~Ev!HasDisclosure(bare)
    <2>1. \A t \in Ev!Range(bare.tags) : t[1] # "ghostr"
      <3>1. \A s, t : Ev!Range(<<s, t>>) = {s, t}
        BY DEF Ev!Range
      <3>2. Ev!Range(bare.tags) = {<<"p", Ev!Key, principal>>, <<"client", "ghostr">>}
        BY <1>3, <1>4, <3>1
      <3>3. \A k, t : <<"p", k, t>>[1] = "p" /\ <<"client", k>>[1] = "client"
        OBVIOUS
      <3> QED
        BY <3>2, <3>3
    <2>2. Ev!DisclosureTag[1] = "ghostr"
      BY DEF Ev!DisclosureTag
    <2> QED
      BY <2>1, <2>2 DEF Ev!HasDisclosure
  <1>9. \A a \in Ev!Accounts : (Ev!SignEvent(keys, a, note) # <<>>) <=> a = "ghost"
    BY <1>3, PublicIsOneToOne DEF Ev!SignEvent, ghost
  <1>10. ASSUME NEW base \in 0..MaxTime, NEW drawn \in 0..MaxTime, NEW window \in 0..3
         PROVE  Ev!JitterCreatedAt(base, drawn, window) \in base..(IF window = 0 THEN base ELSE base + window - 1)
    <2>1. CASE window = 0
      BY <2>1 DEF Ev!JitterCreatedAt
    <2>2. CASE window # 0
      <3>1. drawn % window \in 0..(window - 1)
        BY <2>2
      <3> QED
        BY <2>2, <3>1 DEF Ev!JitterCreatedAt
    <2> QED
      BY <2>1, <2>2
  <1>11. (made = <<>> <=> text = "blank") /\ (made # <<>> => made[1] = note)
    BY <1>1
  <1> QED
    BY <1>7, <1>8, <1>9, <1>10, <1>11, Zenon DEF Ev!NoteDiscloses, made, ghost, principal, bare
=============================================================================
