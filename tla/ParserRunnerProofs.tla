------------------------- MODULE ParserRunnerProofs -------------------------
(***************************************************************************)
(* Theorems about ParserRunner, for every number of banks, tasks, portals  *)
(* and imports, and every combination of the faults it can be given.       *)
(***************************************************************************)
EXTENDS ParserRunner, DiffProofs, SequenceTheorems

\* The comparison of the instance is the one of Diff.
LEMMA SameComparison ==
    /\ \A ms : DB!StoredIndexes(ms) = StoredIndexes(ms)
    /\ \A prev, idx, new : DB!ComputeChanges(prev, idx, new) = ComputeChanges(prev, idx, new)
<1>1. /\ \A ms : DB!StoredIndexes(ms) = StoredIndexes(ms)
      /\ \A ms : DB!FirstIndex(ms) = FirstIndex(ms)
  BY DEF DB!StoredIndexes, StoredIndexes, DB!FirstIndex, FirstIndex,
         DB!KeysOf, KeysOf, DB!Records, Records
<1>2. \A ms : DB!HiddenServices(ms) = HiddenServices(ms)
  BY DEF DB!HiddenServices, HiddenServices, DB!HiddenFlags, HiddenFlags,
         DB!ServiceIsHidden, ServiceIsHidden, DB!Records, Records
<1>3. \A prev, new : DB!ServiceChanges(prev, new) = ServiceChanges(prev, new)
  BY <1>2 DEF DB!ServiceChanges, ServiceChanges, DB!ServiceChange, ServiceChange
<1>4. \A old, new : /\ DB!MethodChanges(old, new) = MethodChanges(old, new)
                    /\ DB!FlipChanges(old, new) = FlipChanges(old, new)
                    /\ DB!FieldChanges(old, new) = FieldChanges(old, new)
  BY DEF DB!MethodChanges, MethodChanges, DB!MethodChange, MethodChange,
         DB!FlipChanges, FlipChanges,
         DB!FieldChanges, FieldChanges, DB!FieldChange, FieldChange
<1>5. \A prev, idx, new :
         DB!ComputeChanges(prev, idx, new) = ComputeChanges(prev, idx, new)
  BY <1>1, <1>3, <1>4 DEF DB!ComputeChanges, ComputeChanges
<1>6. QED
  BY <1>1, <1>5

-----------------------------------------------------------------------------
(* Type correctness *)

\* A task in the loop has a bank, and one whose import is committed finds it in
\* the history.
InLoopHasBank ==
    \A t \in Tasks :
        /\ pc[t] \in InLoop => work[t].pos \in DOMAIN Order
        /\ pc[t] = "stored" => history[Bank(t)] # <<>>

TypeInv == TypeOK /\ InLoopHasBank

\* What the database promises keeps its type.
LEMMA PublishType ==
    ASSUME TypeOK, NEW b \in Banks, NEW s \in Snapshot, DB!Publish(b, s)
    PROVE  /\ current' \in [Banks -> Snapshot]
           /\ history' \in [Banks -> Seq(SUBSET Change)]
           /\ history'[b] # <<>>
           /\ \A c \in Banks : history[c] # <<>> => history'[c] # <<>>
<1>1. PICK delta \in DB!Deltas(b, s) : history' = [history EXCEPT ![b] = Append(@, delta)]
  BY DEF DB!Publish
<1>2. current[b] \in Snapshot
  BY DEF TypeOK
<1>3. delta \in SUBSET Change
  <2>1. CASE history[b] = <<>>
    BY <1>1, <2>1 DEF DB!Deltas
  <2>2. CASE history[b] # <<>>
    <3>1. PICK idx \in StoredIndexes(current[b].methods) :
             delta = ComputeChanges(current[b], idx, s)
      BY <1>1, <2>2, SameComparison DEF DB!Deltas
    <3>2. QED
      BY <1>2, <3>1, ComputeChangesType
  <2>3. QED
    BY <2>1, <2>2
<1>4. current' = [current EXCEPT ![b] = s]
  BY DEF DB!Publish
<1>5. current' \in [Banks -> Snapshot]
  BY <1>4 DEF TypeOK
<1>6. /\ history \in [Banks -> Seq(SUBSET Change)]
      /\ Append(history[b], delta) \in Seq(SUBSET Change)
      /\ Append(history[b], delta) # <<>>
  <2> DEFINE Batch == SUBSET Change
  <2>1. history \in [Banks -> Seq(Batch)] /\ delta \in Batch
    BY <1>3 DEF TypeOK
  <2> HIDE DEF Batch
  <2>2. history[b] \in Seq(Batch)
    BY <2>1
  <2>3. Append(history[b], delta) \in Seq(Batch) /\ Append(history[b], delta) # <<>>
    BY <2>1, <2>2
  <2>4. QED
    BY <2>1, <2>3 DEF Batch
<1>7. QED
  BY <1>1, <1>5, <1>6

LEMMA OrderFacts ==
    /\ Len(Order) \in Nat \ {0}
    /\ DOMAIN Order = 1..Len(Order)
    /\ \A n \in DOMAIN Order : Order[n] \in Banks
BY RunnerAssumption

LEMMA NoWorkType ==
    \A trigger \in {"none", "manual", "schedule", "startup"} :
        [NoWork EXCEPT !.trigger = trigger] \in Work /\ NoWork \in Work
BY RunnerAssumption DEF NoWork, NoChange, Work, Outcome

LEMMA BootType ==
    /\ BootPc \in [Tasks -> {"idle", "queued"}]
    /\ BootWork \in [Tasks -> Work]
    /\ NotStarted \in [running: BOOLEAN, banks: [Banks -> BankStatuses]]
<1>1. BootWork \in [Tasks -> Work]
  BY NoWorkType DEF BootWork
<1>2. QED
  BY <1>1 DEF BootPc, NotStarted, BankStatuses

LEMMA TypeInvInit == Init => TypeInv
<1> SUFFICES ASSUME Init PROVE TypeInv
  OBVIOUS
<1>1. TypeOK
  <2>1. DB!Init
    BY DEF Init
  <2>2. current \in [Banks -> Snapshot] /\ history \in [Banks -> Seq(SUBSET Change)]
    BY <2>1, RunnerAssumption DEF DB!Init
  <2>3. /\ pc \in [Tasks -> Pcs] /\ work \in [Tasks -> Work]
        /\ status \in [running: BOOLEAN, banks: [Banks -> BankStatuses]]
    BY BootType DEF Init, Pcs
  <2>4. /\ news \in [Banks -> Seq(SUBSET Change)]
        /\ told \in [Banks -> {"nothing", "failure", "recovery"}]
        /\ heard \in [Banks -> {"nothing", "failure", "recovery"}]
    BY DEF Init
  <2>5. /\ lock \in Tasks \cup {NoTask} /\ failing \subseteq Banks
        /\ proxies \in BOOLEAN /\ lost \in BOOLEAN
    BY DEF Init
  <2>6. QED
    BY <2>2, <2>3, <2>4, <2>5 DEF TypeOK
<1>2. InLoopHasBank
  <2>1. \A t \in Tasks : pc[t] \in {"idle", "queued"}
    BY BootType DEF Init
  <2>2. QED
    BY <2>1 DEF InLoopHasBank, InLoop, InBank
<1>3. QED
  BY <1>1, <1>2 DEF TypeInv

\* Steps of one task that leave the database alone.
LEMMA TaskStepTypes ==
    ASSUME TypeInv, NEW t \in Tasks, NEW p \in Pcs, NEW w \in Work,
           pc' = [pc EXCEPT ![t] = p], work' = [work EXCEPT ![t] = w],
           p \in InLoop => w.pos \in DOMAIN Order,
           p = "stored" => history[Order[w.pos]] # <<>>,
           UNCHANGED history
    PROVE  /\ pc' \in [Tasks -> Pcs]
           /\ work' \in [Tasks -> Work]
           /\ InLoopHasBank'
<1>1. pc' \in [Tasks -> Pcs] /\ work' \in [Tasks -> Work]
  BY DEF TypeInv, TypeOK
<1>2. pc'[t] = p /\ work'[t] = w
  BY DEF TypeInv, TypeOK
<1>3. \A u \in Tasks : u # t => pc'[u] = pc[u] /\ work'[u] = work[u]
  BY DEF TypeInv, TypeOK
<1>4. ASSUME NEW u \in Tasks
      PROVE  /\ pc'[u] \in InLoop => work'[u].pos \in DOMAIN Order
             /\ pc'[u] = "stored" => history'[Bank(u)'] # <<>>
  <2>1. CASE u = t
    BY <1>2, <2>1 DEF Bank
  <2>2. CASE u # t
    <3>1. Bank(u)' = Bank(u)
      BY <1>3, <2>2 DEF Bank
    <3>2. QED
      BY <1>3, <2>2, <3>1 DEF TypeInv, InLoopHasBank
  <2>3. QED
    BY <2>1, <2>2
<1>5. QED
  BY <1>1, <1>4 DEF InLoopHasBank

\* What a change of status is allowed to be.
LEMMA StatusType ==
    ASSUME TypeInv, NEW b \in Banks, NEW st \in BankStatuses
    PROVE  [status EXCEPT !.banks[b] = st] \in [running: BOOLEAN, banks: [Banks -> BankStatuses]]
BY DEF TypeInv, TypeOK

LEMMA BankType ==
    ASSUME TypeInv, NEW t \in Tasks, pc[t] \in InLoop
    PROVE  Bank(t) \in Banks /\ work[t].pos \in 1..Len(Order)
BY RunnerAssumption DEF TypeInv, InLoopHasBank, Bank

\* BankFailed and ImportReturns: the bank's part of the run is over.
LEMMA OutcomeTypes ==
    ASSUME TypeInv, NEW t \in Tasks, pc[t] \in InBank,
           NEW st \in BankStatuses, NEW o \in Outcome,
           status' = [status EXCEPT !.banks[Bank(t)] = st],
           work' = [work EXCEPT ![t].parsed = NoSnapshot, ![t].outcomes[Bank(t)] = o],
           Goto(t, "recording"),
           UNCHANGED <<lock, failing, proxies, db, mail>>
    PROVE  TypeInv'
<1>1. Bank(t) \in Banks /\ work[t].pos \in DOMAIN Order
  BY BankType DEF InLoop, TypeInv, InLoopHasBank
<1> DEFINE w == [work[t] EXCEPT !.parsed = NoSnapshot, !.outcomes[Bank(t)] = o]
<1>2. w \in Work /\ w.pos = work[t].pos
  <2>1. work[t] \in Work
    BY DEF TypeInv, TypeOK
  <2>2. [work[t].outcomes EXCEPT ![Bank(t)] = o] \in [Banks -> Outcome]
    BY <1>1, <2>1 DEF Work
  <2>3. NoSnapshot \in Snapshot
    BY RunnerAssumption
  <2>4. QED
    BY <2>1, <2>2, <2>3 DEF Work
<1>3. work' = [work EXCEPT ![t] = w]
  BY DEF TypeInv, TypeOK
<1> HIDE DEF w
<1>4. /\ pc' \in [Tasks -> Pcs] /\ work' \in [Tasks -> Work] /\ InLoopHasBank'
  BY <1>1, <1>2, <1>3, TaskStepTypes DEF Goto, Pcs, Inside, InLoop, db
<1>5. status' \in [running: BOOLEAN, banks: [Banks -> BankStatuses]]
  BY <1>1, StatusType
<1>6. QED
  BY <1>4, <1>5 DEF TypeInv, TypeOK, db, mail

LEMMA TypeInvStep == TypeInv /\ [Next]_vars => TypeInv'
<1> SUFFICES ASSUME TypeInv, [Next]_vars
             PROVE  TypeInv'
  OBVIOUS
<1>0. /\ \A t \in Tasks : work[t] \in Work
      /\ \A b \in Banks : {} \in SUBSET Change
  BY DEF TypeInv, TypeOK
<1>1. ASSUME NEW t \in Tasks, AskManually(t) \/ OnSchedule(t)
      PROVE  TypeInv'
  <2>1. PICK trigger \in {"manual", "schedule"} : Spawn(t, trigger)
    BY <1>1 DEF AskManually, OnSchedule
  <2> DEFINE w == [work[t] EXCEPT !.trigger = trigger]
  <2>2. w \in Work
    BY <1>0 DEF Work
  <2>3. work' = [work EXCEPT ![t] = w]
    BY <2>1 DEF Spawn
  <2> HIDE DEF w
  <2>4. /\ pc' \in [Tasks -> Pcs] /\ work' \in [Tasks -> Work] /\ InLoopHasBank'
    BY <2>1, <2>2, <2>3, TaskStepTypes DEF Spawn, Goto, Pcs, InLoop, InBank, db
  <2>5. QED
    BY <2>1, <2>4 DEF Spawn, TypeInv, TypeOK, db, mail
<1>2. ASSUME NEW t \in Tasks, Skip(t)
      PROVE  TypeInv'
  <2>1. work' = [work EXCEPT ![t] = work[t]]
    BY <1>2 DEF Skip, TypeInv, TypeOK
  <2>2. /\ pc' \in [Tasks -> Pcs] /\ work' \in [Tasks -> Work] /\ InLoopHasBank'
    BY <1>0, <1>2, <2>1, TaskStepTypes DEF Skip, Goto, Pcs, InLoop, InBank, db
  <2>3. QED
    BY <1>2, <2>2 DEF Skip, TypeInv, TypeOK, db, mail
<1>3. ASSUME NEW t \in Tasks, EndSkip(t)
      PROVE  TypeInv'
  <2>1. /\ pc' \in [Tasks -> Pcs] /\ work' \in [Tasks -> Work] /\ InLoopHasBank'
    BY <1>3, NoWorkType, TaskStepTypes DEF EndSkip, Goto, Pcs, InLoop, InBank, db
  <2>2. QED
    BY <1>3, <2>1 DEF EndSkip, TypeInv, TypeOK, db, mail
<1>4. ASSUME NEW t \in Tasks, Enter(t)
      PROVE  TypeInv'
  <2>1. work' = [work EXCEPT ![t] = work[t]]
    BY <1>4 DEF Enter, TypeInv, TypeOK
  <2>2. /\ pc' \in [Tasks -> Pcs] /\ work' \in [Tasks -> Work] /\ InLoopHasBank'
    BY <1>0, <1>4, <2>1, TaskStepTypes DEF Enter, Goto, Pcs, Inside, InLoop, InBank, db
  <2>3. QED
    BY <1>4, <2>2 DEF Enter, TypeInv, TypeOK, db
<1>5. ASSUME NEW t \in Tasks, BeginRun(t)
      PROVE  TypeInv'
  <2>1. work' = [work EXCEPT ![t] = work[t]]
    BY <1>5 DEF BeginRun, TypeInv, TypeOK
  <2>2. /\ pc' \in [Tasks -> Pcs] /\ work' \in [Tasks -> Work] /\ InLoopHasBank'
    BY <1>0, <1>5, <2>1, TaskStepTypes DEF BeginRun, Goto, Pcs, Inside, InLoop, InBank, db
  <2>3. status' \in [running: BOOLEAN, banks: [Banks -> BankStatuses]]
    BY <1>5, BootType DEF BeginRun
  <2>4. QED
    BY <1>5, <2>2, <2>3 DEF BeginRun, TypeInv, TypeOK, db, mail
<1>6. ASSUME NEW t \in Tasks, LoadProxies(t)
      PROVE  TypeInv'
  <2> DEFINE w == [work[t] EXCEPT !.pos = 1]
  <2>1. w \in Work /\ w.pos \in DOMAIN Order
    BY <1>0, OrderFacts DEF Work
  <2>2. work' = [work EXCEPT ![t] = w]
    BY <1>6 DEF LoadProxies
  <2> HIDE DEF w
  <2>3. /\ pc' \in [Tasks -> Pcs] /\ work' \in [Tasks -> Work] /\ InLoopHasBank'
    BY <1>6, <2>1, <2>2, TaskStepTypes DEF LoadProxies, Goto, Pcs, Inside, InLoop, db
  <2>4. QED
    BY <1>6, <2>3 DEF LoadProxies, TypeInv, TypeOK, db, mail
<1>7. ASSUME NEW t \in Tasks, StartBank(t)
      PROVE  TypeInv'
  <2>1. pc[t] \in InLoop /\ Bank(t) \in Banks /\ work[t].pos \in DOMAIN Order
    BY <1>7, BankType DEF StartBank, InLoop, TypeInv, InLoopHasBank
  <2>2. work' = [work EXCEPT ![t] = work[t]]
    BY <1>7 DEF StartBank, TypeInv, TypeOK
  <2>3. /\ pc' \in [Tasks -> Pcs] /\ work' \in [Tasks -> Work] /\ InLoopHasBank'
    BY <1>0, <1>7, <2>1, <2>2, TaskStepTypes DEF StartBank, Goto, Pcs, Inside, InLoop, InBank, db
  <2>4. status' \in [running: BOOLEAN, banks: [Banks -> BankStatuses]]
    BY <1>7, <2>1, StatusType DEF StartBank, BankStatuses
  <2>5. QED
    BY <1>7, <2>3, <2>4 DEF StartBank, TypeInv, TypeOK, db, mail
<1>8. ASSUME NEW t \in Tasks, NEW s \in Portals, Parse(t, s)
      PROVE  TypeInv'
  <2> DEFINE w == [work[t] EXCEPT !.parsed = s]
  <2>1. w \in Work /\ w.pos = work[t].pos
    <3>1. s \in Snapshot
      BY RunnerAssumption
    <3>2. QED
      BY <1>0, <3>1 DEF Work
  <2>2. work' = [work EXCEPT ![t] = w]
    BY <1>8 DEF Parse
  <2>3. work[t].pos \in DOMAIN Order
    BY <1>8 DEF Parse, InLoop, InBank, TypeInv, InLoopHasBank
  <2> HIDE DEF w
  <2>4. /\ pc' \in [Tasks -> Pcs] /\ work' \in [Tasks -> Work] /\ InLoopHasBank'
    BY <1>8, <2>1, <2>2, <2>3, TaskStepTypes DEF Parse, Goto, Pcs, Inside, InLoop, InBank, db
  <2>5. QED
    BY <1>8, <2>4 DEF Parse, TypeInv, TypeOK, db, mail
<1>9. ASSUME NEW t \in Tasks, Store(t)
      PROVE  TypeInv'
  <2>1. /\ pc[t] \in InLoop /\ Bank(t) \in Banks
        /\ \A u \in Tasks : pc[u] \in InLoop => Bank(u) \in Banks /\ work[u].pos \in DOMAIN Order
    BY <1>9, BankType DEF Store, InLoop, InBank, TypeInv, InLoopHasBank
  <2>2. work[t].parsed \in Snapshot /\ DB!Publish(Bank(t), work[t].parsed)
    BY <1>0, <1>9 DEF Store, Work
  <2>2a. PICK b \in Banks, s \in Snapshot : b = Bank(t) /\ s = work[t].parsed /\ DB!Publish(b, s)
    BY <2>1, <2>2
  <2>3. /\ current' \in [Banks -> Snapshot]
        /\ history' \in [Banks -> Seq(SUBSET Change)]
        /\ history'[b] # <<>>
        /\ \A c \in Banks : history[c] # <<>> => history'[c] # <<>>
    BY <2>2a, PublishType DEF TypeInv
  <2>4. /\ pc' = [pc EXCEPT ![t] = "stored"]
        /\ UNCHANGED <<work, lock, status, failing, proxies, mail>>
    BY <1>9 DEF Store, Goto
  <2>5. InLoopHasBank'
    <3> SUFFICES ASSUME NEW u \in Tasks
                 PROVE  /\ pc'[u] \in InLoop => work'[u].pos \in DOMAIN Order
                        /\ pc'[u] = "stored" => history'[Bank(u)'] # <<>>
      BY DEF InLoopHasBank
    <3>1. Bank(u)' = Bank(u)
      BY <2>4 DEF Bank
    <3>2. CASE u = t
      BY <2>1, <2>2a, <2>3, <2>4, <3>1, <3>2 DEF TypeInv, TypeOK
    <3>3. CASE u # t
      <4>1. pc'[u] = pc[u]
        BY <2>4, <3>3 DEF TypeInv, TypeOK
      <4>2. QED
        BY <2>1, <2>3, <2>4, <3>1, <4>1 DEF TypeInv, InLoopHasBank, InLoop, InBank
    <3>4. QED
      BY <3>2, <3>3
  <2>6. pc' \in [Tasks -> Pcs]
    BY <2>4 DEF TypeInv, TypeOK, Pcs, Inside, InLoop, InBank
  <2>7. QED
    BY <2>3, <2>4, <2>5, <2>6 DEF TypeInv, TypeOK, mail
<1>10. ASSUME NEW t \in Tasks, ImportReturns(t)
       PROVE  TypeInv'
  <2> DEFINE o == [ended |-> TRUE, failed |-> FALSE, changes |-> Reported(Bank(t))]
  <2>1. pc[t] \in InBank /\ Bank(t) \in Banks /\ history[Bank(t)] # <<>>
    BY <1>10, BankType DEF ImportReturns, InLoop, InBank, TypeInv, InLoopHasBank
  <2>2. Reported(Bank(t)) \in SUBSET Change
    <3> DEFINE h == history[Bank(t)]
    <3>1. h \in Seq(SUBSET Change) /\ h # <<>>
      BY <2>1 DEF TypeInv, TypeOK
    <3>2. h[Len(h)] \in SUBSET Change
      BY <3>1
    <3>3. QED
      BY <3>2 DEF Reported, Public
  <2>3. o \in Outcome
    BY <2>2 DEF Outcome
  <2>4. /\ status' = [status EXCEPT !.banks[Bank(t)] = "done"]
        /\ work' = [work EXCEPT ![t].parsed = NoSnapshot, ![t].outcomes[Bank(t)] = o]
        /\ Goto(t, "recording")
        /\ UNCHANGED <<lock, failing, proxies, db, mail>>
    BY <1>10 DEF ImportReturns
  <2> HIDE DEF o
  <2>5. QED
    BY <2>1, <2>3, <2>4, OutcomeTypes DEF BankStatuses
<1>11. ASSUME NEW t \in Tasks, Fail(t) \/ Reject(t) \/ LoseAnswer(t)
       PROVE  TypeInv'
  <2>1. pc[t] \in InBank /\ BankFailed(t)
    BY <1>11 DEF Fail, Reject, LoseAnswer, InBank
  <2>2. [ended |-> TRUE, failed |-> TRUE, changes |-> {}] \in Outcome
    BY DEF Outcome
  <2>3. QED
    BY <2>1, <2>2, OutcomeTypes DEF BankFailed, BankStatuses
<1>12. ASSUME NEW t \in Tasks, NextBank(t)
       PROVE  TypeInv'
  <2> DEFINE w == [work[t] EXCEPT !.pos = @ + 1]
  <2>1. work[t].pos \in 1..Len(Order) /\ work[t].pos < Len(Order)
    BY <1>12, BankType DEF NextBank, InLoop
  <2>2. w \in Work /\ w.pos \in DOMAIN Order
    BY <1>0, <2>1, OrderFacts DEF Work
  <2>3. work' = [work EXCEPT ![t] = w]
    BY <1>12 DEF NextBank
  <2> HIDE DEF w
  <2>4. /\ pc' \in [Tasks -> Pcs] /\ work' \in [Tasks -> Work] /\ InLoopHasBank'
    BY <1>12, <2>2, <2>3, TaskStepTypes DEF NextBank, Goto, Pcs, Inside, InLoop, db
  <2>5. QED
    BY <1>12, <2>4 DEF NextBank, TypeInv, TypeOK, db, mail
<1>13. ASSUME NEW t \in Tasks, Finish(t)
       PROVE  TypeInv'
  <2>1. work' = [work EXCEPT ![t] = work[t]]
    BY <1>13 DEF Finish, TypeInv, TypeOK
  <2>2. /\ pc' \in [Tasks -> Pcs] /\ work' \in [Tasks -> Work] /\ InLoopHasBank'
    BY <1>0, <1>13, <2>1, TaskStepTypes
    DEF Finish, Goto, Pcs, Inside, InLoop, InBank, AfterLoop, db
  <2>3. status' \in [running: BOOLEAN, banks: [Banks -> BankStatuses]]
    BY <1>13 DEF Finish, TypeInv, TypeOK
  <2>4. QED
    BY <1>13, <2>2, <2>3 DEF Finish, TypeInv, TypeOK, db, mail
<1>14. ASSUME NEW t \in Tasks, Notify(t)
       PROVE  TypeInv'
  <2>1. PICK digest, alerts :
           /\ digest \in {Digest(t), NoChange} /\ alerts \in {Alerts(t), {}}
           /\ work' = [work EXCEPT ![t].digest = digest, ![t].alerts = alerts]
    BY <1>14 DEF Notify
  <2>2. /\ \A b \in Banks : work[t].outcomes[b] \in Outcome
        /\ Failed(t) \subseteq Banks /\ Recovered(t) \subseteq Banks
    BY <1>0 DEF Work, Failed, Recovered, TypeInv, TypeOK
  <2>3. Digest(t) \in [Banks -> SUBSET Change] /\ NoChange \in [Banks -> SUBSET Change]
    BY <2>2 DEF Digest, NoChange, Outcome
  <2>4. alerts \subseteq Alert
    BY <2>1, <2>2 DEF Alerts, Alert
  <2> DEFINE w == [work[t] EXCEPT !.digest = digest, !.alerts = alerts]
  <2>5. w \in Work
    BY <1>0, <2>1, <2>3, <2>4 DEF Work
  <2>6. work' = [work EXCEPT ![t] = w]
    BY <2>1 DEF TypeInv, TypeOK
  <2> HIDE DEF w
  <2>7. /\ pc' \in [Tasks -> Pcs] /\ work' \in [Tasks -> Work] /\ InLoopHasBank'
    BY <1>14, <2>5, <2>6, TaskStepTypes
    DEF Notify, Goto, Pcs, Inside, InLoop, InBank, AfterLoop, db
  <2>8. failing' \subseteq Banks
    BY <1>14, <2>2 DEF Notify, NowFailing, TypeInv, TypeOK
  <2>9. QED
    BY <1>14, <2>7, <2>8 DEF Notify, TypeInv, TypeOK, db, mail
<1>15. ASSUME NEW t \in Tasks, Broadcast(t)
       PROVE  TypeInv'
  <2>1. work' = [work EXCEPT ![t] = work[t]]
    BY <1>15 DEF Broadcast, TypeInv, TypeOK
  <2>2. /\ pc' \in [Tasks -> Pcs] /\ work' \in [Tasks -> Work] /\ InLoopHasBank'
    BY <1>0, <1>15, <2>1, TaskStepTypes
    DEF Broadcast, Goto, Pcs, Inside, InLoop, InBank, AfterLoop, db
  <2>3. news' \in [Banks -> Seq(SUBSET Change)]
    <3> DEFINE Batch == SUBSET Change
    <3>1. news \in [Banks -> Seq(Batch)] /\ work[t].digest \in [Banks -> Batch]
      BY <1>0 DEF Work, TypeInv, TypeOK
    <3>2. news' = [b \in Banks |-> IF work[t].digest[b] = {} THEN news[b]
                                   ELSE Append(news[b], work[t].digest[b])]
      BY <1>15 DEF Broadcast
    <3> HIDE DEF Batch
    <3>3. \A b \in Banks : Append(news[b], work[t].digest[b]) \in Seq(Batch)
      BY <3>1
    <3>4. news' \in [Banks -> Seq(Batch)]
      BY <3>1, <3>2, <3>3
    <3>5. QED
      BY <3>4 DEF Batch
  <2>4. QED
    BY <1>15, <2>2, <2>3 DEF Broadcast, TypeInv, TypeOK, db
<1>16. ASSUME NEW t \in Tasks, NEW a \in Alert, SendAlert(t, a)
       PROVE  TypeInv'
  <2> DEFINE w == [work[t] EXCEPT !.alerts = @ \ {a}]
  <2>1. w \in Work
    BY <1>0 DEF Work
  <2>2. /\ pc' = [pc EXCEPT ![t] = pc[t]]
        /\ work' = [work EXCEPT ![t] = w]
        /\ pc[t] = "alerting"
    BY <1>16 DEF SendAlert, TypeInv, TypeOK
  <2> HIDE DEF w
  <2>3. /\ pc' \in [Tasks -> Pcs] /\ work' \in [Tasks -> Work] /\ InLoopHasBank'
    BY <1>16, <2>1, <2>2, TaskStepTypes
    DEF SendAlert, Pcs, Inside, InLoop, InBank, AfterLoop, db
  <2>4. /\ told' \in [Banks -> {"nothing", "failure", "recovery"}]
        /\ heard' \in [Banks -> {"nothing", "failure", "recovery"}]
        /\ lost' \in BOOLEAN
    BY <1>16 DEF SendAlert, Alert, TypeInv, TypeOK
  <2>5. QED
    BY <1>16, <2>3, <2>4 DEF SendAlert, TypeInv, TypeOK, db
<1>17. ASSUME NEW t \in Tasks, Leave(t)
       PROVE  TypeInv'
  <2>1. /\ pc' \in [Tasks -> Pcs] /\ work' \in [Tasks -> Work] /\ InLoopHasBank'
    BY <1>17, NoWorkType, TaskStepTypes DEF Leave, Goto, Pcs, InLoop, InBank, db
  <2>2. QED
    BY <1>17, <2>1 DEF Leave, TypeInv, TypeOK, db, mail
<1>18. CASE Crash
  <2>1. /\ pc' \in [Tasks -> {"idle", "queued"}] /\ work' \in [Tasks -> Work]
        /\ status' \in [running: BOOLEAN, banks: [Banks -> BankStatuses]]
    BY <1>18, BootType DEF Crash
  <2>2. InLoopHasBank'
    BY <2>1 DEF InLoopHasBank, InLoop, InBank
  <2>3. pc' \in [Tasks -> Pcs]
    BY <2>1 DEF Pcs
  <2>4. /\ told' \in [Banks -> {"nothing", "failure", "recovery"}]
        /\ heard' \in [Banks -> {"nothing", "failure", "recovery"}]
        /\ lost' \in BOOLEAN /\ proxies' \in BOOLEAN
        /\ failing' \subseteq Banks /\ lock' \in Tasks \cup {NoTask}
    BY <1>18 DEF Crash
  <2>5. QED
    BY <1>18, <2>1, <2>2, <2>3, <2>4 DEF Crash, TypeInv, TypeOK, db
<1>19. CASE UNCHANGED vars
  BY <1>19 DEF vars, db, mail, TypeInv, TypeOK, InLoopHasBank, Bank
<1>20. QED
  BY <1>1, <1>2, <1>3, <1>4, <1>5, <1>6, <1>7, <1>8, <1>9, <1>10, <1>11, <1>12, <1>13,
     <1>14, <1>15, <1>16, <1>17, <1>18, <1>19 DEF Next, Step

\* Every variable keeps its type, whatever fails, overlaps or crashes.
THEOREM TypeCorrect == Spec => []TypeOK
<1>1. TypeInv => TypeOK
  BY DEF TypeInv
<1>2. QED
  BY <1>1, TypeInvInit, TypeInvStep, PTL DEF Spec

-----------------------------------------------------------------------------
(* One run at a time, and what it leaves visible *)

LockInv == \A t \in Tasks : pc[t] \in Inside <=> lock = t

\* The statuses of the banks follow the position of the run.
StatusInv ==
    /\ status.running <=> \E t \in Tasks : pc[t] \in {"loading"} \cup InLoop
    /\ \A t \in Tasks : pc[t] = "loading" => \A b \in Banks : status.banks[b] = "pending"
    /\ \A t \in Tasks : pc[t] \in InLoop => \A n \in DOMAIN Order :
          /\ n < work[t].pos => status.banks[Order[n]] \in {"done", "error"}
          /\ n > work[t].pos => status.banks[Order[n]] = "pending"
          /\ n = work[t].pos =>
                /\ pc[t] = "announcing" => status.banks[Order[n]] = "pending"
                /\ pc[t] \in InBank => status.banks[Order[n]] = "running"
                /\ pc[t] = "recording" => status.banks[Order[n]] \in {"done", "error"}
    /\ \A t \in Tasks : pc[t] \in AfterLoop =>
          \A b \in Banks : status.banks[b] \in {"done", "error"}
    /\ (\A t \in Tasks : pc[t] \notin InLoop) => \A b \in Banks : status.banks[b] # "running"

RunInv == TypeInv /\ LockInv /\ ProxiesOnlyDuringRun /\ StatusInv

LEMMA RunInvInit == Init => RunInv
<1> SUFFICES ASSUME Init PROVE RunInv
  OBVIOUS
<1>1. \A t \in Tasks : pc[t] \in {"idle", "queued"}
  BY BootType DEF Init
<1>2. /\ lock \notin Tasks /\ proxies = FALSE
      /\ status.running = FALSE /\ \A b \in Banks : status.banks[b] = "pending"
  BY RunnerAssumption DEF Init, NotStarted
<1>3. QED
  BY <1>1, <1>2, TypeInvInit
  DEF RunInv, LockInv, ProxiesOnlyDuringRun, StatusInv, Inside, InLoop, InBank, AfterLoop

\* A task outside the lock changes nothing that another one relies on.
LEMMA OutsideStep ==
    ASSUME RunInv, TypeInv', NEW t \in Tasks, pc[t] \notin Inside,
           NEW p \in {"idle", "queued", "skipping"},
           pc' = [pc EXCEPT ![t] = p],
           \A u \in Tasks : u # t => work'[u] = work[u],
           UNCHANGED <<lock, status, proxies>>
    PROVE  RunInv'
<1>1. pc'[t] = p /\ p \notin Inside /\ \A u \in Tasks : u # t => pc'[u] = pc[u]
  BY DEF RunInv, TypeInv, TypeOK, Inside, InLoop, InBank, AfterLoop
<1>2. /\ \A u \in Tasks : (pc'[u] \in Inside \/ pc[u] \in Inside) =>
            pc'[u] = pc[u] /\ work'[u] = work[u]
      /\ {"loading"} \cup InLoop \subseteq Inside /\ AfterLoop \subseteq Inside
  BY <1>1 DEF Inside
<1>3. LockInv' /\ ProxiesOnlyDuringRun'
  BY <1>2 DEF RunInv, LockInv, ProxiesOnlyDuringRun
<1>4. StatusInv'
  <2>1. \A u \in Tasks : pc'[u] \in {"loading"} \cup InLoop <=> pc[u] \in {"loading"} \cup InLoop
    BY <1>2
  <2>2. \A u \in Tasks : pc'[u] \in InLoop <=> pc[u] \in InLoop
    BY <1>2
  <2>3. QED
    BY <1>2, <2>1, <2>2 DEF RunInv, StatusInv
<1>5. QED
  BY <1>3, <1>4 DEF RunInv

\* A task inside the lock is alone there, so what is to show is about it only.
LEMMA InsideStep ==
    ASSUME RunInv, TypeInv', NEW t \in Tasks, NEW p \in Inside,
           \A u \in Tasks : u # t => pc[u] \notin Inside,
           pc' = [pc EXCEPT ![t] = p], lock' = t,
           proxies' => p \in InLoop,
           status'.running <=> p \in {"loading"} \cup InLoop,
           p = "loading" => \A b \in Banks : status'.banks[b] = "pending",
           p \in InLoop => \A n \in DOMAIN Order :
              /\ n < work'[t].pos => status'.banks[Order[n]] \in {"done", "error"}
              /\ n > work'[t].pos => status'.banks[Order[n]] = "pending"
              /\ n = work'[t].pos =>
                    /\ p = "announcing" => status'.banks[Order[n]] = "pending"
                    /\ p \in InBank => status'.banks[Order[n]] = "running"
                    /\ p = "recording" => status'.banks[Order[n]] \in {"done", "error"},
           p \in AfterLoop => \A b \in Banks : status'.banks[b] \in {"done", "error"},
           p \notin InLoop => \A b \in Banks : status'.banks[b] # "running"
    PROVE  RunInv'
<1>1. pc'[t] = p /\ \A u \in Tasks : u # t => pc'[u] \notin Inside
  BY DEF RunInv, TypeInv, TypeOK
<1>2. /\ "loading" \in Inside /\ InLoop \subseteq Inside /\ AfterLoop \subseteq Inside
  BY DEF Inside
<1>3. LockInv' /\ ProxiesOnlyDuringRun'
  BY <1>1, <1>2 DEF LockInv, ProxiesOnlyDuringRun
<1>4. StatusInv'
  <2>1. \A u \in Tasks : pc'[u] \in {"loading"} \cup InLoop \cup AfterLoop => u = t
    BY <1>1, <1>2
  <2>2. status'.running <=> \E u \in Tasks : pc'[u] \in {"loading"} \cup InLoop
    BY <1>1, <2>1
  <2>3. (\A u \in Tasks : pc'[u] \notin InLoop) => p \notin InLoop
    BY <1>1
  <2>4. QED
    BY <1>1, <2>1, <2>2, <2>3 DEF StatusInv
<1>5. QED
  BY <1>3, <1>4 DEF RunInv

LEMMA Alone ==
    ASSUME RunInv, NEW t \in Tasks, pc[t] \in Inside
    PROVE  lock = t /\ \A u \in Tasks : u # t => pc[u] \notin Inside
BY DEF RunInv, LockInv

\* The status of a bank, seen from its place in the order.
LEMMA SetBank ==
    ASSUME TypeInv, NEW t \in Tasks, pc[t] \in InLoop, NEW st,
           status' = [status EXCEPT !.banks[Bank(t)] = st]
    PROVE  /\ status'.running = status.running
           /\ \A n \in DOMAIN Order :
                 status'.banks[Order[n]] = IF n = work[t].pos THEN st ELSE status.banks[Order[n]]
<1>1. Bank(t) \in Banks /\ work[t].pos \in DOMAIN Order
  BY BankType DEF TypeInv, InLoopHasBank
<1>2. \A m, n \in DOMAIN Order : Order[m] = Order[n] => m = n
  BY RunnerAssumption
<1>3. \A n \in DOMAIN Order : Order[n] \in Banks
  BY OrderFacts
<1>4. /\ status'.running = status.running
      /\ \A b \in Banks : status'.banks[b] = IF b = Bank(t) THEN st ELSE status.banks[b]
  BY <1>1 DEF TypeInv, TypeOK
<1>5. QED
  BY <1>1, <1>2, <1>3, <1>4 DEF Bank

\* The bank the run is at starts, or its part is over.
LEMMA BankStep ==
    ASSUME RunInv, TypeInv', NEW t \in Tasks, pc[t] \in InLoop, NEW p \in Inside, NEW st,
           \/ p \in InBank /\ st = "running"
           \/ p = "recording" /\ st \in {"done", "error"},
           pc' = [pc EXCEPT ![t] = p], work'[t].pos = work[t].pos,
           status' = [status EXCEPT !.banks[Bank(t)] = st],
           UNCHANGED <<lock, proxies>>
    PROVE  RunInv'
<1> USE DEF InBank, InLoop, AfterLoop, Inside
<1>1. lock' = t /\ \A u \in Tasks : u # t => pc[u] \notin Inside
  BY Alone
<1>2. /\ status'.running = status.running
      /\ \A n \in DOMAIN Order :
            status'.banks[Order[n]] = IF n = work[t].pos THEN st ELSE status.banks[Order[n]]
  BY SetBank DEF RunInv
<1>3. /\ status.running
      /\ \A n \in DOMAIN Order :
            /\ n < work[t].pos => status.banks[Order[n]] \in {"done", "error"}
            /\ n > work[t].pos => status.banks[Order[n]] = "pending"
  BY DEF RunInv, StatusInv
<1>4. work[t].pos \in Int /\ DOMAIN Order \subseteq Int
  BY OrderFacts DEF RunInv, TypeInv, InLoopHasBank
<1>5. \A n \in DOMAIN Order :
         /\ n < work'[t].pos => status'.banks[Order[n]] \in {"done", "error"}
         /\ n > work'[t].pos => status'.banks[Order[n]] = "pending"
         /\ n = work'[t].pos => status'.banks[Order[n]] = st
  BY <1>2, <1>3, <1>4
<1>6. p \in InLoop /\ p # "loading" /\ p \notin AfterLoop
  OBVIOUS
<1>7. p \in InLoop => \A n \in DOMAIN Order :
         /\ n < work'[t].pos => status'.banks[Order[n]] \in {"done", "error"}
         /\ n > work'[t].pos => status'.banks[Order[n]] = "pending"
         /\ n = work'[t].pos =>
               /\ p = "announcing" => status'.banks[Order[n]] = "pending"
               /\ p \in InBank => status'.banks[Order[n]] = "running"
               /\ p = "recording" => status'.banks[Order[n]] \in {"done", "error"}
  BY <1>5
<1>8. QED
  BY <1>1, <1>2, <1>3, <1>6, <1>7, InsideStep

LEMMA RunInvStep == RunInv /\ [Next]_vars => RunInv'
<1> SUFFICES ASSUME RunInv, [Next]_vars
             PROVE  RunInv'
  OBVIOUS
<1> USE DEF InBank, InLoop, AfterLoop, Inside
<1>0. TypeInv /\ TypeInv'
  BY TypeInvStep DEF RunInv
<1>1. ASSUME NEW t \in Tasks, AskManually(t) \/ OnSchedule(t) \/ Skip(t) \/ EndSkip(t)
      PROVE  RunInv'
  <2>1. PICK p \in {"idle", "queued", "skipping"} :
           /\ pc[t] \in {"idle", "queued", "skipping"}
           /\ pc' = [pc EXCEPT ![t] = p]
           /\ UNCHANGED <<lock, status, proxies>>
    BY <1>1 DEF AskManually, OnSchedule, Spawn, Skip, EndSkip, Goto
  <2>2. \A u \in Tasks : u # t => work'[u] = work[u]
    BY <1>0, <1>1 DEF AskManually, OnSchedule, Spawn, Skip, EndSkip, TypeInv, TypeOK
  <2>3. pc[t] \notin Inside
    BY <2>1
  <2>4. QED
    BY <1>0, <2>1, <2>2, <2>3, OutsideStep
<1>2. ASSUME NEW t \in Tasks, Enter(t)
      PROVE  RunInv'
  <2>1. /\ \A u \in Tasks : pc[u] \notin Inside
        /\ pc' = [pc EXCEPT ![t] = "entered"] /\ lock' = t
        /\ UNCHANGED <<status, proxies>>
    BY <1>2, RunnerAssumption DEF Enter, LockIsFree, Goto, RunInv, LockInv
  <2>2. ~status.running /\ ~proxies /\ \A b \in Banks : status.banks[b] # "running"
    BY <1>0, <2>1 DEF RunInv, StatusInv, ProxiesOnlyDuringRun, TypeInv, TypeOK
  <2>3. QED
    BY <1>0, <2>1, <2>2, InsideStep
<1>3. ASSUME NEW t \in Tasks, BeginRun(t)
      PROVE  RunInv'
  <2>1. lock = t /\ \A u \in Tasks : u # t => pc[u] \notin Inside
    BY <1>3, Alone DEF BeginRun
  <2>2. ~proxies
    BY <1>3, <2>1 DEF BeginRun, RunInv, ProxiesOnlyDuringRun
  <2>3. /\ pc' = [pc EXCEPT ![t] = "loading"] /\ lock' = t /\ proxies' = proxies
        /\ status'.running /\ \A b \in Banks : status'.banks[b] = "pending"
    BY <1>3, <2>1 DEF BeginRun, Goto, NotStarted
  <2>4. QED
    BY <1>0, <2>1, <2>2, <2>3, InsideStep
<1>4. ASSUME NEW t \in Tasks, LoadProxies(t)
      PROVE  RunInv'
  <2>1. lock = t /\ \A u \in Tasks : u # t => pc[u] \notin Inside
    BY <1>4, Alone DEF LoadProxies
  <2>2. /\ pc' = [pc EXCEPT ![t] = "announcing"] /\ lock' = t /\ status' = status
        /\ work'[t].pos = 1
    BY <1>0, <1>4, <2>1 DEF LoadProxies, Goto, TypeInv, TypeOK, Work
  <2>3. status.running /\ \A b \in Banks : status.banks[b] = "pending"
    BY <1>4 DEF LoadProxies, RunInv, StatusInv
  <2>4. \A n \in DOMAIN Order : ~(n < work'[t].pos) /\ status'.banks[Order[n]] = "pending"
    BY <2>2, <2>3, OrderFacts
  <2>5. QED
    BY <1>0, <2>1, <2>2, <2>3, <2>4, InsideStep
<1>6. ASSUME NEW t \in Tasks, StartBank(t)
      PROVE  RunInv'
  <2>1. /\ pc[t] \in InLoop /\ pc' = [pc EXCEPT ![t] = "parsing"]
        /\ status' = [status EXCEPT !.banks[Bank(t)] = "running"]
        /\ work'[t].pos = work[t].pos
        /\ UNCHANGED <<lock, proxies>>
    BY <1>6 DEF StartBank, Goto
  <2>2. QED
    BY <1>0, <2>1, BankStep
<1>7. ASSUME NEW t \in Tasks, (\E s \in Portals : Parse(t, s)) \/ Store(t)
      PROVE  RunInv'
  <2>1. PICK p \in InBank :
           /\ pc[t] \in InBank
           /\ pc' = [pc EXCEPT ![t] = p]
           /\ UNCHANGED <<lock, status, proxies>>
    BY <1>7 DEF Parse, Store, Goto
  <2>2. work'[t].pos = work[t].pos
    BY <1>0, <1>7 DEF Parse, Store, TypeInv, TypeOK, Work
  <2>3. lock = t /\ \A u \in Tasks : u # t => pc[u] \notin Inside
    BY <2>1, Alone
  <2>4. /\ status.running
        /\ \A n \in DOMAIN Order :
              /\ n < work[t].pos => status.banks[Order[n]] \in {"done", "error"}
              /\ n > work[t].pos => status.banks[Order[n]] = "pending"
              /\ n = work[t].pos => status.banks[Order[n]] = "running"
    BY <2>1 DEF RunInv, StatusInv
  <2>5. QED
    BY <1>0, <2>1, <2>2, <2>3, <2>4, InsideStep
<1>8. ASSUME NEW t \in Tasks, ImportReturns(t) \/ Fail(t) \/ Reject(t) \/ LoseAnswer(t)
      PROVE  RunInv'
  <2>1. /\ pc[t] \in InLoop /\ pc' = [pc EXCEPT ![t] = "recording"]
        /\ UNCHANGED <<lock, proxies>>
    BY <1>8 DEF ImportReturns, Fail, Reject, LoseAnswer, BankFailed, Goto
  <2>1a. PICK st \in {"done", "error"} : status' = [status EXCEPT !.banks[Bank(t)] = st]
    BY <1>8 DEF ImportReturns, Fail, Reject, LoseAnswer, BankFailed
  <2>2. work'[t].pos = work[t].pos
    BY <1>0, <1>8
    DEF ImportReturns, Fail, Reject, LoseAnswer, BankFailed, TypeInv, TypeOK, Work
  <2>3. QED
    BY <1>0, <2>1, <2>1a, <2>2, BankStep
<1>9. ASSUME NEW t \in Tasks, NextBank(t)
      PROVE  RunInv'
  <2>1. lock = t /\ \A u \in Tasks : u # t => pc[u] \notin Inside
    BY <1>9, Alone DEF NextBank
  <2>2. /\ pc[t] = "recording" /\ pc' = [pc EXCEPT ![t] = "announcing"]
        /\ work'[t].pos = work[t].pos + 1
        /\ UNCHANGED <<lock, status, proxies>>
    BY <1>0, <1>9 DEF NextBank, Goto, TypeInv, TypeOK, Work
  <2>3. /\ status.running
        /\ \A n \in DOMAIN Order :
              /\ n < work[t].pos => status.banks[Order[n]] \in {"done", "error"}
              /\ n > work[t].pos => status.banks[Order[n]] = "pending"
              /\ n = work[t].pos => status.banks[Order[n]] \in {"done", "error"}
    BY <2>2 DEF RunInv, StatusInv
  <2>4. work[t].pos \in Int /\ DOMAIN Order \subseteq Int
    BY <1>0, <2>2, OrderFacts DEF TypeInv, InLoopHasBank
  <2>5. \A n \in DOMAIN Order :
           /\ n < work'[t].pos => status'.banks[Order[n]] \in {"done", "error"}
           /\ n >= work'[t].pos => status'.banks[Order[n]] = "pending"
    BY <2>2, <2>3, <2>4
  <2>6. /\ "announcing" \in InLoop /\ "announcing" \notin AfterLoop
        /\ "announcing" \notin InBank /\ lock' = t /\ status'.running
        /\ proxies' => "announcing" \in InLoop
    BY <2>1, <2>2, <2>3
  <2>7. \A n \in DOMAIN Order :
           /\ n < work'[t].pos => status'.banks[Order[n]] \in {"done", "error"}
           /\ n > work'[t].pos => status'.banks[Order[n]] = "pending"
           /\ n = work'[t].pos => status'.banks[Order[n]] = "pending"
    BY <2>2, <2>4, <2>5
  <2>8. QED
    BY <1>0, <2>1, <2>2, <2>6, <2>7, InsideStep
<1>10. ASSUME NEW t \in Tasks, Finish(t)
       PROVE  RunInv'
  <2>1. lock = t /\ \A u \in Tasks : u # t => pc[u] \notin Inside
    BY <1>10, Alone DEF Finish
  <2>2. /\ pc[t] = "recording" /\ pc' = [pc EXCEPT ![t] = "summary"]
        /\ work[t].pos = Len(Order) /\ proxies' = FALSE
        /\ status'.running = FALSE /\ status'.banks = status.banks
        /\ UNCHANGED lock
    BY <1>0, <1>10 DEF Finish, Goto, TypeInv, TypeOK
  <2>3. \A n \in DOMAIN Order : n <= work[t].pos
    BY <2>2, OrderFacts
  <2>4. \A n \in DOMAIN Order : status.banks[Order[n]] \in {"done", "error"}
    <3>1. \A n \in DOMAIN Order : n < work[t].pos \/ n = work[t].pos
      BY <2>2, <2>3, OrderFacts
    <3>2. QED
      BY <2>2, <3>1 DEF RunInv, StatusInv
  <2>5. \A b \in Banks : status.banks[b] \in {"done", "error"}
    BY <2>4, RunnerAssumption
  <2>6. QED
    BY <1>0, <2>1, <2>2, <2>5, InsideStep
<1>11. ASSUME NEW t \in Tasks,
              Notify(t) \/ Broadcast(t) \/ (\E a \in Alert : SendAlert(t, a))
       PROVE  RunInv'
  <2>1. PICK p \in AfterLoop :
           /\ pc[t] \in AfterLoop
           /\ pc' = [pc EXCEPT ![t] = p]
           /\ UNCHANGED <<lock, status, proxies>>
    <3>1. CASE Notify(t) \/ Broadcast(t)
      BY <3>1 DEF Notify, Broadcast, Goto
    <3>2. ASSUME NEW a \in Alert, SendAlert(t, a)
          PROVE  pc' = [pc EXCEPT ![t] = "alerting"] /\ pc[t] \in AfterLoop
                 /\ UNCHANGED <<lock, status, proxies>>
      <4>1. pc' = [pc EXCEPT ![t] = "alerting"]
        BY <1>0, <3>2 DEF SendAlert, TypeInv, TypeOK
      <4>2. QED
        BY <3>2, <4>1 DEF SendAlert
    <3>3. QED
      BY <1>11, <3>1, <3>2
  <2>2. lock = t /\ \A u \in Tasks : u # t => pc[u] \notin Inside
    BY <2>1, Alone
  <2>3. ~status.running /\ ~proxies /\ \A b \in Banks : status.banks[b] \in {"done", "error"}
    BY <1>0, <2>1, <2>2 DEF RunInv, StatusInv, ProxiesOnlyDuringRun, TypeInv, TypeOK
  <2>4. QED
    BY <1>0, <2>1, <2>2, <2>3, InsideStep
<1>12. ASSUME NEW t \in Tasks, Leave(t)
       PROVE  RunInv'
  <2>1. lock = t /\ \A u \in Tasks : u # t => pc[u] \notin Inside
    BY <1>12, Alone DEF Leave
  <2>2. ~status.running /\ ~proxies /\ \A b \in Banks : status.banks[b] # "running"
    BY <1>0, <1>12, <2>1 DEF Leave, RunInv, StatusInv, ProxiesOnlyDuringRun, TypeInv, TypeOK
  <2>3. \A u \in Tasks : pc'[u] \notin Inside
    BY <1>0, <1>12, <2>1 DEF Leave, Goto, TypeInv, TypeOK
  <2>4. lock' = NoTask /\ status' = status /\ proxies' = proxies
    BY <1>12 DEF Leave
  <2>5. QED
    BY <1>0, <2>2, <2>3, <2>4, RunnerAssumption
    DEF RunInv, LockInv, ProxiesOnlyDuringRun, StatusInv
<1>13. CASE Crash
  <2>1. /\ \A t \in Tasks : pc'[t] \in {"idle", "queued"}
        /\ lock' = NoTask /\ proxies' = FALSE
        /\ status'.running = FALSE /\ \A b \in Banks : status'.banks[b] = "pending"
    BY <1>13, BootType DEF Crash, NotStarted
  <2>2. QED
    BY <1>0, <2>1, RunnerAssumption DEF RunInv, LockInv, ProxiesOnlyDuringRun, StatusInv
<1>14. CASE UNCHANGED vars
  BY <1>0, <1>14 DEF vars, RunInv, LockInv, ProxiesOnlyDuringRun, StatusInv
<1>15. QED
  BY <1>1, <1>2, <1>3, <1>4, <1>6, <1>7, <1>8, <1>9, <1>10, <1>11, <1>12, <1>13, <1>14
  DEF Next, Step

LEMMA RunInvAlways == Spec => []RunInv
BY RunInvInit, RunInvStep, PTL DEF Spec

\* At most one run is inside the lock, whatever starts it and however often the
\* process crashes: imports never overlap, which is the hypothesis
\* SerialImports of SnapshotImportProofs.
THEOREM OneRunAtATimeTheorem == Spec => []OneRunAtATime
<1>1. RunInv => OneRunAtATime
  BY DEF RunInv, LockInv, OneRunAtATime
<1>2. QED
  BY <1>1, RunInvAlways, PTL

\* No rotator outlives the loop over the banks.
THEOREM ProxiesOnlyDuringRunTheorem == Spec => []ProxiesOnlyDuringRun
<1>1. RunInv => ProxiesOnlyDuringRun
  BY DEF RunInv
<1>2. QED
  BY <1>1, RunInvAlways, PTL

\* The status the API and the bot show is the state of the run.
THEOREM StatusTellsTruthTheorem == Spec => []StatusTellsTruth
<1>1. RunInv => StatusTellsTruth
  <2> SUFFICES ASSUME RunInv PROVE StatusTellsTruth
    OBVIOUS
  <2>1. status.running => \E t \in Tasks : pc[t] \in {"loading"} \cup InLoop
    BY DEF RunInv, StatusInv
  <2>2. ASSUME NEW b \in Banks, status.banks[b] = "running"
        PROVE  \E t \in Tasks : pc[t] \in InBank /\ Bank(t) = b
    <3>1. PICK t \in Tasks : pc[t] \in InLoop
      BY <2>2 DEF RunInv, StatusInv
    <3>2. PICK n \in DOMAIN Order : Order[n] = b
      BY RunnerAssumption
    <3>3. n \in Int /\ work[t].pos \in Int
      BY <3>1, <3>2, OrderFacts DEF RunInv, TypeInv, InLoopHasBank
    <3>4. n = work[t].pos
      BY <2>2, <3>1, <3>2, <3>3 DEF RunInv, StatusInv
    <3>5. pc[t] \in InBank
      BY <2>2, <3>1, <3>2, <3>4 DEF RunInv, StatusInv, InLoop
    <3>6. QED
      BY <3>2, <3>4, <3>5 DEF Bank
  <2>3. ASSUME NEW t \in Tasks, pc[t] \in InBank
        PROVE  status.banks[Bank(t)] = "running"
    BY <2>3 DEF RunInv, TypeInv, InLoopHasBank, StatusInv, InLoop, Bank
  <2>4. \A t \in Tasks : pc[t] \in AfterLoop =>
           \A b \in Banks : status.banks[b] \in {"done", "error"}
    BY DEF RunInv, StatusInv
  <2>5. QED
    BY <2>1, <2>2, <2>3, <2>4 DEF StatusTellsTruth
<1>2. QED
  BY <1>1, RunInvAlways, PTL

-----------------------------------------------------------------------------
(* The outcomes of a run and the alerts made of them *)

\* From the reset of the status page to the end of the run.
Reporting == {"loading"} \cup InLoop \cup AfterLoop

\* What a run has noted of a bank is what the status page shows of it.
Fits(o, p, st) ==
    /\ ~o.ended => ~o.failed /\ o.changes = {}
    /\ o.failed => o.changes = {}
    /\ p \in Reporting => (o.ended <=> st \in {"done", "error"}) /\ (o.failed <=> st = "error")
    /\ p \notin Reporting => ~o.ended

OutcomeInv ==
    \A t \in Tasks : \A b \in Banks : Fits(work[t].outcomes[b], pc[t], status.banks[b])

\* self._failing is about the last run whose outcomes were looked at.
Settled == \A t \in Tasks : pc[t] \notin {"loading", "summary"} \cup InLoop

Telling == {"broadcasting", "alerting"}

AlertInv ==
    /\ \A t \in Tasks : pc[t] \notin Telling \/ ~Notifier => work[t].alerts = {}
    /\ Settled => \A b \in Banks : b \in failing <=> status.banks[b] = "error"
    /\ \A t \in Tasks : \A a \in work[t].alerts :
          /\ a.kind = "failure" <=> a.bank \in failing
          /\ a.kind = "failure" <=> told[a.bank] # "failure"
    /\ Notifier => \A b \in Banks :
          \/ told[b] = "failure" <=> b \in failing
          \/ \E t \in Tasks : \E a \in work[t].alerts : a.bank = b

LEMMA TaskFacts ==
    ASSUME TypeInv, NEW t \in Tasks
    PROVE  /\ pc[t] \in Pcs
           /\ work[t] \in Work
           /\ work[t].outcomes \in [Banks -> Outcome]
           /\ work[t].alerts \subseteq Alert
           /\ work[t].digest \in [Banks -> SUBSET Change]
BY DEF TypeInv, TypeOK, Work

\* A step of one task is none of another one.
LEMMA OthersStay ==
    ASSUME TypeInv, NEW t \in Tasks, AskManually(t) \/ OnSchedule(t) \/ Step(t)
    PROVE  \A u \in Tasks : u # t => pc'[u] = pc[u] /\ work'[u] = work[u]
<1>0. pc \in [Tasks -> Pcs] /\ work \in [Tasks -> Work]
  BY DEF TypeInv, TypeOK
<1>1. CASE AskManually(t) \/ OnSchedule(t)
  BY <1>0, <1>1 DEF AskManually, OnSchedule, Spawn, Goto
<1>2. CASE Skip(t) \/ EndSkip(t) \/ Enter(t) \/ BeginRun(t) \/ LoadProxies(t) \/ StartBank(t)
  BY <1>0, <1>2 DEF Skip, EndSkip, Enter, BeginRun, LoadProxies, StartBank, Goto
<1>3. CASE (\E s \in Portals : Parse(t, s)) \/ Store(t) \/ NextBank(t) \/ Finish(t)
  BY <1>0, <1>3 DEF Parse, Store, NextBank, Finish, Goto
<1>4. CASE ImportReturns(t)
  BY <1>0, <1>4 DEF ImportReturns, Goto
<1>5. CASE Fail(t) \/ Reject(t) \/ LoseAnswer(t)
  BY <1>0, <1>5 DEF Fail, Reject, LoseAnswer, BankFailed, Goto
<1>6. CASE Notify(t)
  BY <1>0, <1>6 DEF Notify, Goto
<1>7. CASE Broadcast(t) \/ (\E a \in Alert : SendAlert(t, a)) \/ Leave(t)
  BY <1>0, <1>7 DEF Broadcast, SendAlert, Leave, Goto
<1>8. QED
  BY <1>1, <1>2, <1>3, <1>4, <1>5, <1>6, <1>7 DEF Step

\* Where a step leaves its task.
LEMMA WhereItGoes ==
    ASSUME TypeInv, NEW t \in Tasks
    PROVE  \A p : Goto(t, p) => pc'[t] = p
BY DEF TypeInv, TypeOK, Goto

\* The part of a bank that ends with the outcome o.
LEMMA OutcomeOfBank ==
    ASSUME TypeInv, NEW t \in Tasks, pc[t] \in InBank, NEW o,
           work' = [work EXCEPT ![t].parsed = NoSnapshot, ![t].outcomes[Bank(t)] = o]
    PROVE  \A b \in Banks :
              work'[t].outcomes[b] = IF b = Bank(t) THEN o ELSE work[t].outcomes[b]
<1>1. Bank(t) \in Banks
  BY BankType DEF InLoop
<1>2. work[t] \in Work /\ work[t].outcomes \in [Banks -> Outcome]
  BY TaskFacts
<1>3. work'[t] = [[work[t] EXCEPT !.parsed = NoSnapshot] EXCEPT !.outcomes[Bank(t)] = o]
  BY DEF TypeInv, TypeOK
<1>4. work'[t].outcomes = [work[t].outcomes EXCEPT ![Bank(t)] = o]
  BY <1>2, <1>3 DEF Work
<1>5. QED
  BY <1>1, <1>2, <1>4

LEMMA StatusOfBank ==
    ASSUME TypeInv, NEW t \in Tasks, pc[t] \in InLoop, NEW st,
           status' = [status EXCEPT !.banks[Bank(t)] = st]
    PROVE  \A b \in Banks : status'.banks[b] = IF b = Bank(t) THEN st ELSE status.banks[b]
BY BankType DEF TypeInv, TypeOK

LEMMA OutcomeStep ==
    ASSUME RunInv, OutcomeInv, [Next]_vars
    PROVE  OutcomeInv'
<1> USE DEF InBank, InLoop, AfterLoop, Inside, Reporting
<1>0. TypeInv /\ TypeInv'
  BY TypeInvStep DEF RunInv
<1>1. ASSUME NEW t \in Tasks, AskManually(t) \/ OnSchedule(t) \/ Step(t),
             \/ status'.banks = status.banks
             \/ pc[t] \in Inside,
             \A b \in Banks : Fits(work'[t].outcomes[b], pc'[t], status'.banks[b])
      PROVE  OutcomeInv'
  <2>1. \A u \in Tasks : u # t => pc'[u] = pc[u] /\ work'[u] = work[u]
    BY <1>0, <1>1, OthersStay
  <2>2. ASSUME NEW u \in Tasks, u # t, NEW b \in Banks
        PROVE  Fits(work'[u].outcomes[b], pc'[u], status'.banks[b])
    <3>1. Fits(work[u].outcomes[b], pc[u], status.banks[b])
      BY DEF OutcomeInv
    <3>2. CASE status'.banks = status.banks
      BY <2>1, <2>2, <3>1, <3>2
    <3>3. CASE pc[t] \in Inside
      <4>1. pc[u] \notin Reporting
        BY <2>2, <3>3, Alone
      <4>2. QED
        BY <2>1, <2>2, <3>1, <4>1 DEF Fits
    <3>4. QED
      BY <1>1, <3>2, <3>3
  <2>3. QED
    BY <1>1, <2>2 DEF OutcomeInv
<1>2. ASSUME NEW t \in Tasks,
             \/ AskManually(t) \/ OnSchedule(t) \/ Skip(t) \/ Enter(t)
             \/ LoadProxies(t) \/ (\E s \in Portals : Parse(t, s)) \/ Store(t)
             \/ NextBank(t) \/ Finish(t)
             \/ Notify(t) \/ Broadcast(t) \/ (\E a \in Alert : SendAlert(t, a))
      PROVE  OutcomeInv'
  <2>1. work'[t].outcomes = work[t].outcomes
    <3>1. work \in [Tasks -> Work]
      BY <1>0 DEF TypeInv, TypeOK
    <3>2. CASE AskManually(t) \/ OnSchedule(t) \/ Skip(t) \/ Enter(t)
      BY <3>1, <3>2 DEF AskManually, OnSchedule, Spawn, Skip, Enter, Work
    <3>3. CASE LoadProxies(t) \/ (\E s \in Portals : Parse(t, s)) \/ Store(t)
               \/ NextBank(t) \/ Finish(t)
      BY <3>1, <3>3 DEF LoadProxies, Parse, Store, NextBank, Finish, Work
    <3>4. CASE Notify(t)
      <4>1. PICK d, a : work' = [work EXCEPT ![t].digest = d, ![t].alerts = a]
        BY <3>4 DEF Notify
      <4>2. QED
        BY <3>1, <4>1 DEF Work
    <3>5. CASE Broadcast(t) \/ (\E a \in Alert : SendAlert(t, a))
      BY <3>1, <3>5 DEF Broadcast, SendAlert, Work
    <3>6. QED
      BY <1>2, <3>2, <3>3, <3>4, <3>5
  <2>2. status'.banks = status.banks
    BY <1>0, <1>2 DEF AskManually, OnSchedule, Spawn, Skip, Enter, LoadProxies, Parse, Store,
       NextBank, Finish, Notify, Broadcast, SendAlert, TypeInv, TypeOK
  <2>3. pc'[t] \in Reporting <=> pc[t] \in Reporting
    <3>1. CASE AskManually(t) \/ OnSchedule(t) \/ Skip(t) \/ Enter(t)
      BY <1>0, <3>1, WhereItGoes DEF AskManually, OnSchedule, Spawn, Skip, Enter
    <3>2. CASE LoadProxies(t) \/ (\E s \in Portals : Parse(t, s)) \/ Store(t)
               \/ NextBank(t) \/ Finish(t)
      BY <1>0, <3>2, WhereItGoes DEF LoadProxies, Parse, Store, NextBank, Finish
    <3>3. CASE Notify(t) \/ Broadcast(t) \/ (\E a \in Alert : SendAlert(t, a))
      BY <1>0, <3>3, WhereItGoes DEF Notify, Broadcast, SendAlert
    <3>4. QED
      BY <1>2, <3>1, <3>2, <3>3
  <2>4. \A b \in Banks : Fits(work'[t].outcomes[b], pc'[t], status'.banks[b])
    BY <2>1, <2>2, <2>3 DEF OutcomeInv, Fits
  <2>5. QED
    BY <1>1, <1>2, <2>2, <2>4 DEF Step
<1>3. ASSUME NEW t \in Tasks, EndSkip(t) \/ Leave(t)
      PROVE  OutcomeInv'
  <2>1. pc'[t] = "idle" /\ work'[t] = NoWork /\ status'.banks = status.banks
    BY <1>0, <1>3 DEF EndSkip, Leave, Goto, TypeInv, TypeOK
  <2>2. \A b \in Banks : Fits(work'[t].outcomes[b], pc'[t], status'.banks[b])
    BY <2>1 DEF NoWork, Fits
  <2>3. QED
    BY <1>1, <1>3, <2>1, <2>2 DEF Step
<1>4. ASSUME NEW t \in Tasks, BeginRun(t)
      PROVE  OutcomeInv'
  <2>1. /\ pc[t] = "entered" /\ pc'[t] = "loading" /\ work' = work
        /\ \A b \in Banks : status'.banks[b] = "pending"
    BY <1>0, <1>4, WhereItGoes DEF BeginRun, NotStarted
  <2>2. \A b \in Banks : Fits(work'[t].outcomes[b], pc'[t], status'.banks[b])
    BY <2>1 DEF OutcomeInv, Fits
  <2>3. QED
    BY <1>1, <1>4, <2>1, <2>2 DEF Step
<1>5. ASSUME NEW t \in Tasks, StartBank(t)
      PROVE  OutcomeInv'
  <2>1. /\ pc[t] = "announcing" /\ pc'[t] = "parsing" /\ work' = work
        /\ status' = [status EXCEPT !.banks[Bank(t)] = "running"]
    BY <1>0, <1>5, WhereItGoes DEF StartBank
  <2>2. \A b \in Banks : status'.banks[b] = IF b = Bank(t) THEN "running" ELSE status.banks[b]
    BY <1>0, <2>1, StatusOfBank
  <2>3. status.banks[Bank(t)] = "pending"
    BY <2>1 DEF RunInv, TypeInv, InLoopHasBank, StatusInv, Bank
  <2>4. \A b \in Banks : Fits(work'[t].outcomes[b], pc'[t], status'.banks[b])
    BY <2>1, <2>2, <2>3 DEF OutcomeInv, Fits
  <2>5. QED
    BY <1>1, <1>5, <2>1, <2>4 DEF Step
<1>6. ASSUME NEW t \in Tasks, ImportReturns(t) \/ Fail(t) \/ Reject(t) \/ LoseAnswer(t)
      PROVE  OutcomeInv'
  <2>1. PICK o, st :
           /\ o.ended /\ o.failed \in BOOLEAN /\ (o.failed => o.changes = {})
           /\ st = IF o.failed THEN "error" ELSE "done"
           /\ status' = [status EXCEPT !.banks[Bank(t)] = st]
           /\ work' = [work EXCEPT ![t].parsed = NoSnapshot, ![t].outcomes[Bank(t)] = o]
    <3>1. CASE ImportReturns(t)
      BY <3>1 DEF ImportReturns
    <3>2. CASE Fail(t) \/ Reject(t) \/ LoseAnswer(t)
      BY <3>2 DEF Fail, Reject, LoseAnswer, BankFailed
    <3>3. QED
      BY <1>6, <3>1, <3>2
  <2>2. pc[t] \in InBank /\ pc'[t] = "recording"
    BY <1>0, <1>6, WhereItGoes DEF ImportReturns, Fail, Reject, LoseAnswer, BankFailed
  <2>3. \A b \in Banks : status'.banks[b] = IF b = Bank(t) THEN st ELSE status.banks[b]
    <3>1. status' = [status EXCEPT !.banks[Bank(t)] = st] /\ pc[t] \in InLoop
      BY <2>1, <2>2
    <3>2. QED
      BY ONLY <1>0, <3>1, StatusOfBank
  <2>3a. \A b \in Banks :
            work'[t].outcomes[b] = IF b = Bank(t) THEN o ELSE work[t].outcomes[b]
    <3>1. /\ work' = [work EXCEPT ![t].parsed = NoSnapshot, ![t].outcomes[Bank(t)] = o]
          /\ pc[t] \in InBank
      BY <2>1, <2>2
    <3>2. QED
      BY ONLY <1>0, <3>1, OutcomeOfBank
  <2>4. ASSUME NEW b \in Banks
        PROVE  Fits(work'[t].outcomes[b], pc'[t], status'.banks[b])
    <3>1. CASE b = Bank(t)
      <4>1. work'[t].outcomes[b] = o /\ status'.banks[b] = st
        BY <2>3, <2>3a, <3>1
      <4>2. pc'[t] \in Reporting
        BY <2>2
      <4>3. Fits(o, pc'[t], st)
        BY <2>1, <4>2 DEF Fits
      <4>4. QED
        BY <4>1, <4>3
    <3>2. CASE b # Bank(t)
      BY <2>2, <2>3, <2>3a, <3>2 DEF OutcomeInv, Fits
    <3>3. QED
      BY <3>1, <3>2
  <2>5. QED
    BY <1>1, <1>6, <2>2, <2>4 DEF Step
<1>7. CASE Crash
  <2>1. ASSUME NEW t \in Tasks, NEW b \in Banks
        PROVE  ~work'[t].outcomes[b].ended /\ ~work'[t].outcomes[b].failed
               /\ work'[t].outcomes[b].changes = {} /\ pc'[t] \in {"idle", "queued"}
    BY <1>7, BootType DEF Crash, BootWork, NoWork
  <2>2. QED
    BY <2>1 DEF OutcomeInv, Fits
<1>8. CASE UNCHANGED vars
  BY <1>8 DEF vars, OutcomeInv
<1>9. QED
  BY <1>2, <1>3, <1>4, <1>5, <1>6, <1>7, <1>8 DEF Next, Step

LEMMA OutcomeInit == Init => OutcomeInv
<1> SUFFICES ASSUME Init, NEW t \in Tasks, NEW b \in Banks
             PROVE  Fits(work[t].outcomes[b], pc[t], status.banks[b])
  BY DEF OutcomeInv
<1>1. /\ pc[t] \in {"idle", "queued"}
      /\ work[t].outcomes[b] = [ended |-> FALSE, failed |-> FALSE, changes |-> {}]
  BY BootType DEF Init, BootWork, NoWork
<1>2. pc[t] \notin Reporting
  BY <1>1 DEF Reporting, InLoop, InBank, AfterLoop
<1>3. QED
  BY <1>1, <1>2 DEF Fits

\* After the loop every bank has an outcome, and failed means shown as an error.
LEMMA AllEnded ==
    ASSUME RunInv, OutcomeInv, NEW t \in Tasks, pc[t] \in AfterLoop
    PROVE  \A b \in Banks :
              /\ work[t].outcomes[b].ended
              /\ work[t].outcomes[b].failed <=> status.banks[b] = "error"
BY DEF RunInv, StatusInv, OutcomeInv, Fits, Reporting

\* A step that leaves the alerts and what they are about alone.
LEMMA AlertFrame ==
    ASSUME RunInv, AlertInv, NEW t \in Tasks,
           \A u \in Tasks : u # t => pc'[u] = pc[u] /\ work'[u] = work[u],
           UNCHANGED <<failing, told>>,
           work'[t].alerts = work[t].alerts,
           pc'[t] \in Telling => pc[t] \in Telling,
           pc[t] \in Telling /\ pc'[t] \notin Telling => work[t].alerts = {},
           \/ pc'[t] \in {"loading", "summary"} \cup InLoop
           \/ status' = status /\ pc[t] \notin {"loading", "summary"} \cup InLoop
    PROVE  AlertInv'
<1>1. \A u \in Tasks : work'[u].alerts = work[u].alerts
  OBVIOUS
<1>2. \A u \in Tasks : pc'[u] \notin Telling \/ ~Notifier => work'[u].alerts = {}
  BY DEF AlertInv
<1>3. Settled' => Settled /\ status' = status
  BY DEF Settled
<1>4. QED
  BY <1>1, <1>2, <1>3 DEF AlertInv

\* After the outcomes of a run were looked at, the failing banks are those with
\* an error, and an alert is pending for each one about which that is news.
LEMMA NotifyAlerts ==
    ASSUME RunInv, OutcomeInv, AlertInv, NEW t \in Tasks, Notify(t)
    PROVE  AlertInv'
<1>0. TypeInv /\ failing \subseteq Banks /\ t \in Tasks
  BY DEF RunInv, TypeInv, TypeOK
<1>1. /\ pc[t] = "summary" /\ pc'[t] = "broadcasting"
      /\ \A u \in Tasks : u # t => pc'[u] = pc[u] /\ work'[u] = work[u] /\ pc[u] \notin Inside
      /\ told' = told /\ status' = status
  <2>1. \A u \in Tasks : u # t => pc'[u] = pc[u] /\ work'[u] = work[u]
    BY <1>0, OthersStay DEF Step
  <2>2. \A u \in Tasks : u # t => pc[u] \notin Inside
    BY Alone DEF Notify, Inside, AfterLoop
  <2>3. QED
    BY <1>0, <2>1, <2>2, WhereItGoes DEF Notify, mail
<1>2. /\ \A u \in Tasks : work[u].alerts = {}
      /\ \A u \in Tasks : u # t => work'[u].alerts = {}
  <2>1. \A u \in Tasks : pc[u] \notin Telling
    BY <1>1 DEF Telling, Inside, AfterLoop
  <2>2. QED
    BY <1>1, <2>1 DEF AlertInv
<1>3. /\ Failed(t) = {b \in Banks : status.banks[b] = "error"}
      /\ Recovered(t) = {b \in failing : status.banks[b] # "error"}
  BY <1>0, <1>1, AllEnded DEF Failed, Recovered, AfterLoop
<1>4. failing' = {b \in Banks : status.banks[b] = "error"}
  BY <1>0, <1>3 DEF Notify, NowFailing
<1>5. work'[t].alerts = IF Notifier THEN Alerts(t) ELSE {}
  <2>1. PICK d : work' = [work EXCEPT ![t].digest = d,
                                      ![t].alerts = IF Notifier THEN Alerts(t) ELSE {}]
    BY DEF Notify
  <2>2. work \in [Tasks -> Work]
    BY <1>0 DEF TypeInv, TypeOK
  <2>3. QED
    BY <2>1, <2>2 DEF Work
<1>6. Notifier => \A b \in Banks : told[b] = "failure" <=> b \in failing
  BY <1>2 DEF AlertInv
<1>7. ASSUME NEW a \in work'[t].alerts
      PROVE  /\ a.kind = "failure" <=> a.bank \in failing'
             /\ a.kind = "failure" <=> told[a.bank] # "failure"
  <2>1. Notifier /\ a \in Alerts(t)
    BY <1>5, <1>7
  <2>2. CASE a \in [kind: {"failure"}, bank: Failed(t) \ failing]
    BY <1>3, <1>4, <1>6, <2>1, <2>2
  <2>3. CASE a \in [kind: {"recovery"}, bank: Recovered(t)]
    BY <1>0, <1>3, <1>4, <1>6, <2>1, <2>3
  <2>4. QED
    BY <2>1, <2>2, <2>3 DEF Alerts
<1>8. ASSUME Notifier, NEW b \in Banks
      PROVE  \/ told[b] = "failure" <=> b \in failing'
             \/ \E a \in work'[t].alerts : a.bank = b
  <2>1. CASE b \in failing <=> b \in failing'
    BY <1>6, <1>8, <2>1
  <2>2. CASE b \notin failing /\ b \in failing'
    <3>1. [kind |-> "failure", bank |-> b] \in work'[t].alerts
      BY <1>3, <1>4, <1>5, <1>8, <2>2 DEF Alerts
    <3>2. QED
      BY <3>1
  <2>3. CASE b \in failing /\ b \notin failing'
    <3>1. [kind |-> "recovery", bank |-> b] \in work'[t].alerts
      BY <1>3, <1>4, <1>5, <1>8, <2>3 DEF Alerts
    <3>2. QED
      BY <3>1
  <2>4. QED
    BY <2>1, <2>2, <2>3
<1>9. /\ \A u \in Tasks : pc'[u] \notin Telling \/ ~Notifier => work'[u].alerts = {}
      /\ \A u \in Tasks : \A a \in work'[u].alerts :
            /\ a.kind = "failure" <=> a.bank \in failing'
            /\ a.kind = "failure" <=> told'[a.bank] # "failure"
  BY <1>1, <1>2, <1>5, <1>7 DEF Telling
<1>10. QED
  BY <1>1, <1>4, <1>8, <1>9 DEF AlertInv

\* An alert that was sent is not waited for, and it said what there was to say.
LEMMA SendAlerts ==
    ASSUME RunInv, AlertInv, NEW t \in Tasks, NEW a \in Alert, SendAlert(t, a)
    PROVE  AlertInv'
<1>0. TypeInv
  BY DEF RunInv
<1>1. /\ pc[t] = "alerting" /\ pc' = pc /\ failing' = failing /\ status' = status
      /\ \A u \in Tasks : u # t => work'[u] = work[u]
      /\ a \in work[t].alerts /\ work'[t].alerts = work[t].alerts \ {a}
      /\ told' = [told EXCEPT ![a.bank] = a.kind]
  <2>1. work \in [Tasks -> Work]
    BY <1>0 DEF TypeInv, TypeOK
  <2>2. QED
    BY <2>1 DEF SendAlert, Work
<1>2. \A u \in Tasks : u # t => work'[u].alerts = {} /\ work[u].alerts = {}
  <2>1. \A u \in Tasks : u # t => pc[u] \notin Telling
    BY <1>1, Alone DEF Telling, Inside, AfterLoop
  <2>2. QED
    BY <1>1, <2>1 DEF AlertInv
<1>3. /\ work[t].alerts \subseteq Alert
      /\ \A c \in work[t].alerts : /\ c.kind = "failure" <=> c.bank \in failing
                                   /\ c.kind = "failure" <=> told[c.bank] # "failure"
  BY <1>0, TaskFacts DEF AlertInv
<1>4. a.bank \in Banks /\ \A b \in Banks : told'[b] = IF b = a.bank THEN a.kind ELSE told[b]
  BY <1>0, <1>1 DEF Alert, TypeInv, TypeOK
<1>5. \A c \in work'[t].alerts : c \in work[t].alerts /\ c.bank # a.bank /\ c.bank \in Banks
  <2>1. \A c \in Alert : c.bank = a.bank /\ c.kind = a.kind => c = a
    BY DEF Alert
  <2>2. \A c \in Alert : c.kind = "failure" \/ c.kind = "recovery"
    BY DEF Alert
  <2>3. QED
    BY <1>1, <1>3, <2>1, <2>2 DEF Alert
<1>6. a.kind = "failure" <=> a.bank \in failing
  BY <1>1, <1>3
<1>7. \A u \in Tasks : \A c \in work'[u].alerts :
         /\ c.kind = "failure" <=> c.bank \in failing'
         /\ c.kind = "failure" <=> told'[c.bank] # "failure"
  BY <1>1, <1>2, <1>3, <1>4, <1>5
<1>8. ASSUME Notifier, NEW b \in Banks
      PROVE  \/ told'[b] = "failure" <=> b \in failing'
             \/ \E c \in work'[t].alerts : c.bank = b
  <2>1. CASE b = a.bank
    BY <1>1, <1>4, <1>6, <2>1
  <2>2. CASE b # a.bank
    BY <1>1, <1>2, <1>4, <1>8, <2>2 DEF AlertInv
  <2>3. QED
    BY <2>1, <2>2
<1>9. \A u \in Tasks : pc'[u] \notin Telling \/ ~Notifier => work'[u].alerts = {}
  BY <1>1, <1>2 DEF AlertInv, Telling
<1>10. Settled' => \A b \in Banks : b \in failing' <=> status'.banks[b] = "error"
  BY <1>1 DEF AlertInv, Settled
<1>11. QED
  BY <1>7, <1>8, <1>9, <1>10 DEF AlertInv

LEMMA AlertInit ==
    /\ Init => AlertInv
    /\ Crash => AlertInv'
<1>1. \A t \in Tasks : BootWork[t].alerts = {}
  BY DEF BootWork, NoWork
<1>2. NotStarted.banks = [b \in Banks |-> "pending"]
  BY DEF NotStarted
<1>3. Init => AlertInv
  BY <1>1, <1>2 DEF Init, AlertInv
<1>4. Crash => AlertInv'
  BY <1>1, <1>2 DEF Crash, AlertInv
<1>5. QED
  BY <1>3, <1>4

LEMMA AlertStep ==
    ASSUME RunInv, OutcomeInv, AlertInv, [Next]_vars
    PROVE  AlertInv'
<1> USE DEF InBank, InLoop, AfterLoop, Inside, Telling
<1>0. TypeInv /\ work \in [Tasks -> Work]
  BY DEF RunInv, TypeInv, TypeOK
<1>1. ASSUME NEW t \in Tasks, AskManually(t) \/ OnSchedule(t) \/ Skip(t) \/ Enter(t)
      PROVE  AlertInv'
  <2>1. /\ \A u \in Tasks : u # t => pc'[u] = pc[u] /\ work'[u] = work[u]
        /\ UNCHANGED <<failing, told, status>>
        /\ work'[t].alerts = work[t].alerts
        /\ pc[t] \in {"idle", "queued"} /\ pc'[t] \in {"queued", "skipping", "entered"}
    BY <1>0, <1>1, OthersStay, WhereItGoes
    DEF AskManually, OnSchedule, Spawn, Skip, Enter, Step, Work, mail
  <2>2. QED
    BY <2>1, AlertFrame
<1>2. ASSUME NEW t \in Tasks, EndSkip(t) \/ Leave(t)
      PROVE  AlertInv'
  <2>1. /\ \A u \in Tasks : u # t => pc'[u] = pc[u] /\ work'[u] = work[u]
        /\ UNCHANGED <<failing, told, status>>
        /\ work'[t] = NoWork
        /\ pc[t] \in {"skipping", "alerting"} /\ pc'[t] = "idle"
    BY <1>0, <1>2, OthersStay, WhereItGoes DEF EndSkip, Leave, Step, mail
  <2>2. work[t].alerts = {} /\ NoWork.alerts = {}
    BY <1>2 DEF EndSkip, Leave, AlertInv, NoWork
  <2>3. QED
    BY <2>1, <2>2, AlertFrame
<1>3. ASSUME NEW t \in Tasks,
             \/ BeginRun(t) \/ LoadProxies(t) \/ StartBank(t)
             \/ (\E s \in Portals : Parse(t, s)) \/ Store(t)
             \/ ImportReturns(t) \/ Fail(t) \/ Reject(t) \/ LoseAnswer(t)
             \/ NextBank(t) \/ Finish(t)
      PROVE  AlertInv'
  <2>1. \A u \in Tasks : u # t => pc'[u] = pc[u] /\ work'[u] = work[u]
    BY <1>0, <1>3, OthersStay DEF Step
  <2>2. /\ UNCHANGED <<failing, told>>
        /\ pc[t] \in {"entered", "loading"} \cup InLoop
        /\ pc'[t] \in {"loading", "summary"} \cup InLoop
    BY <1>0, <1>3, WhereItGoes
    DEF BeginRun, LoadProxies, StartBank, Parse, Store, ImportReturns, Fail, Reject,
        LoseAnswer, BankFailed, NextBank, Finish, mail
  <2>3. work'[t].alerts = work[t].alerts
    <3>1. CASE BeginRun(t) \/ LoadProxies(t) \/ StartBank(t)
               \/ (\E s \in Portals : Parse(t, s)) \/ Store(t)
               \/ NextBank(t) \/ Finish(t)
      BY <1>0, <3>1
      DEF BeginRun, LoadProxies, StartBank, Parse, Store, NextBank, Finish, Work
    <3>2. CASE ImportReturns(t) \/ Fail(t) \/ Reject(t) \/ LoseAnswer(t)
      <4>1. PICK o : work' = [work EXCEPT ![t].parsed = NoSnapshot, ![t].outcomes[Bank(t)] = o]
        BY <3>2 DEF ImportReturns, Fail, Reject, LoseAnswer, BankFailed
      <4>2. work'[t] = [[work[t] EXCEPT !.parsed = NoSnapshot] EXCEPT !.outcomes[Bank(t)] = o]
        BY <1>0, <4>1
      <4>3. QED
        BY <1>0, <4>2 DEF Work
    <3>3. QED
      BY <1>3, <3>1, <3>2
  <2>4. QED
    BY <2>1, <2>2, <2>3, AlertFrame
<1>4. ASSUME NEW t \in Tasks, Broadcast(t)
      PROVE  AlertInv'
  <2>1. /\ \A u \in Tasks : u # t => pc'[u] = pc[u] /\ work'[u] = work[u]
        /\ UNCHANGED <<failing, told, status>>
        /\ work'[t].alerts = work[t].alerts
        /\ pc[t] = "broadcasting" /\ pc'[t] = "alerting"
    BY <1>0, <1>4, OthersStay, WhereItGoes DEF Broadcast, Step
  <2>2. QED
    BY <2>1, AlertFrame
<1>5. CASE UNCHANGED vars
  BY <1>5 DEF vars, mail, AlertInv, Settled
<1>6. QED
  BY <1>1, <1>2, <1>3, <1>4, <1>5, NotifyAlerts, SendAlerts, AlertInit DEF Next, Step

LEMMA MailInvAlways == Spec => [](RunInv /\ OutcomeInv /\ AlertInv)
<1>1. Init => RunInv /\ OutcomeInv /\ AlertInv
  BY RunInvInit, OutcomeInit, AlertInit
<1>2. (RunInv /\ OutcomeInv /\ AlertInv) /\ [Next]_vars => (RunInv /\ OutcomeInv /\ AlertInv)'
  BY RunInvStep, OutcomeStep, AlertStep
<1>3. QED
  BY <1>1, <1>2, PTL DEF Spec

\* The alerts tell the admin each change of the status page, once.
THEOREM AlertsTellChangesTheorem == Spec => []AlertsTellChanges
<1>1. RunInv /\ AlertInv => AlertsTellChanges
  <2> SUFFICES ASSUME RunInv, AlertInv PROVE AlertsTellChanges
    OBVIOUS
  <2>1. AlertsAlternate
    BY DEF AlertInv, AlertsAlternate
  <2>2. ASSUME Notifier, LockIsFree
        PROVE  \A b \in Banks : told[b] = "failure" <=> status.banks[b] = "error"
    <3>1. \A t \in Tasks : pc[t] \notin Inside
      BY <2>2, RunnerAssumption DEF LockIsFree, RunInv, LockInv
    <3>2. Settled /\ \A t \in Tasks : work[t].alerts = {}
      BY <3>1 DEF Settled, AlertInv, Inside, AfterLoop, Telling
    <3>3. QED
      BY <2>2, <3>2 DEF AlertInv
  <2>3. QED
    BY <2>1, <2>2 DEF AlertsTellChanges, AlertsFollowStatus
<1>2. QED
  BY <1>1, MailInvAlways, PTL

-----------------------------------------------------------------------------
(* The digests and the history *)

\* Nothing between an import and its digest goes wrong.
Faultless == Notifier /\ ~ConnectionDrops /\ ~DigestBreaks /\ ~Crashes

\* What was said tells the first batches of a history: all of them that have a
\* public part, when nothing goes wrong.
Told(said, batches, upto) ==
    \E at \in [DOMAIN said -> 1..upto] :
        /\ Retells(said, batches, at)
        /\ Faultless => \A n \in 1..upto :
              Public(batches[n]) # {} => \E m \in DOMAIN said : at[m] = n

\* More batches are told without saying more, if they have nothing public or
\* something did go wrong; and a longer history begins like the shorter one.
LEMMA ToldMore ==
    ASSUME NEW said, NEW batches, NEW longer, NEW m \in Nat, NEW n \in Nat, m <= n,
           \A k \in 1..m : longer[k] = batches[k],
           Faultless => \A k \in m+1 .. n : Public(longer[k]) = {},
           Told(said, batches, m)
    PROVE  Told(said, longer, n)
<1>1. PICK at \in [DOMAIN said -> 1..m] :
         /\ Retells(said, batches, at)
         /\ Faultless => \A k \in 1..m :
               Public(batches[k]) # {} => \E i \in DOMAIN said : at[i] = k
  BY DEF Told
<1>2. at \in [DOMAIN said -> 1..n] /\ \A i \in DOMAIN said : at[i] \in 1..m
  OBVIOUS
<1>3. Retells(said, longer, at)
  BY <1>1, <1>2 DEF Retells
<1>4. Faultless => \A k \in 1..n :
         Public(longer[k]) # {} => \E i \in DOMAIN said : at[i] = k
  <2>1. \A k \in 1..n : k \in 1..m \/ k \in m+1 .. n
    OBVIOUS
  <2>2. QED
    BY <1>1, <2>1
<1>5. QED
  BY <1>2, <1>3, <1>4 DEF Told

\* The digest of the newest batch.
LEMMA ToldNext ==
    ASSUME NEW said \in Seq(SUBSET Change), NEW batches, NEW n \in Nat \ {0},
           Told(said, batches, n - 1),
           NEW batch \in SUBSET Change, batch # {}, batch = Public(batches[n])
    PROVE  Told(Append(said, batch), batches, n)
<1>1. PICK at \in [DOMAIN said -> 1..n-1] :
         /\ Retells(said, batches, at)
         /\ Faultless => \A k \in 1..n-1 :
               Public(batches[k]) # {} => \E i \in DOMAIN said : at[i] = k
  BY DEF Told
<1> DEFINE more == Append(said, batch)
<1>2. PICK l \in Nat : l = Len(said)
  OBVIOUS
<1>3. /\ DOMAIN said = 1..l /\ DOMAIN more = 1..l+1
      /\ more[l+1] = batch /\ \A k \in 1..l : more[k] = said[k]
  <2> DEFINE Batch == SUBSET Change
  <2>1. said \in Seq(Batch) /\ batch \in Batch
    OBVIOUS
  <2> HIDE DEF Batch
  <2>2. QED
    BY <1>2, <2>1
<1> DEFINE then == [k \in 1..l+1 |-> IF k = l+1 THEN n ELSE at[k]]
<1>4. /\ then \in [1..l+1 -> 1..n] /\ then[l+1] = n
      /\ \A k \in 1..l : then[k] = at[k] /\ at[k] \in 1..n-1
  BY <1>3
<1> HIDE DEF more, then
<1>5. Retells(more, batches, then)
  <2> SUFFICES ASSUME NEW i \in 1..l+1, NEW k \in 1..l+1
               PROVE  /\ i < k => then[i] < then[k]
                      /\ more[k] = Public(batches[then[k]]) /\ more[k] # {}
    BY <1>3 DEF Retells
  <2>1. /\ \A m, j \in 1..l : m < j => at[m] < at[j]
        /\ \A m \in 1..l : said[m] = Public(batches[at[m]]) /\ said[m] # {}
    BY <1>1, <1>3 DEF Retells
  <2>2. CASE k = l+1
    BY <1>3, <1>4, <2>2
  <2>3. CASE k # l+1
    <3>1. k \in 1..l /\ (i < k => i \in 1..l)
      BY <2>3
    <3>2. QED
      BY <1>3, <1>4, <2>1, <3>1
  <2>4. QED
    BY <2>2, <2>3
<1>6. Faultless => \A k \in 1..n :
         Public(batches[k]) # {} => \E i \in 1..l+1 : then[i] = k
  <2> SUFFICES ASSUME Faultless, NEW k \in 1..n, Public(batches[k]) # {}
               PROVE  \E i \in 1..l+1 : then[i] = k
    OBVIOUS
  <2>1. CASE k = n
    <3>1. l+1 \in 1..l+1
      OBVIOUS
    <3>2. QED
      BY <1>4, <2>1, <3>1
  <2>2. CASE k # n
    <3>0. k \in 1..n-1
      BY <2>2
    <3>1. PICK i \in 1..l : at[i] = k
      BY <1>1, <1>3, <3>0
    <3>2. i \in 1..l+1
      OBVIOUS
    <3>3. QED
      BY <1>4, <3>1, <3>2
  <2>3. QED
    BY <2>1, <2>2
<1>7. Told(more, batches, n)
  <2>1. then \in [DOMAIN more -> 1..n]
    BY <1>3, <1>4
  <2>2. Faultless => \A k \in 1..n :
           Public(batches[k]) # {} => \E i \in DOMAIN more : then[i] = k
    BY <1>3, <1>6
  <2>3. QED
    BY <1>5, <2>1, <2>2 DEF Told
<1>8. QED
  BY <1>7 DEF more

\* The outcomes of a run are not yet in a digest.
Carrying == InLoop \cup {"summary", "broadcasting"}

Carries(t, b) == pc[t] \in Carrying /\ work[t].outcomes[b].changes # {}

\* The newest batch of b is still to be announced, or to be forgotten.
WaitsFor(t, b) == (pc[t] = "stored" /\ Bank(t) = b) \/ Carries(t, b)

Waiting(b) == \E t \in Tasks : WaitsFor(t, b)

NewsInv ==
    /\ \A b \in Banks :
          Told(news[b], history[b], IF Waiting(b) THEN Len(history[b]) - 1 ELSE Len(history[b]))
    /\ \A t \in Tasks : \A b \in Banks : Carries(t, b) =>
          /\ history[b] # <<>>
          /\ work[t].outcomes[b].changes = Public(history[b][Len(history[b])])
    /\ \A t \in Tasks : pc[t] = "broadcasting" => \A b \in Banks :
          \/ work[t].digest[b] = work[t].outcomes[b].changes
          \/ ~Faultless /\ work[t].digest[b] = {}

LEMMA NewsInit == Init => NewsInv
<1> SUFFICES ASSUME Init PROVE NewsInv
  OBVIOUS
<1>1. \A t \in Tasks : pc[t] \in {"idle", "queued"}
  BY BootType DEF Init
<1>2. \A b \in Banks : history[b] = <<>> /\ news[b] = <<>>
  BY DEF Init, DB!Init
<1>3. /\ \A b \in Banks : ~Waiting(b)
      /\ \A t \in Tasks, b \in Banks : ~Carries(t, b)
  BY <1>1 DEF Waiting, WaitsFor, Carries, Carrying, InLoop, InBank
<1>4. Told(<<>>, <<>>, 0)
  <2> DEFINE at == [k \in DOMAIN <<>> |-> 0]
  <2>1. DOMAIN <<>> = {} /\ \A k \in 1..0 : FALSE
    OBVIOUS
  <2>2. at \in [DOMAIN <<>> -> 1..0]
    BY <2>1
  <2>3. Retells(<<>>, <<>>, at)
    BY <2>1 DEF Retells
  <2> HIDE DEF at
  <2>4. QED
    BY <2>1, <2>2, <2>3 DEF Told
<1>5. QED
  BY <1>1, <1>2, <1>3, <1>4 DEF NewsInv

\* A step that neither stores nor announces anything.
LEMMA NewsFrame ==
    ASSUME NewsInv, UNCHANGED <<news, history>>, NEW t \in Tasks,
           \A u \in Tasks : u # t => pc'[u] = pc[u] /\ work'[u] = work[u],
           pc[t] # "stored", pc'[t] # "stored",
           \A b \in Banks : /\ Carries(t, b)' <=> Carries(t, b)
                            /\ Carries(t, b) => work'[t].outcomes[b] = work[t].outcomes[b],
           pc'[t] = "broadcasting" => \A b \in Banks :
              \/ work'[t].digest[b] = work'[t].outcomes[b].changes
              \/ ~Faultless /\ work'[t].digest[b] = {}
    PROVE  NewsInv'
<1>1. \A u \in Tasks, b \in Banks : Carries(u, b)' <=> Carries(u, b)
  BY DEF Carries
<1>2. \A u \in Tasks : u # t => Bank(u)' = Bank(u)
  BY DEF Bank
<1>3. \A b \in Banks : Waiting(b)' <=> Waiting(b)
  BY <1>1, <1>2 DEF Waiting, WaitsFor
<1>4. \A b \in Banks :
         Told(news'[b], history'[b], IF Waiting(b)' THEN Len(history'[b]) - 1 ELSE Len(history'[b]))
  BY <1>3 DEF NewsInv
<1>5. \A u \in Tasks : \A b \in Banks : Carries(u, b)' =>
         /\ history'[b] # <<>>
         /\ work'[u].outcomes[b].changes = Public(history'[b][Len(history'[b])])
  BY <1>1 DEF NewsInv
<1>6. \A u \in Tasks : pc'[u] = "broadcasting" => \A b \in Banks :
         \/ work'[u].digest[b] = work'[u].outcomes[b].changes
         \/ ~Faultless /\ work'[u].digest[b] = {}
  BY DEF NewsInv
<1>7. QED
  BY <1>4, <1>5, <1>6 DEF NewsInv

\* A batch is only waited for when it is there.
LEMMA WaitedForIsThere ==
    ASSUME RunInv, NewsInv, NEW b \in Banks
    PROVE  /\ Len(history[b]) \in Nat
           /\ Waiting(b) => Len(history[b]) - 1 \in Nat
<1>1. history[b] \in Seq(SUBSET Change)
  BY DEF RunInv, TypeInv, TypeOK
<1>2. Waiting(b) => history[b] # <<>>
  BY DEF Waiting, WaitsFor, NewsInv, RunInv, TypeInv, InLoopHasBank
<1>3. PICK n \in Nat : n = Len(history[b]) /\ (n = 0 => history[b] = <<>>)
  <2> DEFINE Batch == SUBSET Change
  <2>1. history[b] \in Seq(Batch)
    BY <1>1
  <2> HIDE DEF Batch
  <2>2. QED
    BY <2>1
<1>4. QED
  BY <1>2, <1>3

\* The task inside the lock is the one that can wait.
LEMMA TheOneThatWaits ==
    ASSUME RunInv, NEW t \in Tasks, pc[t] \in Inside
    PROVE  /\ \A b \in Banks : Waiting(b) <=> WaitsFor(t, b)
           /\ \A u \in Tasks : u # t =>
                 /\ pc[u] # "broadcasting" /\ pc[u] # "stored"
                 /\ \A b \in Banks : ~WaitsFor(u, b) /\ ~Carries(u, b)
<1>1. \A u \in Tasks : u # t => pc[u] \notin Inside
  BY Alone
<1>2. \A u \in Tasks : u # t =>
         /\ pc[u] # "broadcasting" /\ pc[u] # "stored"
         /\ \A b \in Banks : ~WaitsFor(u, b) /\ ~Carries(u, b)
  BY <1>1 DEF Inside, InLoop, InBank, AfterLoop, WaitsFor, Carries, Carrying
<1>3. QED
  BY <1>2 DEF Waiting

LEMMA NewsOfTask ==
    ASSUME RunInv, NEW t \in Tasks, pc[t] \in Inside,
           \A u \in Tasks : u # t => pc'[u] = pc[u] /\ work'[u] = work[u],
           \A b \in Banks :
              Told(news'[b], history'[b],
                   IF WaitsFor(t, b)' THEN Len(history'[b]) - 1 ELSE Len(history'[b])),
           \A b \in Banks : Carries(t, b)' =>
              /\ history'[b] # <<>>
              /\ work'[t].outcomes[b].changes = Public(history'[b][Len(history'[b])]),
           pc'[t] # "broadcasting"
    PROVE  NewsInv'
<1>1. \A u \in Tasks : u # t =>
         /\ pc'[u] # "broadcasting"
         /\ \A b \in Banks : ~WaitsFor(u, b)' /\ ~Carries(u, b)'
  <2>1. \A u \in Tasks : u # t => Bank(u)' = Bank(u)
    BY DEF Bank
  <2>2. QED
    BY <2>1, TheOneThatWaits DEF WaitsFor, Carries
<1>2. \A b \in Banks : Waiting(b)' <=> WaitsFor(t, b)'
  BY <1>1 DEF Waiting
<1>3. \A b \in Banks :
         Told(news'[b], history'[b], IF Waiting(b)' THEN Len(history'[b]) - 1 ELSE Len(history'[b]))
  BY <1>2
<1>4. \A u \in Tasks : \A b \in Banks : Carries(u, b)' =>
         /\ history'[b] # <<>>
         /\ work'[u].outcomes[b].changes = Public(history'[b][Len(history'[b])])
  BY <1>1
<1>5. \A u \in Tasks : pc'[u] # "broadcasting"
  BY <1>1
<1>6. QED
  BY <1>3, <1>4, <1>5 DEF NewsInv

\* A bank whose import is not over has no outcome yet.
LEMMA NothingYet ==
    ASSUME RunInv, OutcomeInv, NEW t \in Tasks, pc[t] \in InBank
    PROVE  Bank(t) \in Banks /\ work[t].outcomes[Bank(t)].changes = {}
<1>1. Bank(t) \in Banks /\ work[t].pos \in DOMAIN Order
  BY BankType DEF RunInv, TypeInv, InLoopHasBank, InLoop
<1>2. status.banks[Bank(t)] = "running"
  BY <1>1 DEF RunInv, StatusInv, InLoop, Bank
<1>3. QED
  BY <1>1, <1>2 DEF OutcomeInv, Fits, Reporting, InLoop

\* An import is stored: its batch is the newest, and nobody has been told of it.
LEMMA NewsStore ==
    ASSUME RunInv, OutcomeInv, NewsInv, NEW t \in Tasks, Store(t)
    PROVE  NewsInv'
<1>0. TypeInv /\ work' = work /\ news' = news
  BY DEF RunInv, Store, mail
<1>1. /\ pc[t] = "importing" /\ pc'[t] = "stored" /\ pc[t] \in Inside
      /\ \A u \in Tasks : u # t => pc'[u] = pc[u] /\ work'[u] = work[u]
  BY <1>0, OthersStay, WhereItGoes DEF Store, Step, Inside, InLoop, InBank
<1>2. PICK b \in Banks : b = Bank(t) /\ work[t].outcomes[b].changes = {}
  BY <1>1, NothingYet DEF InBank
<1>3. PICK delta : history' = [history EXCEPT ![b] = Append(@, delta)]
  BY <1>2 DEF Store, DB!Publish
<1>4. PICK n \in Nat :
         /\ n = Len(history[b]) /\ Len(history'[b]) = n + 1 /\ history'[b] # <<>>
         /\ \A k \in 1..n : history'[b][k] = history[b][k]
  <2>1. history \in [Banks -> Seq(SUBSET Change)] /\ history' \in [Banks -> Seq(SUBSET Change)]
    BY TypeInvStep, <1>0 DEF Next, Step, TypeInv, TypeOK
  <2>2. history'[b] = Append(history[b], delta)
    BY <1>3, <2>1
  <2> DEFINE h == history[b]
  <2>3. h \in Seq(SUBSET Change)
    BY <2>1
  <2> HIDE DEF h
  <2>4. /\ Len(Append(h, delta)) = Len(h) + 1 /\ Append(h, delta) # <<>>
        /\ \A k \in 1..Len(h) : Append(h, delta)[k] = h[k]
        /\ Len(h) \in Nat
    <3>1. \E S : h \in Seq(S) /\ delta \in S
      <4>1. h \in Seq((SUBSET Change) \cup {delta})
        BY <2>3
      <4>2. QED
        BY <4>1
    <3>2. PICK S : h \in Seq(S) /\ delta \in S
      BY <3>1
    <3>3. QED
      BY <3>2
  <2>5. QED
    BY <2>2, <2>4 DEF h
<1>5. ~WaitsFor(t, b) /\ WaitsFor(t, b)' /\ ~Carries(t, b)'
  BY <1>0, <1>1, <1>2 DEF WaitsFor, Carries, Bank
<1>6. \A c \in Banks : c # b =>
         /\ history'[c] = history[c]
         /\ Carries(t, c)' <=> Carries(t, c)
         /\ WaitsFor(t, c)' <=> WaitsFor(t, c)
  BY <1>0, <1>1, <1>2, <1>3
  DEF TypeInv, TypeOK, WaitsFor, Carries, Carrying, InLoop, InBank, Bank
<1>7. Told(news[b], history[b], n)
  BY <1>1, <1>4, <1>5, TheOneThatWaits DEF NewsInv
<1>8. Told(news'[b], history'[b], Len(history'[b]) - 1)
  <2>1. Told(news[b], history'[b], n)
    <3>1. n <= n /\ \A k \in n+1 .. n : FALSE
      OBVIOUS
    <3>2. QED
      BY <1>4, <1>7, <3>1, ToldMore
  <2>2. Len(history'[b]) - 1 = n
    BY <1>4
  <2>3. QED
    BY <1>0, <2>1, <2>2
<1>9. ASSUME NEW c \in Banks, c # b
      PROVE  Told(news'[c], history'[c],
                  IF WaitsFor(t, c)' THEN Len(history'[c]) - 1 ELSE Len(history'[c]))
  BY <1>0, <1>1, <1>6, <1>9, TheOneThatWaits DEF NewsInv
<1>10. \A c \in Banks : Carries(t, c)' =>
          /\ history'[c] # <<>>
          /\ work'[t].outcomes[c].changes = Public(history'[c][Len(history'[c])])
  BY <1>0, <1>5, <1>6 DEF NewsInv
<1>11. \A c \in Banks : Told(news'[c], history'[c],
          IF WaitsFor(t, c)' THEN Len(history'[c]) - 1 ELSE Len(history'[c]))
  BY <1>5, <1>8, <1>9
<1>12. QED
  BY <1>1, <1>10, <1>11, NewsOfTask

\* The answer of an import comes back with the public part of what it stored,
\* or it is lost.
LEMMA NewsReturn ==
    ASSUME RunInv, OutcomeInv, NewsInv, NEW t \in Tasks, ImportReturns(t) \/ LoseAnswer(t)
    PROVE  NewsInv'
<1>0. TypeInv
  BY DEF RunInv
<1>1. /\ pc[t] = "stored" /\ pc'[t] = "recording" /\ pc[t] \in Inside
      /\ \A u \in Tasks : u # t => pc'[u] = pc[u] /\ work'[u] = work[u]
      /\ news' = news /\ history' = history
  BY <1>0, OthersStay, WhereItGoes
  DEF ImportReturns, LoseAnswer, BankFailed, Step, Inside, InLoop, InBank, db, mail
<1>2. PICK b \in Banks : b = Bank(t)
  BY <1>1, NothingYet DEF InBank
<1>3. PICK n \in Nat : n = Len(history[b]) /\ n - 1 \in Nat /\ history[b] # <<>>
  <2>1. Waiting(b)
    BY <1>1, <1>2 DEF Waiting, WaitsFor
  <2>2. history[b] # <<>>
    BY <1>0, <1>1, <1>2 DEF TypeInv, InLoopHasBank
  <2>3. QED
    BY <2>1, <2>2, WaitedForIsThere
<1>4. PICK o :
         /\ work' = [work EXCEPT ![t].parsed = NoSnapshot, ![t].outcomes[Bank(t)] = o]
         /\ o.changes = Public(history[b][n]) \/ (~Faultless /\ o.changes = {})
  <2>1. CASE ImportReturns(t)
    <3>1. PICK o :
             /\ o = [ended |-> TRUE, failed |-> FALSE, changes |-> Reported(Bank(t))]
             /\ work' = [work EXCEPT ![t].parsed = NoSnapshot, ![t].outcomes[Bank(t)] = o]
      BY <2>1 DEF ImportReturns
    <3>2. o.changes = Public(history[b][n])
      BY <1>2, <1>3, <3>1 DEF Reported
    <3>3. QED
      BY <3>1, <3>2
  <2>2. CASE LoseAnswer(t)
    <3>1. PICK o :
             /\ o = [ended |-> TRUE, failed |-> TRUE, changes |-> {}]
             /\ work' = [work EXCEPT ![t].parsed = NoSnapshot, ![t].outcomes[Bank(t)] = o]
      BY <2>2 DEF LoseAnswer, BankFailed
    <3>2. ~Faultless /\ o.changes = {}
      BY <2>2, <3>1 DEF LoseAnswer, Faultless
    <3>3. QED
      BY <3>1, <3>2
  <2>3. QED
    BY <2>1, <2>2
<1>5. \A c \in Banks : work'[t].outcomes[c] = IF c = b THEN o ELSE work[t].outcomes[c]
  <2>1. /\ work' = [work EXCEPT ![t].parsed = NoSnapshot, ![t].outcomes[Bank(t)] = o]
        /\ pc[t] \in InBank
    BY <1>1, <1>4 DEF InBank
  <2>2. \A c \in Banks : work'[t].outcomes[c] = IF c = Bank(t) THEN o ELSE work[t].outcomes[c]
    BY ONLY <1>0, <2>1, OutcomeOfBank
  <2>3. QED
    BY <1>2, <2>2
<1>6. /\ WaitsFor(t, b)' <=> o.changes # {}
      /\ Carries(t, b)' <=> o.changes # {}
      /\ WaitsFor(t, b)
  BY <1>1, <1>2, <1>5 DEF WaitsFor, Carries, Carrying, InLoop
<1>7. \A c \in Banks : c # b =>
         /\ Carries(t, c)' <=> Carries(t, c)
         /\ WaitsFor(t, c)' <=> WaitsFor(t, c)
         /\ work'[t].outcomes[c] = work[t].outcomes[c]
  BY <1>1, <1>2, <1>5 DEF WaitsFor, Carries, Carrying, InLoop, InBank
<1>8. Told(news[b], history[b], n - 1)
  BY <1>1, <1>3, <1>6, TheOneThatWaits DEF NewsInv
<1>9. o.changes = {} => Told(news[b], history[b], n)
  <2> SUFFICES ASSUME o.changes = {} PROVE Told(news[b], history[b], n)
    OBVIOUS
  <2>1. Faultless => \A k \in (n-1)+1 .. n : Public(history[b][k]) = {}
    <3>1. \A k \in (n-1)+1 .. n : k = n
      BY <1>3
    <3>2. QED
      BY <1>4, <3>1
  <2>2. n - 1 <= n
    BY <1>3
  <2>3. QED
    BY <1>3, <1>8, <2>1, <2>2, ToldMore
<1>10. ASSUME NEW c \in Banks
       PROVE  Told(news'[c], history'[c],
                   IF WaitsFor(t, c)' THEN Len(history'[c]) - 1 ELSE Len(history'[c]))
  <2>1. CASE c = b
    BY <1>1, <1>3, <1>6, <1>8, <1>9, <2>1
  <2>2. CASE c # b
    BY <1>1, <1>7, <2>2, TheOneThatWaits DEF NewsInv
  <2>3. QED
    BY <2>1, <2>2
<1>11. \A c \in Banks : Carries(t, c)' =>
          /\ history'[c] # <<>>
          /\ work'[t].outcomes[c].changes = Public(history'[c][Len(history'[c])])
  <2> SUFFICES ASSUME NEW c \in Banks, Carries(t, c)'
               PROVE  /\ history'[c] # <<>>
                      /\ work'[t].outcomes[c].changes = Public(history'[c][Len(history'[c])])
    OBVIOUS
  <2>1. CASE c = b
    BY <1>1, <1>3, <1>4, <1>5, <1>6, <2>1
  <2>2. CASE c # b
    BY <1>1, <1>7, <2>2 DEF NewsInv
  <2>3. QED
    BY <2>1, <2>2
<1>12. QED
  BY <1>1, <1>10, <1>11, NewsOfTask

\* The digest of the run goes out: what was waited for is told.
LEMMA NewsBroadcast ==
    ASSUME RunInv, NewsInv, NEW t \in Tasks, Broadcast(t)
    PROVE  NewsInv'
<1>0. TypeInv
  BY DEF RunInv
<1>1. /\ pc[t] = "broadcasting" /\ pc'[t] = "alerting" /\ pc[t] \in Inside
      /\ \A u \in Tasks : u # t => pc'[u] = pc[u] /\ work'[u] = work[u]
      /\ history' = history
  BY <1>0, OthersStay, WhereItGoes DEF Broadcast, Step, Inside, AfterLoop, db
<1>2. \A b \in Banks : ~WaitsFor(t, b)' /\ ~Carries(t, b)'
  BY <1>1 DEF WaitsFor, Carries, Carrying, InLoop, InBank
<1>3. ASSUME NEW b \in Banks
      PROVE  Told(news'[b], history'[b], Len(history'[b]))
  <2> DEFINE d == work[t].digest[b]
  <2>1. /\ news'[b] = IF d = {} THEN news[b] ELSE Append(news[b], d)
        /\ d \in SUBSET Change /\ news[b] \in Seq(SUBSET Change)
    BY <1>0, TaskFacts DEF Broadcast, TypeInv, TypeOK
  <2>2. \/ d = work[t].outcomes[b].changes
        \/ ~Faultless /\ d = {}
    BY <1>1 DEF NewsInv
  <2> HIDE DEF d
  <2>3. Waiting(b) <=> work[t].outcomes[b].changes # {}
    BY <1>1, TheOneThatWaits DEF WaitsFor, Carries, Carrying
  <2>4. PICK n \in Nat : n = Len(history[b]) /\ (Waiting(b) => n - 1 \in Nat)
    BY WaitedForIsThere
  <2>5. CASE ~Waiting(b)
    BY <1>1, <2>1, <2>2, <2>3, <2>5 DEF NewsInv
  <2>6. CASE Waiting(b) /\ d = {}
    <3>1. ~Faultless /\ Told(news[b], history[b], n - 1) /\ n - 1 <= n
      BY <2>2, <2>3, <2>4, <2>6 DEF NewsInv
    <3>2. Told(news[b], history[b], n)
      BY <2>4, <2>6, <3>1, ToldMore
    <3>3. QED
      BY <1>1, <2>1, <2>4, <2>6, <3>2
  <2>7. CASE Waiting(b) /\ d # {}
    <3>1. d = Public(history[b][n]) /\ Told(news[b], history[b], n - 1) /\ n \in Nat \ {0}
      BY <1>1, <2>2, <2>4, <2>7 DEF NewsInv, Carries, Carrying
    <3>2. Told(Append(news[b], d), history[b], n)
      BY <2>1, <2>7, <3>1, ToldNext
    <3>3. QED
      BY <1>1, <2>1, <2>4, <2>7, <3>2
  <2>8. QED
    BY <2>5, <2>6, <2>7
<1>4. QED
  BY <1>1, <1>2, <1>3, NewsOfTask

\* What was waited for when the process dies is forgotten.
LEMMA NewsCrash ==
    ASSUME RunInv, NewsInv, Crash
    PROVE  NewsInv'
<1>1. ~Faultless /\ news' = news /\ history' = history
      /\ \A t \in Tasks : pc'[t] \in {"idle", "queued"}
  BY BootType DEF Crash, Faultless, db
<1>2. \A t \in Tasks, b \in Banks : ~WaitsFor(t, b)' /\ ~Carries(t, b)' /\ ~Waiting(b)'
  BY <1>1 DEF WaitsFor, Waiting, Carries, Carrying, InLoop, InBank
<1>3. ASSUME NEW b \in Banks
      PROVE  Told(news[b], history[b], Len(history[b]))
  <2>1. PICK n \in Nat : n = Len(history[b]) /\ (Waiting(b) => n - 1 \in Nat)
    BY WaitedForIsThere
  <2>2. CASE Waiting(b)
    <3>1. Told(news[b], history[b], n - 1) /\ n - 1 <= n
      BY <2>1, <2>2 DEF NewsInv
    <3>2. QED
      BY <1>1, <2>1, <2>2, <3>1, ToldMore
  <2>3. CASE ~Waiting(b)
    BY <2>3 DEF NewsInv
  <2>4. QED
    BY <2>2, <2>3
<1>4. \A b \in Banks : ~Waiting(b)'
  BY <1>2, RunnerAssumption
<1>5. \A t \in Tasks : pc'[t] # "broadcasting"
  BY <1>1
<1>6. QED
  BY <1>1, <1>2, <1>3, <1>4, <1>5 DEF NewsInv

LEMMA NewsStep ==
    ASSUME RunInv, OutcomeInv, NewsInv, [Next]_vars
    PROVE  NewsInv'
<1> USE DEF InBank, InLoop, AfterLoop, Inside, Carrying
<1>0. TypeInv /\ work \in [Tasks -> Work]
  BY DEF RunInv, TypeInv, TypeOK
<1>1. ASSUME NEW t \in Tasks,
             \/ AskManually(t) \/ OnSchedule(t) \/ Skip(t) \/ EndSkip(t) \/ Enter(t)
             \/ BeginRun(t) \/ (\E a \in Alert : SendAlert(t, a)) \/ Leave(t)
      PROVE  NewsInv'
  <2>1. \A u \in Tasks : u # t => pc'[u] = pc[u] /\ work'[u] = work[u]
    BY <1>0, <1>1, OthersStay DEF Step
  <2>2. /\ UNCHANGED <<news, history>>
        /\ pc[t] \in {"idle", "queued", "skipping", "entered", "alerting"}
        /\ pc'[t] \in {"idle", "queued", "skipping", "entered", "loading", "alerting"}
    BY <1>0, <1>1, WhereItGoes
    DEF AskManually, OnSchedule, Spawn, Skip, EndSkip, Enter, BeginRun, SendAlert, Leave, db, mail
  <2>3. \A b \in Banks : ~Carries(t, b) /\ ~Carries(t, b)'
    BY <2>2 DEF Carries
  <2>4. QED
    BY <2>1, <2>2, <2>3, NewsFrame
<1>2. ASSUME NEW t \in Tasks, LoadProxies(t)
      PROVE  NewsInv'
  <2>1. /\ UNCHANGED <<news, history>>
        /\ pc[t] = "loading" /\ pc'[t] = "announcing"
        /\ work'[t].outcomes = work[t].outcomes
        /\ \A u \in Tasks : u # t => pc'[u] = pc[u] /\ work'[u] = work[u]
    BY <1>0, <1>2, OthersStay, WhereItGoes DEF LoadProxies, Step, Work, db, mail
  <2>2. \A b \in Banks : work[t].outcomes[b].changes = {}
    BY <2>1 DEF RunInv, StatusInv, OutcomeInv, Fits, Reporting
  <2>3. \A b \in Banks : ~Carries(t, b) /\ ~Carries(t, b)'
    BY <2>1, <2>2 DEF Carries
  <2>4. QED
    BY <2>1, <2>3, NewsFrame
<1>3. ASSUME NEW t \in Tasks,
             \/ StartBank(t) \/ (\E s \in Portals : Parse(t, s))
             \/ NextBank(t) \/ Finish(t)
      PROVE  NewsInv'
  <2>1. /\ UNCHANGED <<news, history>>
        /\ pc[t] \in {"announcing", "parsing", "recording"}
        /\ pc'[t] \in {"parsing", "importing", "announcing", "summary"}
        /\ work'[t].outcomes = work[t].outcomes
        /\ \A u \in Tasks : u # t => pc'[u] = pc[u] /\ work'[u] = work[u]
    BY <1>0, <1>3, OthersStay, WhereItGoes
    DEF StartBank, Parse, NextBank, Finish, Step, Work, db, mail
  <2>2. \A b \in Banks : Carries(t, b)' <=> Carries(t, b)
    BY <2>1 DEF Carries
  <2>3. QED
    BY <2>1, <2>2, NewsFrame
<1>4. ASSUME NEW t \in Tasks, Notify(t)
      PROVE  NewsInv'
  <2>1. /\ UNCHANGED <<news, history>>
        /\ pc[t] = "summary" /\ pc'[t] = "broadcasting"
        /\ \A u \in Tasks : u # t => pc'[u] = pc[u] /\ work'[u] = work[u]
    BY <1>0, <1>4, OthersStay, WhereItGoes DEF Notify, Step, db, mail
  <2>2. PICK d, a :
           /\ work' = [work EXCEPT ![t].digest = d, ![t].alerts = a]
           /\ d = Digest(t) \/ (~Faultless /\ d = NoChange)
    <3>1. PICK broken \in {FALSE, DigestBreaks} :
             work' = [work EXCEPT
                         ![t].digest = IF Notifier /\ ~broken THEN Digest(t) ELSE NoChange,
                         ![t].alerts = IF Notifier THEN Alerts(t) ELSE {}]
      BY <1>4 DEF Notify
    <3>2. Faultless => Notifier /\ ~broken
      BY DEF Faultless
    <3>3. QED
      BY <3>1, <3>2
  <2>3. work'[t].outcomes = work[t].outcomes /\ work'[t].digest = d
    BY <1>0, <2>2 DEF Work
  <2>4. \A b \in Banks : \/ work'[t].digest[b] = work'[t].outcomes[b].changes
                         \/ ~Faultless /\ work'[t].digest[b] = {}
    BY <2>2, <2>3 DEF Digest, NoChange
  <2>5. \A b \in Banks : Carries(t, b)' <=> Carries(t, b)
    BY <2>1, <2>3 DEF Carries
  <2>6. QED
    BY <2>1, <2>3, <2>4, <2>5, NewsFrame
<1>5. ASSUME NEW t \in Tasks, Fail(t) \/ Reject(t)
      PROVE  NewsInv'
  <2>1. /\ UNCHANGED <<news, history>>
        /\ pc[t] \in {"parsing", "importing"} /\ pc'[t] = "recording"
        /\ \A u \in Tasks : u # t => pc'[u] = pc[u] /\ work'[u] = work[u]
    BY <1>0, <1>5, OthersStay, WhereItGoes DEF Fail, Reject, BankFailed, Step, db, mail
  <2>2. PICK o :
           /\ work' = [work EXCEPT ![t].parsed = NoSnapshot, ![t].outcomes[Bank(t)] = o]
           /\ o.changes = {}
    <3>1. PICK o : /\ o = [ended |-> TRUE, failed |-> TRUE, changes |-> {}]
                   /\ work' = [work EXCEPT ![t].parsed = NoSnapshot, ![t].outcomes[Bank(t)] = o]
      BY <1>5 DEF Fail, Reject, BankFailed
    <3>2. o.changes = {}
      BY <3>1
    <3>3. QED
      BY <3>1, <3>2
  <2>3. \A b \in Banks :
           work'[t].outcomes[b] = IF b = Bank(t) THEN o ELSE work[t].outcomes[b]
    <3>1. /\ work' = [work EXCEPT ![t].parsed = NoSnapshot, ![t].outcomes[Bank(t)] = o]
          /\ pc[t] \in InBank
      BY <2>1, <2>2
    <3>2. QED
      BY ONLY <1>0, <3>1, OutcomeOfBank
  <2>4. work[t].outcomes[Bank(t)].changes = {}
    BY <2>1, NothingYet
  <2>5. \A b \in Banks : /\ Carries(t, b)' <=> Carries(t, b)
                         /\ Carries(t, b) => work'[t].outcomes[b] = work[t].outcomes[b]
    BY <2>1, <2>2, <2>3, <2>4 DEF Carries
  <2>6. QED
    BY <2>1, <2>5, NewsFrame
<1>6. CASE UNCHANGED vars
  <2>1. UNCHANGED <<news, history, pc, work>>
    BY <1>6 DEF vars, db, mail
  <2>2. QED
    BY <2>1 DEF NewsInv, Waiting, WaitsFor, Carries, Bank
<1>7. QED
  BY <1>1, <1>2, <1>3, <1>4, <1>5, <1>6, NewsStore, NewsReturn, NewsBroadcast, NewsCrash
  DEF Next, Step

LEMMA NewsInvAlways == Spec => [](RunInv /\ NewsInv)
<1>1. Init => RunInv /\ OutcomeInv /\ NewsInv
  BY RunInvInit, OutcomeInit, NewsInit
<1>2. (RunInv /\ OutcomeInv /\ NewsInv) /\ [Next]_vars => (RunInv /\ OutcomeInv /\ NewsInv)'
  BY RunInvStep, OutcomeStep, NewsStep
<1>3. QED
  BY <1>1, <1>2, PTL DEF Spec

\* Whatever crashes, overlaps, fails or gets lost, subscribers read nothing of a
\* bank that is not in its history, nothing twice and nothing out of order.
THEOREM DigestsNeverInventTheorem == Spec => []DigestsNeverInvent
<1>1. RunInv /\ NewsInv => DigestsNeverInvent
  <2> SUFFICES ASSUME RunInv, NewsInv, NEW b \in Banks
               PROVE  \E at \in [DOMAIN news[b] -> DOMAIN history[b]] :
                         Retells(news[b], history[b], at)
    BY DEF DigestsNeverInvent
  <2>1. PICK n \in Nat :
           /\ n = Len(history[b]) /\ DOMAIN history[b] = 1..n
           /\ Waiting(b) => n - 1 \in Nat
    BY WaitedForIsThere DEF RunInv, TypeInv, TypeOK
  <2>2. PICK m \in Nat : m <= n /\ Told(news[b], history[b], m)
    BY <2>1 DEF NewsInv
  <2>3. PICK at \in [DOMAIN news[b] -> 1..m] : Retells(news[b], history[b], at)
    BY <2>2 DEF Told
  <2>4. at \in [DOMAIN news[b] -> 1..n]
    BY <2>2
  <2>5. QED
    BY <2>1, <2>3, <2>4
<1>2. QED
  BY <1>1, NewsInvAlways, PTL

\* When no answer is lost, no digest breaks and the process does not crash, they
\* have read between two runs all there is to read.
THEOREM DigestsTellHistoryTheorem ==
    ASSUME Notifier, ~ConnectionDrops, ~DigestBreaks, ~Crashes
    PROVE  Spec => []DigestsTellHistory
<1>1. RunInv /\ NewsInv => DigestsTellHistory
  <2> SUFFICES ASSUME RunInv, NewsInv, LockIsFree, NEW b \in Banks
               PROVE  \E at \in [DOMAIN news[b] -> DOMAIN history[b]] :
                         /\ Retells(news[b], history[b], at)
                         /\ \A n \in DOMAIN history[b] : Public(history[b][n]) # {} =>
                               \E m \in DOMAIN news[b] : at[m] = n
    BY DEF DigestsTellHistory
  <2>1. \A t \in Tasks : pc[t] \notin Inside
    BY RunnerAssumption DEF LockIsFree, RunInv, LockInv
  <2>2. ~Waiting(b)
    BY <2>1 DEF Waiting, WaitsFor, Carries, Carrying, Inside, InLoop, InBank, AfterLoop
  <2>3. Told(news[b], history[b], Len(history[b])) /\ DOMAIN history[b] = 1..Len(history[b])
    BY <2>2 DEF NewsInv, RunInv, TypeInv, TypeOK
  <2>4. Faultless
    BY DEF Faultless
  <2>5. QED
    BY <2>3, <2>4 DEF Told
<1>2. QED
  BY <1>1, NewsInvAlways, PTL

=============================================================================
