--------------------------- MODULE WatcherProofs ---------------------------
(***************************************************************************)
(* Theorems about Watcher for every set of intents and transactions, every *)
(* batch and poll limit and every number of faults.                        *)
(***************************************************************************)
EXTENDS WatcherInv, FiniteSetTheorems, TLAPS

USE WatcherAssumption

-----------------------------------------------------------------------------
(* Types.                                                                  *)

\* The number of transactions with any property is a natural number.
LEMMA CountType ==
  ASSUME NEW S \in SUBSET Sigs
  PROVE  Cardinality(S) \in Nat
  BY Zenon, FS_Subset, FS_CardinalityType

\* A call that begins or ends is well typed.
LEMMA JobStartType ==
  ASSUME NEW s \in Sigs
  PROVE  NoJob \in Job /\ [NoJob EXCEPT !.at = "match", !.sig = s] \in Job
  BY Zenon DEF NoJob, Job

\* So is one that goes on after its match.
LEMMA JobStepTypes ==
  ASSUME NEW j \in Job, NEW i \in Intents \cup {None}
  PROVE  /\ [j EXCEPT !.at = "resolve", !.hit = i] \in Job
         /\ [j EXCEPT !.at = "write"] \in Job
         /\ [j EXCEPT !.at = "write", !.id = i] \in Job
  <1>1. [j EXCEPT !.at = "resolve", !.hit = i] \in Job
    BY Zenon DEF Job
  <1>2. [j EXCEPT !.at = "write"] \in Job
    BY Zenon DEF Job
  <1>3. [j EXCEPT !.at = "write", !.id = i] \in Job
    BY Zenon DEF Job
  <1> QED BY Zenon, <1>1, <1>2, <1>3

\* The upsert keeps a row well typed.
LEMMA UpsertedType ==
  ASSUME NEW s \in Sigs, rows \in [Sigs -> Row], NEW c \in {"confirmed", "finalized"},
         NEW i \in Intents \cup {None}
  PROVE  Upserted(s, c, i) \in Row
  BY Zenon DEF Upserted, Row

\* Types hold at the start.
LEMMA TypeInit == Init => TypeOK
  BY DEF Init, TypeOK, NoRow, Row, NoJob, Job, NotListed, Loops

LEMMA TypeStutter == TypeOK /\ UNCHANGED vars => TypeOK'
  BY Zenon DEF TypeOK, vars, world, tables, memory, faults

\* The API, the saga and the cluster keep the types.
LEMMA TypeWorld ==
  ASSUME TypeOK,
         \/ \E i \in Intents : CreateIntent(i) \/ CloseIntent(i)
         \/ \E s \in Sigs : Land(s) \/ Finalize(s) \/ Drop(s)
  PROVE  TypeOK'
  <1> USE DEF world, tables, memory, faults
  <1>1. ASSUME NEW i \in Intents, CreateIntent(i) \/ CloseIntent(i) PROVE TypeOK'
    BY <1>1 DEF TypeOK, CreateIntent, CloseIntent
  <1>2. ASSUME NEW s \in Sigs, Land(s) PROVE TypeOK'
    <2>1. Cardinality({t \in Sigs : Ref[t] = Ref[s] /\ chain[t] # "absent"}) + 1 \in Nat
      BY CountType
    <2> HIDE WatcherAssumption
    <2> QED BY <1>2, <2>1 DEF TypeOK, Land, Loops
  <1>3. ASSUME NEW s \in Sigs, Finalize(s) \/ Drop(s) PROVE TypeOK'
    BY <1>3 DEF TypeOK, Finalize, Drop
  <1> QED BY Zenon, <1>1, <1>2, <1>3

\* Refreshing, polling and batching keep the types.
LEMMA TypeFeed ==
  ASSUME TypeOK, Refresh \/ Poll \/ PromoteUnfinalized \/ Disconnect
  PROVE  TypeOK'
  <1> USE DEF world, tables, memory, faults
  <1>1. CASE ListActiveReferences
    BY Zenon, <1>1 DEF TypeOK, ListActiveReferences
  <1>2. CASE StoreReferences
    BY Zenon, <1>2 DEF TypeOK, StoreReferences, NotListed
  <1>3. CASE StartPoll
    BY Zenon, <1>3 DEF TypeOK, StartPoll
  <1>4. ASSUME NEW i \in Intents, PollReference(i) PROVE TypeOK'
    <2>1. Newest(i) \subseteq Sigs
      BY Zenon DEF Newest
    <2> QED BY Zenon, <1>4, <2>1 DEF TypeOK, PollReference, Loops
  <1>5. CASE PromoteUnfinalized
    <2>1. NextBatch \subseteq Sigs
      BY Zenon DEF NextBatch, Recorded
    <2> QED BY Zenon, <1>5, <2>1 DEF TypeOK, PromoteUnfinalized, Loops
  <1>6. CASE Disconnect
    BY Zenon, <1>6 DEF TypeOK, Disconnect, Loops
  <1> QED BY Zenon, <1>1, <1>2, <1>3, <1>4, <1>5, <1>6 DEF Refresh, Poll

\* ProcessSignature, its errors and a restart keep the types; a call that has
\* fetched works on a known transaction.
LEMMA TypeProcess ==
  ASSUME TypeOK, \A l \in Loops : JobOK(l),
         Crash \/ \E l \in Loops : Process(l) \/ Error(l)
  PROVE  TypeOK'
  <1> USE DEF world, tables, memory, faults
  <1>1. ASSUME NEW l \in Loops, NEW s \in Sigs, Fetch(l, s) PROVE TypeOK'
    <2>1. job' \in [Loops -> Job]
      BY Zenon, <1>1, JobStartType DEF Fetch, TypeOK
    <2> QED BY Zenon, <1>1, <2>1 DEF Fetch, TypeOK
  <1>2. ASSUME NEW l \in Loops, Match(l) PROVE TypeOK'
    <2>1. job[l] \in Job /\ Ref[job[l].sig] \in Intents \cup {None}
      <3>1. job[l].sig \in Sigs /\ job[l] \in Job
        BY Zenon, <1>2 DEF Match, JobOK, TypeOK
      <3> QED BY Zenon, <3>1
    <2>2. job' \in [Loops -> Job]
      <3>1. /\ [job[l] EXCEPT !.at = "resolve", !.hit = Ref[job[l].sig]] \in Job
            /\ [job[l] EXCEPT !.at = "write"] \in Job
        BY Zenon, <2>1, JobStepTypes
      <3>2. job \in [Loops -> Job]
        BY Zenon DEF TypeOK
      <3> QED BY SMTT(30), <1>2, <3>1, <3>2 DEF Match
    <2> QED BY Zenon, <1>2, <2>2 DEF Match, TypeOK
  <1>3. ASSUME NEW l \in Loops, Resolve(l) PROVE TypeOK'
    <2>1. job[l] \in Job /\ (IF job[l].hit \in refs THEN job[l].hit ELSE None) \in Intents \cup {None}
      BY Zenon DEF TypeOK
    <2>2. job' \in [Loops -> Job]
      <3>1. [job[l] EXCEPT !.at = "write", !.id = IF job[l].hit \in refs THEN job[l].hit ELSE None] \in Job
        BY Zenon, <2>1, JobStepTypes
      <3>2. job \in [Loops -> Job]
        BY DEF TypeOK
      <3> QED BY Zenon, <1>3, <3>1, <3>2 DEF Resolve
    <2> QED BY Zenon, <1>3, <2>2 DEF Resolve, TypeOK
  <1>4. ASSUME NEW l \in Loops, Write(l) PROVE TypeOK'
    <2> DEFINE s == job[l].sig
    <2> DEFINE row == Upserted(s, Commitment(l), job[l].id)
    <2>1. s \in Sigs /\ job[l].id \in Intents \cup {None}
      BY Zenon, <1>4 DEF Write, JobOK, TypeOK, Job
    <2>2. row \in Row
      BY Zenon, <2>1, UpsertedType DEF TypeOK, Commitment
    <2>3. Cardinality(Recorded) + 1 \in Nat
      BY CountType DEF Recorded
    <2>4. rows' \in [Sigs -> Row] /\ made' \in [Sigs -> Nat]
      BY Zenon, <1>4, <2>1, <2>2, <2>3 DEF Write, TypeOK
    <2>5. saga' \subseteq Intents
      BY Zenon, <1>4, <2>2 DEF Write, TypeOK, Enqueues, Row
    <2>6. job' \in [Loops -> Job]
      BY Zenon, <1>4 DEF Write, TypeOK, NoJob, Job
    <2> QED BY Zenon, <1>4, <2>4, <2>5, <2>6 DEF Write, TypeOK
  <1>5. ASSUME NEW l \in Loops, Error(l) PROVE TypeOK'
    <2>1. job' \in [Loops -> Job]
      BY <1>5 DEF Error, TypeOK, NoJob, Job
    <2>2. todo' \in [Loops -> SUBSET Sigs] /\ pollrefs' \subseteq Intents
      BY <1>5 DEF Error, TypeOK
    <2>3. errors' \in 0..MaxErrors
      BY <1>5 DEF Error, TypeOK
    <2> QED BY Zenon, <1>5, <2>1, <2>2, <2>3 DEF Error, TypeOK
  <1>6. CASE Crash
    BY <1>6 DEF Crash, TypeOK, NoJob, Job, NotListed
  <1> QED BY Zenon, <1>1, <1>2, <1>3, <1>4, <1>5, <1>6 DEF Process

-----------------------------------------------------------------------------
(* The inductive invariant.                                                *)

\* It holds before anything is on the chain.
LEMMA InvInit == Init => WInv
  <1> SUFFICES ASSUME Init PROVE WInv
    BY Zenon
  <1>1. TypeOK
    BY Zenon, TypeInit
  <1>2. (\A s \in Sigs : RowOK(s)) /\ FinalizedHasSaga
    BY Zenon DEF Init, RowOK, FinalizedHasSaga, NoRow
  <1>3. \A l \in Loops : JobOK(l)
    BY Zenon DEF Init, JobOK, NoJob
  <1>4. SagaHasFinalDeposit
    BY Zenon DEF Init, SagaHasFinalDeposit
  <1> QED BY Zenon, <1>1, <1>2, <1>3, <1>4 DEF WInv

\* A step that touches neither rows nor sagas, takes no transaction back from
\* finality and leaves each call alone or ends it keeps it.
LEMMA InvFrame ==
  ASSUME WInv, TypeOK', UNCHANGED <<rows, saga>>,
         \A s \in Sigs : chain[s] = "finalized" => chain'[s] = "finalized",
         \A l \in Loops : job'[l] = job[l] \/ job'[l].at = "idle"
  PROVE  WInv'
  <1>1. \A s \in Sigs : RowOK(s)'
    BY Zenon DEF WInv, RowOK
  <1>2. ASSUME NEW l \in Loops PROVE JobOK(l)'
    <2>1. JobOK(l) /\ (job'[l] = job[l] \/ job'[l].at = "idle")
      BY Zenon DEF WInv
    <2> QED BY Zenon, <2>1 DEF JobOK
  <1>3. FinalizedHasSaga'
    BY Zenon DEF WInv, FinalizedHasSaga
  <1>4. SagaHasFinalDeposit'
    BY Zenon DEF WInv, SagaHasFinalDeposit
  <1> QED BY Zenon, <1>1, <1>2, <1>3, <1>4 DEF WInv

\* Everything but the calls themselves keeps it: a transaction that is final
\* stays final, and only a restart or an error touches a call.
LEMMA InvAround ==
  ASSUME WInv,
         \/ \E i \in Intents : CreateIntent(i) \/ CloseIntent(i)
         \/ \E s \in Sigs : Land(s) \/ Finalize(s) \/ Drop(s)
         \/ Refresh \/ Poll \/ PromoteUnfinalized \/ Disconnect \/ Crash
         \/ \E l \in Loops : Error(l)
  PROVE  WInv'
  <1> USE DEF world, tables, memory, faults
  <1>1. TypeOK'
    BY Zenon, TypeWorld, TypeFeed, TypeProcess DEF WInv
  <1>2. ASSUME NEW i \in Intents, CreateIntent(i) \/ CloseIntent(i) \/ PollReference(i) PROVE WInv'
    <2>1. UNCHANGED <<rows, saga, chain, job>>
      BY Zenon, <1>2 DEF CreateIntent, CloseIntent, PollReference
    <2> QED BY Zenon, <1>1, <2>1, InvFrame
  <1>3. ASSUME NEW s \in Sigs, Land(s) \/ Finalize(s) \/ Drop(s) PROVE WInv'
    <2>1. UNCHANGED <<rows, saga, job>>
      BY Zenon, <1>3 DEF Land, Finalize, Drop
    <2>2. \A t \in Sigs : chain[t] = "finalized" => chain'[t] = "finalized"
      BY Zenon, <1>3 DEF Land, Finalize, Drop, WInv, TypeOK
    <2> QED BY SMTT(30), <1>1, <2>1, <2>2, InvFrame
  <1>4. CASE ListActiveReferences \/ StoreReferences \/ StartPoll \/ PromoteUnfinalized \/ Disconnect
    <2>1. UNCHANGED <<rows, saga, chain, job>>
      BY SMTT(30), <1>4 DEF ListActiveReferences, StoreReferences, StartPoll, PromoteUnfinalized, Disconnect
    <2> QED BY SMTT(30), <1>1, <2>1, InvFrame
  <1>5. CASE Crash
    <2>1. UNCHANGED <<rows, saga, chain>> /\ \A l \in Loops : job'[l].at = "idle"
      BY Zenon, <1>5 DEF Crash, NoJob
    <2> QED BY Zenon, <1>1, <2>1, InvFrame
  <1>6. ASSUME NEW l \in Loops, Error(l) PROVE WInv'
    <2>1. UNCHANGED <<rows, saga, chain>> /\ \A m \in Loops : job'[m] = job[m] \/ job'[m].at = "idle"
      BY <1>6 DEF Error, NoJob, WInv, TypeOK
    <2> QED BY Zenon, <1>1, <2>1, InvFrame
  <1> QED BY Zenon, <1>2, <1>3, <1>4, <1>5, <1>6 DEF Refresh, Poll

\* A call that has not yet written keeps it: what it fetched stays final, and
\* what it matched is the transaction's own reference or nothing.
LEMMA InvCall ==
  ASSUME WInv, NEW l \in Loops, (\E s \in Sigs : Fetch(l, s)) \/ Match(l) \/ Resolve(l)
  PROVE  WInv'
  <1> USE DEF world, tables, memory, faults
  <1>1. TypeOK'
    BY SMTT(30), TypeProcess DEF WInv, Process
  <1>2. UNCHANGED <<rows, saga, chain>> /\ \A m \in Loops : m # l => job'[m] = job[m]
    BY Zenon DEF Fetch, Match, Resolve, WInv, TypeOK
  <1>3. JobOK(l) /\ job[l] \in Job /\ job \in [Loops -> Job]
    BY Zenon DEF WInv, TypeOK
  <1>4. JobOK(l)'
    <2>1. ASSUME NEW s \in Sigs, Fetch(l, s) PROVE JobOK(l)'
      <3>1. CASE job' = job
        BY Zenon, <1>2, <1>3, <3>1 DEF JobOK
      <3>2. CASE job' # job
        <4>1. /\ job'[l] = [NoJob EXCEPT !.at = "match", !.sig = s]
              /\ s \in Transfers /\ Reached(s, Commitment(l))
          BY Zenon, <1>3, <2>1, <3>2 DEF Fetch
        <4>2. job'[l].sig = s /\ job'[l].hit = None /\ job'[l].id = None
          BY Zenon, <4>1 DEF NoJob
        <4>3. l = "promote" => chain'[s] = "finalized"
          BY Zenon, <1>2, <4>1 DEF Reached, Commitment
        <4> QED BY SMTT(30), <4>1, <4>2, <4>3 DEF JobOK
      <3> QED BY Zenon, <3>1, <3>2
    <2>2. CASE Match(l)
      <3>1. /\ job[l].at # "idle" /\ job'[l].sig = job[l].sig /\ job'[l].id = job[l].id
            /\ job'[l].hit \in {job[l].hit, Ref[job[l].sig]}
        BY Zenon, <1>3, <2>2 DEF Match, Job
      <3> QED BY Zenon, <1>2, <1>3, <3>1 DEF JobOK
    <2>3. CASE Resolve(l)
      <3>1. /\ job[l].at # "idle" /\ job'[l].sig = job[l].sig /\ job'[l].hit = job[l].hit
            /\ job'[l].id \in {job[l].hit, None}
        BY Zenon, <1>3, <2>3 DEF Resolve, Job
      <3> QED BY Zenon, <1>2, <1>3, <3>1 DEF JobOK
    <2> QED BY Zenon, <2>1, <2>2, <2>3
  <1>5. ASSUME NEW m \in Loops PROVE JobOK(m)'
    <2>1. CASE m # l
      BY Zenon, <1>2, <2>1 DEF WInv, JobOK
    <2> QED BY Zenon, <1>4, <2>1
  <1>6. (\A s \in Sigs : RowOK(s)') /\ FinalizedHasSaga' /\ SagaHasFinalDeposit'
    BY Zenon, <1>2 DEF WInv, RowOK, FinalizedHasSaga, SagaHasFinalDeposit
  <1> QED BY Zenon, <1>1, <1>5, <1>6 DEF WInv

\* What the upsert makes of a row: it keeps what the row had, and takes the
\* rest from the call.
LEMMA UpsertedRises ==
  ASSUME NEW s \in Sigs, rows \in [Sigs -> Row], NEW c \in {"confirmed", "finalized"},
         NEW i \in Intents \cup {None}
  PROVE  LET row == Upserted(s, c, i) IN
         /\ row.commitment \in {"confirmed", "finalized"}
         /\ rows[s].commitment = "finalized" => row.commitment = "finalized"
         /\ row.commitment = "finalized" => rows[s].commitment = "finalized" \/ c = "finalized"
         /\ rows[s].commitment # "none" /\ rows[s].intent # None => row.intent = rows[s].intent
         /\ row.intent \in {rows[s].intent, i}
  BY Zenon DEF Upserted, Row

\* The database transaction keeps it: only the promoter brings the final
\* commitment, and it fetched the transaction at that commitment.
LEMMA InvWrite ==
  ASSUME WInv, NEW l \in Loops, Write(l)
  PROVE  WInv'
  <1>0. PICK s \in Sigs : s = job[l].sig /\ s \in Transfers
    BY Zenon, WatcherAssumption DEF WInv, JobOK, Write
  <1> DEFINE row == Upserted(s, Commitment(l), job[l].id)
  <1> USE DEF world, tables, memory, faults
  <1>1. TypeOK'
    BY Zenon, TypeProcess DEF WInv, Process
  <1>2. /\ JobOK(l) /\ job \in [Loops -> Job] /\ job[l] \in Job /\ job[l].at = "write"
        /\ rows \in [Sigs -> Row] /\ saga \subseteq Intents
    BY Zenon DEF WInv, TypeOK, Write
  <1>3. /\ s \in Transfers /\ s \in Sigs /\ job[l].id \in {None, Ref[s]}
        /\ l = "promote" => chain[s] = "finalized"
        /\ job[l].id \in Intents \cup {None}
    BY Zenon, <1>0, <1>2 DEF JobOK, Job
  <1>4. Commitment(l) \in {"confirmed", "finalized"} /\ (Commitment(l) = "finalized" => l = "promote")
    BY Zenon DEF Commitment
  <1>5. /\ row \in Row
        /\ rows[s].commitment = "finalized" => row.commitment = "finalized"
        /\ row.commitment = "finalized" => rows[s].commitment = "finalized" \/ Commitment(l) = "finalized"
        /\ rows[s].commitment # "none" /\ rows[s].intent # None => row.intent = rows[s].intent
        /\ row.intent \in {rows[s].intent, job[l].id}
    BY <1>2, <1>3, <1>4, UpsertedRises, UpsertedType
  <1> HIDE DEF row
  <1>6. /\ rows' = [rows EXCEPT ![s] = row]
        /\ saga' = IF Enqueues(l, row) THEN saga \cup {row.intent} ELSE saga
        /\ job' = [job EXCEPT ![l] = NoJob] /\ chain' = chain
    BY Zenon, <1>0 DEF Write, row
  <1>7. rows'[s] = row /\ \A t \in Sigs : t # s => rows'[t] = rows[t]
    BY Zenon, <1>2, <1>3, <1>6
  <1>8. RowOK(s)'
    <2>1. RowOK(s)
      BY Zenon, <1>3 DEF WInv
    <2>2. row.commitment = "finalized" => chain'[s] = "finalized"
      BY Zenon, <1>3, <1>4, <1>5, <1>6, <2>1 DEF RowOK
    <2>3. row.intent \in {None, Ref[s]}
      BY Zenon, <1>3, <1>5, <2>1 DEF RowOK
    <2>4. row.commitment # "none"
      BY Zenon, <1>2, <1>3, <1>4, UpsertedRises DEF row
    <2> QED BY Zenon, <1>3, <1>7, <2>2, <2>3, <2>4 DEF RowOK
  <1>9. ASSUME NEW t \in Sigs PROVE RowOK(t)'
    <2>1. CASE t # s
      BY <1>6, <1>7, <2>1 DEF WInv, RowOK
    <2> QED BY Zenon, <1>8, <2>1
  <1>10. ASSUME NEW m \in Loops PROVE JobOK(m)'
    <2>1. CASE m = l
      BY Zenon, <1>2, <1>6, <2>1 DEF JobOK, NoJob
    <2>2. CASE m # l
      BY Zenon, <1>2, <1>6, <2>2 DEF JobOK, WInv
    <2> QED BY Zenon, <2>1, <2>2
  <1>11. FinalizedHasSaga'
    <2>1. row.commitment = "finalized" /\ row.intent # None => row.intent \in saga'
      BY Zenon, <1>6 DEF Enqueues
    <2>2. saga \subseteq saga'
      BY Zenon, <1>6
    <2> QED BY Zenon, <1>7, <2>1, <2>2 DEF WInv, FinalizedHasSaga
  <1>12. SagaHasFinalDeposit'
    <2> SUFFICES ASSUME NEW i \in saga'
                 PROVE  \E t \in Transfers :
                          /\ chain'[t] = "finalized" /\ Ref[t] = i
                          /\ rows'[t] = [commitment |-> "finalized", intent |-> i]
      BY Zenon DEF SagaHasFinalDeposit
    <2>1. CASE i \in saga
      <3>1. PICK t \in Transfers : /\ chain[t] = "finalized" /\ Ref[t] = i
                                   /\ rows[t] = [commitment |-> "finalized", intent |-> i]
        BY Zenon, <2>1 DEF WInv, SagaHasFinalDeposit
      <3>2. i # None /\ t \in Sigs
        BY Zenon, <1>2, <2>1, WatcherAssumption
      <3>3. CASE t = s
        <4>1. row.commitment = "finalized" /\ row.intent = i
          BY <1>5, <3>1, <3>2, <3>3
        <4>2. row = [commitment |-> "finalized", intent |-> i]
          BY Zenon, <1>5, <4>1 DEF Row
        <4> QED BY Zenon, <1>6, <1>7, <3>1, <3>3, <4>2
      <3>4. CASE t # s
        BY SMTT(30), <1>6, <1>7, <3>1, <3>2, <3>4
      <3> QED BY Zenon, <3>3, <3>4
    <2>2. CASE i \notin saga
      <3>1. row.commitment = "finalized" /\ row.intent # None /\ i = row.intent
        BY Zenon, <1>6, <2>2 DEF Enqueues
      <3>2. row = [commitment |-> "finalized", intent |-> i]
        BY Zenon, <1>5, <3>1 DEF Row
      <3>3. chain'[s] = "finalized" /\ Ref[s] = i
        BY Zenon, <1>7, <1>8, <3>1 DEF RowOK
      <3> QED BY Zenon, <1>3, <1>7, <3>2, <3>3
    <2> QED BY Zenon, <2>1, <2>2
  <1> QED BY Zenon, <1>1, <1>9, <1>10, <1>11, <1>12 DEF WInv

LEMMA InvNext == WInv /\ [Next]_vars => WInv'
  <1> SUFFICES ASSUME WInv, [Next]_vars PROVE WInv'
    BY Zenon
  <1>1. ASSUME NEW l \in Loops, Process(l) PROVE WInv'
    BY SMTT(30), <1>1, InvCall, InvWrite DEF Process
  <1>2. CASE UNCHANGED vars
    BY Zenon, <1>2, InvFrame, TypeStutter DEF vars, world, tables, memory, faults, WInv
  <1> QED BY Zenon, <1>1, <1>2, InvAround DEF Next

\* Everything WInv says of rows, calls and sagas holds in every reachable
\* state, for any number of intents, transactions, errors and restarts.
THEOREM Invariance == Spec => []WInv
  BY InvInit, InvNext, PTL DEF Spec

\* The tables and the memory of the watcher always have their types.
THEOREM TypeCorrect == Spec => []TypeOK
  <1>1. WInv => TypeOK
    BY Zenon DEF WInv
  <1> QED BY <1>1, Invariance, PTL

\* No row is final and linked without a saga, whichever of the three loops
\* wrote it last.
THEOREM FinalizedHasSagaHolds == Spec => []FinalizedHasSaga
  <1>1. WInv => FinalizedHasSaga
    BY Zenon DEF WInv
  <1> QED BY <1>1, Invariance, PTL

\* No saga is enqueued without a transfer that the cluster has finalized for
\* that intent, and the row credit_deposit reads is there.
THEOREM SagaHasFinalDepositHolds == Spec => []SagaHasFinalDeposit
  <1>1. WInv => SagaHasFinalDeposit
    BY Zenon DEF WInv
  <1> QED BY <1>1, Invariance, PTL

\* However the reference map changes between the two reads of
\* matchReference, a deposit is linked to its own intent or to none.
THEOREM LinksAreTrueHolds == Spec => []LinksAreTrue
  <1>1. WInv => LinksAreTrue
    BY Zenon DEF WInv, RowOK, LinksAreTrue
  <1> QED BY <1>1, Invariance, PTL

\* Late, repeated and reordered calls of ProcessSignature never take back a
\* commitment or a link.
THEOREM RowsOnlyRiseHolds == Spec => RowsOnlyRise
  <1> DEFINE Rise ==
        \A s \in Sigs :
          /\ rows[s].commitment = "finalized" => rows'[s].commitment = "finalized"
          /\ rows[s].commitment = "confirmed" => rows'[s].commitment # "none"
          /\ rows[s].intent # None => rows'[s].intent = rows[s].intent
  <1>1. WInv /\ [Next]_vars => [Rise]_rows
    <2> SUFFICES ASSUME WInv, Next, rows' # rows PROVE Rise
      BY SMTT(30) DEF vars, tables
    <2> USE DEF world, tables, memory, faults
    <2>1. PICK l \in Loops : Write(l)
      BY ZenonT(40) DEF Next, CreateIntent, CloseIntent, Land, Finalize, Drop, Refresh,
             ListActiveReferences, StoreReferences, Poll, StartPoll, PollReference,
             PromoteUnfinalized, Disconnect, Process, Fetch, Match, Resolve, Error, Crash
    <2>2. /\ job[l] \in Job /\ job[l].sig \in Sigs
          /\ rows \in [Sigs -> Row] /\ job[l].id \in Intents \cup {None}
      BY SMTT(30), <2>1, WatcherAssumption DEF WInv, TypeOK, Write, JobOK, Job
    <2>3. rows' = [rows EXCEPT ![job[l].sig] = Upserted(job[l].sig, Commitment(l), job[l].id)]
      BY Zenon, <2>1 DEF Write
    <2>4. Commitment(l) \in {"confirmed", "finalized"}
      BY Zenon DEF Commitment
    <2>5. rows[job[l].sig].commitment = "none" => rows[job[l].sig].intent = None
      BY Zenon, <2>2 DEF WInv, RowOK
    <2> QED BY SMTT(30), <2>2, <2>3, <2>4, <2>5, UpsertedRises
  <1>2. RowsOnlyRise <=> [][Rise]_rows
    BY Zenon DEF RowsOnlyRise
  <1> QED BY <1>1, <1>2, Invariance, PTL DEF Spec

=============================================================================
