------------------------------ MODULE Watcher ------------------------------
(***************************************************************************)
(* The chain watcher (internal/chain): it records deposits to the hot      *)
(* wallet in onchain_payments, links each one to the payment intent whose  *)
(* reference key the transaction mentions, raises its commitment, and      *)
(* enqueues the settlement saga in the transaction that makes a linked     *)
(* deposit final.                                                          *)
(*                                                                         *)
(* Three loops call ProcessSignature at the same time: the log             *)
(* subscription, the poller of known references and the promoter of        *)
(* unfinalized rows.  A call is split where another loop can get between:  *)
(* the RPC fetch, the two separate reads of the reference map, the         *)
(* database transaction.  The transaction first locks the row it upserts   *)
(* and reads nothing else, so it is one action.                            *)
(*                                                                         *)
(* Each intent has one reference key, so a reference is named by its       *)
(* intent.  Batches are sets: the order inside one does not matter.        *)
(***************************************************************************)
EXTENDS Integers, FiniteSets

CONSTANTS
  Intents,           \* payment intents
  Sigs,              \* transactions on the chain, by signature
  None,              \* no intent
  Ref,               \* the reference a transaction mentions, or None
  Transfers,         \* transactions that pass every check of ProcessSignature
  PollLimit,         \* WatcherConfig.PollLimit
  PromoteBatchSize,  \* WatcherConfig.PromoteBatchSize
  MaxErrors,         \* bound: RPC and SQL errors
  MaxCrashes,        \* bound: restarts of the watcher
  MaxDrops           \* bound: confirmed transactions the cluster drops

ASSUME WatcherAssumption ==
  /\ IsFiniteSet(Sigs)
  /\ None \notin Intents
  /\ Ref \in [Sigs -> Intents \cup {None}]
  /\ Transfers \subseteq Sigs
  /\ PollLimit \in Nat \ {0}
  /\ PromoteBatchSize \in Nat \ {0}
  /\ MaxErrors \in Nat
  /\ MaxCrashes \in Nat
  /\ MaxDrops \in Nat

VARIABLES
  chain,     \* how far the cluster has taken each transaction
  landed,    \* its rank among the landed ones that mention the same reference
  active,    \* payment_intents as ListActiveReferenceIntents sees them
  rows,      \* onchain_payments: commitment and intent_id
  made,      \* created_at of each row, as a rank
  saga,      \* intents with a saga_runs row
  refs,      \* Watcher.refs
  listed,    \* what RefreshReferences has read and not yet stored
  pollrefs,  \* references the poller still has to ask for
  todo,      \* signatures each loop still has to process
  job,       \* the ProcessSignature call of each loop
  errors, crashes, drops   \* faults spent so far

world == <<chain, landed, active>>
tables == <<rows, made, saga>>
memory == <<refs, listed, pollrefs, todo, job>>
faults == <<errors, crashes, drops>>
vars == <<world, tables, memory, faults>>

-----------------------------------------------------------------------------

Loops == {"subscribe", "poll", "promote"}

\* Mutant: a confirmed row is stored under the default of commitmentToDB.
CommitmentUnmapped(l) == IF l = "promote" THEN "finalized" ELSE "processed"

\* What each loop asks the RPC node for.
Commitment(l) == IF l = "promote" THEN "finalized" ELSE "confirmed"

\* Mutant: the promoter takes a transaction that is only confirmed.
ReachedConfirmed(s, commitment) == chain[s] \in {"confirmed", "finalized"}

\* GetTransaction finds a transaction that is at least that far.
Reached(s, commitment) ==
  chain[s] \in IF commitment = "finalized" THEN {"finalized"} ELSE {"confirmed", "finalized"}

NoRow == [commitment |-> "none", intent |-> None]
NoJob == [at |-> "idle", sig |-> None, hit |-> None, id |-> None]
NotListed == [read |-> "no", refs |-> {}]

Recorded == {s \in Sigs : rows[s].commitment # "none"}

Init ==
  /\ chain = [s \in Sigs |-> "absent"]
  /\ landed = [s \in Sigs |-> 0]
  /\ active = [i \in Intents |-> "none"]
  /\ rows = [s \in Sigs |-> NoRow]
  /\ made = [s \in Sigs |-> 0]
  /\ saga = {}
  /\ refs = {} /\ listed = NotListed
  /\ pollrefs = {}
  /\ todo = [l \in Loops |-> {}]
  /\ job = [l \in Loops |-> NoJob]
  /\ errors = 0 /\ crashes = 0 /\ drops = 0

-----------------------------------------------------------------------------
(* The world: the API, the cluster and the saga.                           *)

\* CreatePaymentIntent inserts the intent with its reference key.
CreateIntent(i) ==
  /\ active[i] = "none"
  /\ active' = [active EXCEPT ![i] = "active"]
  /\ UNCHANGED <<chain, landed, tables, memory, faults>>

\* trigger_payout commits: the intent is settling, no longer pending or funded.
CloseIntent(i) ==
  /\ active[i] = "active"
  /\ i \in saga
  /\ active' = [active EXCEPT ![i] = "closed"]
  /\ UNCHANGED <<chain, landed, tables, memory, faults>>

\* A transaction is confirmed.  A payer has the reference from the intent's
\* payment URL.  The subscription delivers the message or misses it.
Land(s) ==
  /\ chain[s] = "absent"
  /\ Ref[s] # None => active[Ref[s]] # "none"
  /\ chain' = [chain EXCEPT ![s] = "confirmed"]
  /\ landed' = [landed EXCEPT ![s] =
       Cardinality({t \in Sigs : Ref[t] = Ref[s] /\ chain[t] # "absent"}) + 1]
  /\ \/ s \in Transfers /\ todo' = [todo EXCEPT !["subscribe"] = @ \cup {s}]
     \/ UNCHANGED todo
  /\ UNCHANGED <<active, tables, refs, listed, pollrefs, job, faults>>

Finalize(s) ==
  /\ chain[s] = "confirmed"
  /\ chain' = [chain EXCEPT ![s] = "finalized"]
  /\ UNCHANGED <<landed, active, tables, memory, faults>>

\* The fork a confirmed transaction was on is abandoned.
Drop(s) ==
  /\ chain[s] = "confirmed"
  /\ drops < MaxDrops
  /\ drops' = drops + 1
  /\ chain' = [chain EXCEPT ![s] = "dropped"]
  /\ UNCHANGED <<landed, active, tables, memory, errors, crashes>>

-----------------------------------------------------------------------------
(* The reference map.                                                      *)

ListActiveReferences ==
  /\ listed.read = "no"
  /\ listed' = [read |-> "yes", refs |-> {i \in Intents : active[i] = "active"}]
  /\ UNCHANGED <<world, tables, refs, pollrefs, todo, job, faults>>

StoreReferences ==
  /\ listed.read = "yes"
  /\ refs' = listed.refs
  /\ listed' = NotListed
  /\ UNCHANGED <<world, tables, pollrefs, todo, job, faults>>

-----------------------------------------------------------------------------
(* Where the loops get their signatures.                                   *)

Resting(l) == job[l].at = "idle" /\ todo[l] = {}

\* PollReferences takes the references known now.
StartPoll ==
  /\ Resting("poll")
  /\ pollrefs = {}
  /\ refs # {}
  /\ pollrefs' = refs
  /\ UNCHANGED <<world, tables, refs, listed, todo, job, faults>>

\* The newest PollLimit confirmed transactions that mention a reference, the
\* ones that failed or are no deposit among them: the RPC node counts them all.
Newest(i) ==
  LET S == {s \in Sigs : Ref[s] = i /\ Reached(s, "confirmed")}
  IN  {s \in S : Cardinality({t \in S : landed[t] > landed[s]}) < PollLimit}

PollReference(i) ==
  /\ Resting("poll")
  /\ i \in pollrefs
  /\ pollrefs' = pollrefs \ {i}
  /\ todo' = [todo EXCEPT !["poll"] = Newest(i)]
  /\ UNCHANGED <<world, tables, refs, listed, job, faults>>

\* ListUnfinalizedOnchainPayments: the oldest PromoteBatchSize rows.
NextBatch ==
  LET S == {s \in Recorded : rows[s].commitment # "finalized"}
  IN  {s \in S : Cardinality({t \in S : made[t] < made[s]}) < PromoteBatchSize}

PromoteUnfinalized ==
  /\ Resting("promote")
  /\ NextBatch # {}
  /\ todo' = [todo EXCEPT !["promote"] = NextBatch]
  /\ UNCHANGED <<world, tables, refs, listed, pollrefs, job, faults>>

\* The log subscription breaks: what it had not handed over is gone.
Disconnect ==
  /\ job["subscribe"].at = "idle"
  /\ todo["subscribe"] # {}
  /\ todo' = [todo EXCEPT !["subscribe"] = {}]
  /\ UNCHANGED <<world, tables, refs, listed, pollrefs, job, faults>>

-----------------------------------------------------------------------------
(* ProcessSignature.                                                       *)

\* GetTransaction and every check up to the reference match.  A transaction
\* that is not found, or is not a transfer to the hot wallet, ends the call.
Fetch(l, s) ==
  /\ job[l].at = "idle"
  /\ s \in todo[l]
  /\ todo' = [todo EXCEPT ![l] = @ \ {s}]
  /\ job' = IF Reached(s, Commitment(l)) /\ s \in Transfers
            THEN [job EXCEPT ![l] = [NoJob EXCEPT !.at = "match", !.sig = s]]
            ELSE job
  /\ UNCHANGED <<world, tables, refs, listed, pollrefs, faults>>

\* Mutant: any known reference will do.
MatchAny(l) ==
  /\ job[l].at = "match"
  /\ job' \in {[job EXCEPT ![l] = [@ EXCEPT !.at = "resolve", !.hit = i]] : i \in refs}
  /\ UNCHANGED <<world, tables, refs, listed, pollrefs, todo, faults>>

\* matchReference copies the keys of refs and searches the transaction.
Match(l) ==
  /\ job[l].at = "match"
  /\ job' = [job EXCEPT ![l] =
               IF Ref[job[l].sig] \in refs
               THEN [@ EXCEPT !.at = "resolve", !.hit = Ref[job[l].sig]]
               ELSE [@ EXCEPT !.at = "write"]]
  /\ UNCHANGED <<world, tables, refs, listed, pollrefs, todo, faults>>

\* It looks the hit up in refs again, after releasing the lock in between; a
\* reference that is gone by now yields the nil intent.
Resolve(l) ==
  /\ job[l].at = "resolve"
  /\ job' = [job EXCEPT ![l] =
               [@ EXCEPT !.at = "write",
                         !.id = IF job[l].hit \in refs THEN job[l].hit ELSE None]]
  /\ UNCHANGED <<world, tables, refs, listed, pollrefs, todo, faults>>

\* Mutant: the row takes what the last call says.
UpsertedLast(s, commitment, id) == [commitment |-> commitment, intent |-> id]

\* Mutant: a row keeps the intent it was inserted with.
UpsertedUnlinked(s, commitment, id) ==
  IF rows[s].commitment = "none" THEN [commitment |-> commitment, intent |-> id]
  ELSE [commitment |-> IF rows[s].commitment = "finalized" THEN "finalized" ELSE commitment,
        intent |-> rows[s].intent]

\* UpsertOnchainPayment: the commitment only rises, and an intent once set
\* stays.
Upserted(s, commitment, id) ==
  IF rows[s].commitment = "none" THEN [commitment |-> commitment, intent |-> id]
  ELSE [commitment |-> IF rows[s].commitment = "finalized" THEN "finalized" ELSE commitment,
        intent |-> IF rows[s].intent # None THEN rows[s].intent ELSE id]

\* Mutant: only the call that brings the final commitment enqueues.
EnqueuesOnCommitment(l, row) == Commitment(l) = "finalized" /\ row.intent # None

\* Mutant: a linked deposit enqueues at once.
EnqueuesOnLink(l, row) == row.intent # None

\* The upserted row, not the call, decides.
Enqueues(l, row) == row.commitment = "finalized" /\ row.intent # None

\* The database transaction: upsert, enqueue, commit.
Write(l) ==
  LET s == job[l].sig
      row == Upserted(s, Commitment(l), job[l].id)
  IN  /\ job[l].at = "write"
      /\ rows' = [rows EXCEPT ![s] = row]
      /\ made' = IF s \in Recorded THEN made
                 ELSE [made EXCEPT ![s] = Cardinality(Recorded) + 1]
      /\ saga' = IF Enqueues(l, row) THEN saga \cup {row.intent} ELSE saga
      /\ job' = [job EXCEPT ![l] = NoJob]
      /\ UNCHANGED <<world, refs, listed, pollrefs, todo, faults>>

\* An RPC or SQL error ends the call; the loop logs it and goes on.  While
\* the poller asks for signatures it skips one reference.
Error(l) ==
  /\ errors < MaxErrors
  /\ errors' = errors + 1
  /\ \/ job[l].at # "idle" /\ job' = [job EXCEPT ![l] = NoJob] /\ UNCHANGED <<todo, pollrefs>>
     \/ /\ job[l].at = "idle"
        /\ \E s \in todo[l] : todo' = [todo EXCEPT ![l] = @ \ {s}]
        /\ UNCHANGED <<job, pollrefs>>
     \/ /\ l = "poll" /\ Resting("poll")
        /\ \E i \in pollrefs : pollrefs' = pollrefs \ {i}
        /\ UNCHANGED <<job, todo>>
  /\ UNCHANGED <<world, tables, refs, listed, crashes, drops>>

\* The process dies and restarts with an empty reference map; Run's first
\* refresh may fail.
Crash ==
  /\ crashes < MaxCrashes
  /\ crashes' = crashes + 1
  /\ refs' = {} /\ listed' = NotListed
  /\ pollrefs' = {}
  /\ todo' = [l \in Loops |-> {}]
  /\ job' = [l \in Loops |-> NoJob]
  /\ UNCHANGED <<world, tables, errors, drops>>

-----------------------------------------------------------------------------

Process(l) == (\E s \in Sigs : Fetch(l, s)) \/ Match(l) \/ Resolve(l) \/ Write(l)

Refresh == ListActiveReferences \/ StoreReferences

Poll == StartPoll \/ \E i \in Intents : PollReference(i)

Next ==
  \/ \E i \in Intents : CreateIntent(i) \/ CloseIntent(i)
  \/ \E s \in Sigs : Land(s) \/ Finalize(s) \/ Drop(s)
  \/ Refresh
  \/ Poll
  \/ PromoteUnfinalized
  \/ Disconnect
  \/ \E l \in Loops : Process(l) \/ Error(l)
  \/ Crash

Spec == Init /\ [][Next]_vars

\* The tickers fire, the RPC node and Postgres answer the poller and the
\* promoter, and the cluster decides on the deposits it has confirmed.  The
\* subscription promises nothing, and neither do payers.
Fairness ==
  /\ \A s \in Transfers : WF_vars(Finalize(s) \/ Drop(s))
  /\ WF_vars(Refresh)
  /\ WF_vars(Poll)
  /\ WF_vars(PromoteUnfinalized)
  /\ \A l \in {"poll", "promote"} : WF_vars(Process(l))

FairSpec == Spec /\ Fairness

-----------------------------------------------------------------------------
(* Properties.                                                             *)

Row == [commitment: {"none", "confirmed", "finalized"}, intent: Intents \cup {None}]
Job == [at: {"idle", "match", "resolve", "write"}, sig: Sigs \cup {None},
        hit: Intents \cup {None}, id: Intents \cup {None}]

\* Tables and the watcher's memory keep the shape of the schema and the Go
\* types, and no fault budget is overdrawn.
TypeOK ==
  /\ chain \in [Sigs -> {"absent", "confirmed", "finalized", "dropped"}]
  /\ landed \in [Sigs -> Nat]
  /\ active \in [Intents -> {"none", "active", "closed"}]
  /\ rows \in [Sigs -> Row]
  /\ made \in [Sigs -> Nat]
  /\ saga \subseteq Intents
  /\ refs \subseteq Intents
  /\ listed \in [read: {"yes", "no"}, refs: SUBSET Intents]
  /\ pollrefs \subseteq Intents
  /\ todo \in [Loops -> SUBSET Sigs]
  /\ job \in [Loops -> Job]
  /\ errors \in 0..MaxErrors /\ crashes \in 0..MaxCrashes /\ drops \in 0..MaxDrops

\* "There is no observable state where onchain_payments shows finalized but
\* no saga exists": whichever loop finalizes a row or links a finalized one,
\* the saga is enqueued with it.
FinalizedHasSaga ==
  \A s \in Sigs :
    rows[s].commitment = "finalized" /\ rows[s].intent # None => rows[s].intent \in saga

\* A saga is enqueued only for a deposit that the cluster has finalized, and
\* that credit_deposit finds by the intent: never for a transaction that was
\* only confirmed, was dropped, or pays for another intent.
SagaHasFinalDeposit ==
  \A i \in saga :
    \E s \in Transfers :
      /\ chain[s] = "finalized" /\ Ref[s] = i
      /\ rows[s] = [commitment |-> "finalized", intent |-> i]

\* Whatever the reference map holds when a call matches, and whichever call
\* comes first, a deposit is never linked to an intent whose reference its
\* transaction does not mention.
LinksAreTrue ==
  \A s \in Sigs : rows[s].intent \in {None, Ref[s]}

\* Late and repeated calls of any loop never lower a commitment and never
\* take away or change a link.
RowsOnlyRise ==
  [][\A s \in Sigs :
       /\ rows[s].commitment = "finalized" => rows'[s].commitment = "finalized"
       /\ rows[s].commitment = "confirmed" => rows'[s].commitment # "none"
       /\ rows[s].intent # None => rows'[s].intent = rows[s].intent]_rows

\* A final deposit for an open intent leads to a saga, whichever messages,
\* calls or processes are lost, as long as the losses end.
DepositLeadsToSaga ==
  \A s \in Transfers :
    Ref[s] # None =>
      (chain[s] = "finalized" /\ active[Ref[s]] = "active" ~> Ref[s] \in saga)

\* "If the WS stream drops a message, or if we were offline when the payer
\* sent, the poller will still catch the signature": a final deposit for an
\* intent that stays open is recorded.
PollerCatches ==
  \A s \in Transfers :
    Ref[s] # None =>
      (chain[s] = "finalized" /\ active[Ref[s]] = "active"
         ~> s \in Recorded \/ active[Ref[s]] # "active")

\* Newer transactions that mention the deposit's reference and are no deposits
\* themselves fill the list the poller gets.
Crowded(s) ==
  Cardinality({t \in Sigs \ Transfers :
                 Ref[t] = Ref[s] /\ Reached(t, "confirmed") /\ landed[t] > landed[s]}) >= PollLimit

\* The two limits are all that stands between a final deposit for an open
\* intent and its saga: it gets one unless the rows of dropped transactions
\* fill a promotion batch, which lists the oldest unfinalized rows and never
\* gives up on one, or other transactions crowd it out of the poller's list;
\* errors, restarts and lost messages only delay it.
SagaUnlessStarved ==
  \A s \in Transfers :
    Ref[s] # None =>
      (chain[s] = "finalized" /\ active[Ref[s]] = "active"
         ~> Ref[s] \in saga \/ drops >= PromoteBatchSize \/ Crowded(s))

=============================================================================
