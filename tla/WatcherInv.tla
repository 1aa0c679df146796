---------------------------- MODULE WatcherInv ----------------------------
(***************************************************************************)
(* The inductive invariant behind the safety properties of Watcher: what a *)
(* row says about the chain, and what a ProcessSignature call may rely on  *)
(* when it writes, however long ago it fetched and matched.                *)
(***************************************************************************)
EXTENDS Watcher

RowOK(s) ==
  /\ rows[s].commitment = "finalized" => s \in Transfers /\ chain[s] = "finalized"
  /\ rows[s].intent \in {None, Ref[s]}
  /\ rows[s].commitment = "none" => rows[s].intent = None

JobOK(l) ==
  job[l].at # "idle" =>
    /\ job[l].sig \in Transfers
    /\ l = "promote" => chain[job[l].sig] = "finalized"
    /\ job[l].hit \in {None, Ref[job[l].sig]}
    /\ job[l].id \in {None, Ref[job[l].sig]}

\* Init implies it, every step of Next keeps it, and it contains
\* FinalizedHasSaga and SagaHasFinalDeposit and implies LinksAreTrue.
WInv ==
  /\ TypeOK
  /\ \A s \in Sigs : RowOK(s)
  /\ \A l \in Loops : JobOK(l)
  /\ FinalizedHasSaga
  /\ SagaHasFinalDeposit

=============================================================================
