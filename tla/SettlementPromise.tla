-------------------------- MODULE SettlementPromise --------------------------
(***************************************************************************)
(* What settlement promises the merchant and the books, without workers,   *)
(* leases, transactions or retries: the effects of an intent become        *)
(* visible in one order and none is ever taken back.                       *)
(***************************************************************************)
CONSTANT Intents

VARIABLES
  credited,   \* the deposit is credited in the ledger
  disbursed,  \* the bank has paid the merchant
  confirmed,  \* selatpay has recorded that payout as succeeded
  booked,     \* both legs of the payout are in the ledger
  announced   \* an intent.completed event is in the outbox

vars == <<credited, disbursed, confirmed, booked, announced>>

Init ==
  /\ credited = {} /\ disbursed = {} /\ confirmed = {}
  /\ booked = {} /\ announced = {}

Credit(i) ==
  /\ credited' = credited \cup {i}
  /\ UNCHANGED <<disbursed, confirmed, booked, announced>>

Disburse(i) ==
  /\ i \in credited
  /\ disbursed' = disbursed \cup {i}
  /\ UNCHANGED <<credited, confirmed, booked, announced>>

Confirm(i) ==
  /\ i \in disbursed
  /\ confirmed' = confirmed \cup {i}
  /\ UNCHANGED <<credited, disbursed, booked, announced>>

Book(i) ==
  /\ i \in confirmed
  /\ booked' = booked \cup {i}
  /\ UNCHANGED <<credited, disbursed, confirmed, announced>>

Announce(i) ==
  /\ i \in booked
  /\ announced' = announced \cup {i}
  /\ UNCHANGED <<credited, disbursed, confirmed, booked>>

Next ==
  \E i \in Intents : Credit(i) \/ Disburse(i) \/ Confirm(i) \/ Book(i) \/ Announce(i)

Spec == Init /\ [][Next]_vars

=============================================================================
