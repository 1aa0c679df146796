----------------------------- MODULE MCWatcher -----------------------------
(* Instances of Watcher for TLC. *)
EXTENDS WatcherInv, TLC

CONSTANTS i1, s1, s2, s3

\* s1 is a deposit for an intent, s2 one without a reference, and s3 mentions
\* the intent's reference without being a deposit.
RefAll == s1 :> i1 @@ s2 :> None @@ s3 :> i1
RefOther == s1 :> i1 @@ s2 :> None
RefSame == s1 :> i1 @@ s3 :> i1
=============================================================================
