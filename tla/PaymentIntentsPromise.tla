------------------------ MODULE PaymentIntentsPromise ------------------------
(***************************************************************************)
(* What the payment-intent API promises its merchants, whatever retries,   *)
(* races, cache states and crashes it goes through: a merchant's           *)
(* external_ref names at most one intent, that intent stays, every answer  *)
(* to a create call for it names that intent, and a merchant is shown      *)
(* their own intents only.                                                 *)
(***************************************************************************)
CONSTANTS Merchants, Refs, Ids

VARIABLES
    made,  \* intents that exist: [m, ref, id]
    told,  \* what create calls were answered: [m, ref, id]
    shown  \* what reads were answered: [m, id]

pvars == <<made, told, shown>>

Init == made = {} /\ told = {} /\ shown = {}

Create(x) ==
    /\ \A y \in made : <<y.m, y.ref>> # <<x.m, x.ref>>
    /\ made' = made \cup {x}

Tell(x) == told' = told \cup {x}

Show(x) == shown' = shown \cup {[m |-> x.m, id |-> x.id]}

\* A create call makes an intent and tells of it, makes one and its answer is
\* lost, or tells of one that is there.
Next ==
    \/ \E x \in [m : Merchants, ref : Refs, id : Ids] :
          /\ Create(x)
          /\ Tell(x) \/ UNCHANGED told
          /\ UNCHANGED shown
    \/ \E x \in made : Tell(x) /\ UNCHANGED <<made, shown>>
    \/ \E x \in made : Show(x) /\ UNCHANGED <<made, told>>

Spec == Init /\ [][Next]_pvars
=============================================================================
