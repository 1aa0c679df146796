-------------------------- MODULE PaymentIntentsInv --------------------------
(***************************************************************************)
(* The inductive invariant behind the theorems about PaymentIntents.       *)
(***************************************************************************)
EXTENDS PaymentIntents

\* What the stage a request is at says of it.
StageOK(r) ==
    /\ pc[r] = "idle" => call[r] = None /\ r \notin quotes
    /\ pc[r] # "idle" => call[r] \in Calls
    /\ pc[r] \in {"idle", "auth", "cached", "stored", "lookup", "quote", "insert", "read"}
          => answer[r] = None
    /\ pc[r] \in {"cached", "stored", "warm", "put"} => Keys(r) /\ KeyActive(r)
    /\ pc[r] \in {"lookup", "quote", "insert"} => call[r] \in Posts /\ KeyActive(r)
    /\ pc[r] = "read" => call[r] \in Gets /\ KeyActive(r)
    /\ pc[r] = "warm" => held[r] # None
    /\ pc[r] = "put" => /\ answer[r] # None
                        /\ ~answer[r].replay
                        /\ answer[r].status \in {200, 201, 400}

\* A successful answer names a row of the caller.
NamesRow(r) ==
    Succeeded(r) =>
        /\ KeyActive(r)
        /\ call[r] \in Calls
        /\ \E i \in intents :
              /\ i.id = answer[r].intent
              /\ i.m = Merchant(r)
              /\ call[r] \in Posts => i.ref = call[r].ref

\* The request whose answer a record is.
Origin(q, s, rec) ==
    /\ Keys(q) /\ KeyActive(q) /\ Slot(q) = s
    /\ Body(q) = rec.body
    /\ answer[q] = Answer(rec.status, rec.intent)

ReplayHasOrigin(r) ==
    answer[r] # None /\ answer[r].replay =>
        /\ Keys(r) /\ KeyActive(r)
        /\ \E q \in Requests :
              Origin(q, Slot(r), [body |-> Body(r), status |-> answer[r].status,
                                  intent |-> answer[r].intent])

HeldIsStored(r) ==
    held[r] # None => Keys(r) /\ KeyActive(r) /\ held[r] = stored[Slot(r)]

\* What a request found recorded when it arrived is still recorded and decides
\* its answer.
SeenIsStored(r) ==
    seen[r] # None =>
        /\ Keys(r) /\ KeyActive(r) /\ seen[r] = stored[Slot(r)]
        /\ answer[r] # None =>
              answer[r] \in {Judge(r, seen[r]), Answer(401, None), Answer(500, None)}

\* It keeps the request away from the handler.
SeenIsBarred(r) ==
    seen[r] # None =>
        /\ pc[r] \in {"auth", "cached", "stored", "warm", "done", "lost"}
        /\ r \notin quotes

RequestOK(r) ==
    /\ StageOK(r) /\ NamesRow(r) /\ ReplayHasOrigin(r)
    /\ HeldIsStored(r) /\ SeenIsStored(r) /\ SeenIsBarred(r)

\* UNIQUE (merchant_id, external_ref).
RowsUnique == \A i, j \in intents : i.m = j.m /\ i.ref = j.ref => i = j

StoredHasOrigin ==
    \A s \in Slots : stored[s] # None => \E q \in Requests : Origin(q, s, stored[s])

PInv ==
    /\ TypeOK
    /\ \A r \in Requests : RequestOK(r)
    /\ RowsUnique
    /\ StoredHasOrigin
    /\ CacheIsStored
=============================================================================
