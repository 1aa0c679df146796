--------------------------- MODULE PaymentIntents ---------------------------
(***************************************************************************)
(* The HTTP API of payment intents: HMAC authentication, the idempotency   *)
(* middleware with its Postgres store and Redis cache, and the two         *)
(* handlers.  Every database statement and every Redis call is a step, so  *)
(* that requests sharing an Idempotency-Key or an external_ref interleave. *)
(* A client's retry is another request with the same content.              *)
(*                                                                         *)
(* An intent, its quote and its Solana Pay reference are named by the      *)
(* request that made them.  A body is what HashRequest tells apart.        *)
(***************************************************************************)
EXTENDS Naturals

CONSTANTS
    Requests,    \* requests the server receives
    Posts,       \* contents a POST may have: [api, key, ref, amt]
    MerchantOf,  \* active API keys and the merchants they belong to
    NoKey,       \* no Idempotency-Key header
    None

VARIABLES
    pc,       \* where each request is
    call,     \* its content
    answer,   \* what was handed to its response writer
    held,     \* the record its next Redis SET carries
    seen,     \* history: the key's stored record when the request arrived
    intents,  \* payment_intents rows
    quotes,   \* quotes rows
    stored,   \* idempotency_keys rows
    cache     \* Redis

vars == <<pc, call, answer, held, seen, intents, quotes, stored, cache>>

Merchants == {MerchantOf[a] : a \in DOMAIN MerchantOf}
IdemKeys  == {p.key : p \in Posts} \ {NoKey}
Slots     == Merchants \X IdemKeys
Bodies    == {<<p.ref, p.amt>> : p \in Posts}
Gets      == [api : {p.api : p \in Posts}, id : Requests]
Calls     == Posts \cup Gets

Answers == [status : {200, 201, 400, 401, 404, 409, 500},
            intent : Requests \cup {None}, replay : BOOLEAN]
Records == [body : Bodies, status : {200, 201, 400},
            intent : Requests \cup {None}]
Intents == [id : Requests, m : Merchants,
            ref : {p.ref : p \in Posts}, amt : {p.amt : p \in Posts}]

ASSUME PostsAssumption ==
    /\ Posts \cap Gets = {}
    /\ None \notin Requests \cup Posts \cup Gets \cup Records \cup Answers
    /\ \A p \in Posts : p = [api |-> p.api, key |-> p.key,
                             ref |-> p.ref, amt |-> p.amt]
    /\ \A p \in Posts : p.amt \in Nat

TypeOK ==
    /\ pc \in [Requests -> {"idle", "auth", "cached", "stored", "warm", "lookup",
                            "quote", "insert", "put", "read", "done", "lost"}]
    /\ call \in [Requests -> Calls \cup {None}]
    /\ answer \in [Requests -> Answers \cup {None}]
    /\ held \in [Requests -> Records \cup {None}]
    /\ seen \in [Requests -> Records \cup {None}]
    /\ intents \subseteq Intents
    /\ quotes \subseteq Requests
    /\ stored \in [Slots -> Records \cup {None}]
    /\ cache \in [Slots -> Records \cup {None}]

Init ==
    /\ pc = [r \in Requests |-> "idle"]
    /\ call = [r \in Requests |-> None]
    /\ answer = [r \in Requests |-> None]
    /\ held = [r \in Requests |-> None]
    /\ seen = [r \in Requests |-> None]
    /\ intents = {}
    /\ quotes = {}
    /\ stored = [s \in Slots |-> None]
    /\ cache = [s \in Slots |-> None]

-----------------------------------------------------------------------------
Merchant(r)  == MerchantOf[call[r].api]
Body(r)      == <<call[r].ref, call[r].amt>>
Keyed(r)     == call[r].key # NoKey
KeyActive(r) == call[r].api \in DOMAIN MerchantOf

\* The primary key of idempotency_keys, and cacheKey: per merchant.
Slot(r) == <<Merchant(r), call[r].key>>

Answer(s, i) == [status |-> s, intent |-> i, replay |-> FALSE]

Goto(r, l) == pc' = [pc EXCEPT ![r] = l]

\* The request ends with this answer, outside the handler.
Finish(r, a) ==
    /\ answer' = [answer EXCEPT ![r] = a]
    /\ Goto(r, "done")

\* Mutant of Respond: server errors are kept too.
RespondKeepsErrors(r, a) ==
    /\ answer' = [answer EXCEPT ![r] = a]
    /\ Goto(r, IF Keyed(r) THEN "put" ELSE "done")

\* The handler answers.  The middleware keeps what a keyed request was told,
\* unless it was a server error.
Respond(r, a) ==
    /\ answer' = [answer EXCEPT ![r] = a]
    /\ Goto(r, IF Keyed(r) /\ a.status < 500 THEN "put" ELSE "done")

\* Mutant of Judge: the body's hash is not compared.
JudgeAnyBody(r, rec) ==
    [status |-> rec.status, intent |-> rec.intent, replay |-> TRUE]

\* The middleware found a record for the key: replay it, or refuse the key.
Judge(r, rec) ==
    IF rec.body # Body(r)
    THEN Answer(409, None)
    ELSE [status |-> rec.status, intent |-> rec.intent, replay |-> TRUE]

\* What Put writes for the answer the capture writer holds.
RecordOf(r) == [body |-> Body(r), status |-> answer[r].status,
                intent |-> answer[r].intent]

\* validateCreateRequest: a positive amount stands for a valid request.
Valid(r) == call[r].amt > 0

ForRef(r) == {i \in intents : i.m = Merchant(r) /\ i.ref = call[r].ref}

ById(r) == {i \in intents : i.id = call[r].id}

CreateQuote(r) == quotes' = quotes \cup {r}

NewIntent(r) == [id |-> r, m |-> Merchant(r),
                 ref |-> call[r].ref, amt |-> call[r].amt]

-----------------------------------------------------------------------------
Arrive(r) ==
    /\ pc[r] = "idle"
    /\ \E c \in Calls :
          /\ call' = [call EXCEPT ![r] = c]
          /\ seen' = [seen EXCEPT ![r] =
                        IF /\ c \in Posts
                           /\ c.key # NoKey
                           /\ c.api \in DOMAIN MerchantOf
                        THEN stored[<<MerchantOf[c.api], c.key>>]
                        ELSE None]
    /\ Goto(r, "auth")
    /\ UNCHANGED <<answer, held, intents, quotes, stored, cache>>

\* auth.Middleware.  A timestamp outside the window, an unknown or revoked key
\* and a failed lookup are all 401.  Only POST goes on to the idempotency
\* middleware, and only with a key.
Authenticate(r) ==
    /\ pc[r] = "auth"
    /\ \/ Finish(r, Answer(401, None))
       \/ /\ KeyActive(r)
          /\ Goto(r, IF call[r] \in Gets THEN "read"
                     ELSE IF Keyed(r) THEN "cached" ELSE "lookup")
          /\ UNCHANGED answer
    /\ UNCHANGED <<call, held, seen, intents, quotes, stored, cache>>

\* CachedStore.Get, Redis half: a miss, an error and an undecodable value all
\* fall through to Postgres.
CacheGet(r) ==
    /\ pc[r] = "cached"
    /\ \/ /\ cache[Slot(r)] # None
          /\ Finish(r, Judge(r, cache[Slot(r)]))
       \/ /\ Goto(r, "stored")
          /\ UNCHANGED answer
    /\ UNCHANGED <<call, held, seen, intents, quotes, stored, cache>>

\* Mutant of StoreGet: an error is taken for a missing row.
StoreGetFallsThrough(r) ==
    /\ pc[r] = "stored"
    /\ \/ /\ stored[Slot(r)] # None
          /\ held' = [held EXCEPT ![r] = stored[Slot(r)]]
          /\ Goto(r, "warm")
          /\ UNCHANGED answer
       \/ /\ Goto(r, "lookup")
          /\ UNCHANGED <<answer, held>>
    /\ UNCHANGED <<call, seen, intents, quotes, stored, cache>>

\* PGStore.Get: a row is carried to the cache first, no row runs the handler,
\* an error ends the request.
StoreGet(r) ==
    /\ pc[r] = "stored"
    /\ \/ /\ stored[Slot(r)] # None
          /\ held' = [held EXCEPT ![r] = stored[Slot(r)]]
          /\ Goto(r, "warm")
          /\ UNCHANGED answer
       \/ /\ stored[Slot(r)] = None
          /\ Goto(r, "lookup")
          /\ UNCHANGED <<answer, held>>
       \/ /\ Finish(r, Answer(500, None))
          /\ UNCHANGED held
    /\ UNCHANGED <<call, seen, intents, quotes, stored, cache>>

\* CachedStore.warm, best effort; then the answer, if none was given yet.
Warm(r) ==
    /\ pc[r] = "warm"
    /\ cache' \in {cache, [cache EXCEPT ![Slot(r)] = held[r]]}
    /\ IF answer[r] = None
       THEN Finish(r, Judge(r, held[r]))
       ELSE Goto(r, "done") /\ UNCHANGED answer
    /\ UNCHANGED <<call, held, seen, intents, quotes, stored>>

\* CreatePaymentIntent: validation, then the lookup by external_ref.
LookupRef(r) ==
    /\ pc[r] = "lookup"
    /\ \/ ~Valid(r) /\ Respond(r, Answer(400, None))
       \/ /\ Valid(r)
          /\ \/ \E i \in ForRef(r) : Respond(r, Answer(200, i.id))
             \/ ForRef(r) = {} /\ Goto(r, "quote") /\ UNCHANGED answer
             \/ Respond(r, Answer(500, None))
    /\ UNCHANGED <<call, held, seen, intents, quotes, stored, cache>>

\* Quoter.Issue inserts the quote in a statement of its own; an insert that
\* fails may have committed without an acknowledgement.
IssueQuote(r) ==
    /\ pc[r] = "quote"
    /\ \/ /\ CreateQuote(r)
          /\ Goto(r, "insert")
          /\ UNCHANGED answer
       \/ /\ CreateQuote(r) \/ UNCHANGED quotes
          /\ Respond(r, Answer(500, None))
    /\ UNCHANGED <<call, held, seen, intents, stored, cache>>

\* The intent's INSERT under UNIQUE (merchant_id, external_ref); after it the
\* quote is read back, and that statement may fail too.
InsertIntent(r) ==
    /\ pc[r] = "insert"
    /\ \/ /\ ForRef(r) = {}
          /\ intents' = intents \cup {NewIntent(r)}
          /\ \/ Respond(r, Answer(201, r))
             \/ Respond(r, Answer(500, None))
       \/ /\ Respond(r, Answer(500, None))
          /\ UNCHANGED intents
    /\ UNCHANGED <<call, held, seen, quotes, stored, cache>>

\* The row INSERT ON CONFLICT DO NOTHING leaves for the request's key.
Winner(r) == IF stored[Slot(r)] = None THEN RecordOf(r) ELSE stored[Slot(r)]
Kept(r)   == [stored EXCEPT ![Slot(r)] = Winner(r)]

\* Mutant of Put: a loser of the race warms the cache with its own record.
PutWarmsOwn(r) ==
    /\ pc[r] = "put"
    /\ stored' = Kept(r)
    /\ held' = [held EXCEPT ![r] = RecordOf(r)]
    /\ Goto(r, "warm")
    /\ UNCHANGED <<call, answer, seen, intents, quotes, cache>>

\* PGStore.Put answers the winner's row, and that is what CachedStore.Put
\* warms.  An error may have committed.
Put(r) ==
    /\ pc[r] = "put"
    /\ \/ /\ stored' = Kept(r)
          /\ held' = [held EXCEPT ![r] = Winner(r)]
          /\ Goto(r, "warm")
       \/ /\ stored' \in {stored, Kept(r)}
          /\ Goto(r, "done")
          /\ UNCHANGED held
    /\ UNCHANGED <<call, answer, seen, intents, quotes, cache>>

\* Mutant of ReadIntent: the owner is not compared.
ReadIntentOfAnyone(r) ==
    /\ pc[r] = "read"
    /\ \E i \in ById(r) : Finish(r, Answer(200, i.id))
    /\ UNCHANGED <<call, held, seen, intents, quotes, stored, cache>>

\* GetPaymentIntent: another merchant's intent is as absent as a missing one.
ReadIntent(r) ==
    /\ pc[r] = "read"
    /\ LET mine == {i \in ById(r) : i.m = Merchant(r)}
       IN  \/ \E i \in mine : Finish(r, Answer(200, i.id))
           \/ mine = {} /\ Finish(r, Answer(404, None))
           \/ Finish(r, Answer(500, None))
    /\ UNCHANGED <<call, held, seen, intents, quotes, stored, cache>>

-----------------------------------------------------------------------------
\* The process dies with the request, wherever it is.
Crash(r) ==
    /\ pc[r] \notin {"idle", "done", "lost"}
    /\ Goto(r, "lost")
    /\ UNCHANGED <<call, answer, held, seen, intents, quotes, stored, cache>>

\* Redis drops a key: its TTL ran out, or it was evicted.
Expire(s) ==
    /\ cache[s] # None
    /\ cache' = [cache EXCEPT ![s] = None]
    /\ UNCHANGED <<pc, call, answer, held, seen, intents, quotes, stored>>

Step(r) ==
    \/ Authenticate(r) \/ CacheGet(r) \/ StoreGet(r) \/ Warm(r) \/ LookupRef(r)
    \/ IssueQuote(r) \/ InsertIntent(r) \/ Put(r) \/ ReadIntent(r)

Next ==
    \/ \E r \in Requests : Arrive(r) \/ Step(r) \/ Crash(r)
    \/ \E s \in Slots : Expire(s)

Spec == Init /\ [][Next]_vars

-----------------------------------------------------------------------------
Succeeded(r) == answer[r] # None /\ answer[r].status \in {200, 201}
Keys(r)      == call[r] \in Posts /\ Keyed(r)

\* However requests for one external_ref interleave, with or without an
\* Idempotency-Key, every one that is answered with success names the same
\* intent: CreatePaymentIntent's lookup, its INSERT and the replays agree.
RepliesAgree ==
    \A r, q \in Requests :
        /\ Succeeded(r) /\ Succeeded(q)
        /\ call[r] \in Posts /\ call[q] \in Posts
        /\ Merchant(r) = Merchant(q) /\ call[r].ref = call[q].ref
        => answer[r].intent = answer[q].intent

\* What Middleware.Handler replays was once the handler's own answer to a
\* request of the same merchant with the same key and body, even when the
\* record came through Redis, was written by a loser of the race for the key,
\* or its writer died before the client could read it.
ReplaysAreOriginals ==
    \A r \in Requests :
        answer[r] # None /\ answer[r].replay =>
            \E q \in Requests :
                /\ answer[q] = Answer(answer[r].status, answer[r].intent)
                /\ Keys(q) /\ Merchant(q) = Merchant(r)
                /\ call[q].key = call[r].key /\ Body(q) = Body(r)

\* CachedStore never serves what Postgres does not hold: whoever warms Redis,
\* a reader or a writer that lost the race, it warms the winner's row.
CacheIsStored == \A s \in Slots : cache[s] # None => cache[s] = stored[s]

\* A request that arrives after its key was recorded runs no side effect: it
\* is replayed, refused for a different body, or fails, and no quote or intent
\* is made for it.
SeenKeyIsHonoured ==
    \A r \in Requests :
        seen[r] # None =>
            /\ r \notin quotes
            /\ answer[r] # None =>
                  answer[r] \in {Judge(r, seen[r]), Answer(401, None), Answer(500, None)}

\* ADR-0005: "A different request body under the same key must return an
\* error."  Middleware.Handler claims no key before it runs the handler, so two
\* requests in flight together can both succeed.
DifferentBodyRefused ==
    \A r, q \in Requests :
        Keys(r) /\ Keys(q) /\ Succeeded(r) /\ Succeeded(q) /\ Slot(r) = Slot(q)
            => Body(r) = Body(q)

\* The API implements PaymentIntentsPromise: made is the intents table, told
\* and shown what the response writers of the two handlers were handed.
Made  == {[m |-> i.m, ref |-> i.ref, id |-> i.id] : i \in intents}
Told  == {[m |-> Merchant(r), ref |-> call[r].ref, id |-> answer[r].intent] :
             r \in {q \in Requests : Succeeded(q) /\ call[q] \in Posts}}
Shown == {[m |-> Merchant(r), id |-> answer[r].intent] :
             r \in {q \in Requests : Succeeded(q) /\ call[q] \in Gets}}

Promise == INSTANCE PaymentIntentsPromise WITH
    Refs  <- {p.ref : p \in Posts},
    Ids   <- Requests,
    made  <- Made,
    told  <- Told,
    shown <- Shown

KeepsPromise == Promise!Spec
=============================================================================
