------------------------ MODULE PaymentIntentsProofs ------------------------
(***************************************************************************)
(* Proofs that PInv is an invariant of PaymentIntents, of the properties   *)
(* that follow from it, and that the API implements PaymentIntentsPromise, *)
(* for any number of requests, merchants, keys and bodies.                 *)
(***************************************************************************)
EXTENDS PaymentIntentsInv, TLAPS

\* No record, answer, request or call is None.
LEMMA NotNone ==
  /\ None \notin Requests /\ None \notin Calls /\ None \notin Records /\ None \notin Answers
  BY Zenon, PostsAssumption DEF Calls

\* An answer of the handlers, and what a reader of it finds.
LEMMA AnswerType ==
  ASSUME NEW s \in {200, 201, 400, 401, 404, 409, 500}, NEW i \in Requests \cup {None}
  PROVE  /\ Answer(s, i) \in Answers
         /\ Answer(s, i).status = s /\ Answer(s, i).intent = i /\ ~Answer(s, i).replay
  BY DEF Answer, Answers

\* What the middleware answers from a record.
LEMMA JudgeType ==
  ASSUME NEW r \in Requests, NEW rec \in Records
  PROVE  /\ Judge(r, rec) \in Answers
         /\ \/ /\ rec.body # Body(r) /\ Judge(r, rec) = Answer(409, None)
            \/ /\ rec.body = Body(r)
               /\ Judge(r, rec).replay
               /\ Judge(r, rec).status = rec.status /\ Judge(r, rec).intent = rec.intent
  <1>1. CASE rec.body # Body(r)
    <2>1. Judge(r, rec) = Answer(409, None)
      BY Zenon, <1>1 DEF Judge
    <2> QED BY <1>1, <2>1, AnswerType
  <1>2. CASE rec.body = Body(r)
    <2>1. Judge(r, rec) = [status |-> rec.status, intent |-> rec.intent, replay |-> TRUE]
      BY Zenon, <1>2 DEF Judge
    <2>2. rec.status \in {200, 201, 400} /\ rec.intent \in Requests \cup {None}
      BY DEF Records
    <2> QED BY <1>2, <2>1, <2>2 DEF Answers
  <1> QED BY Zenon, <1>1, <1>2

\* A keyed request of an active API key has a slot and a body.
LEMMA SlotType ==
  ASSUME NEW r \in Requests, Keys(r), KeyActive(r)
  PROVE  Slot(r) \in Slots /\ Body(r) \in Bodies /\ Merchant(r) \in Merchants
  <1>1. Merchant(r) \in Merchants
    BY Zenon DEF Merchant, Merchants, KeyActive
  <1>2. call[r].key \in IdemKeys
    BY Zenon DEF Keys, Keyed, IdemKeys
  <1>3. Body(r) \in Bodies
    BY Zenon DEF Keys, Body, Bodies
  <1> QED BY Zenon, <1>1, <1>2, <1>3 DEF Slot, Slots

\* An answer that is a record's, from the record.
LEMMA RecordType ==
  ASSUME NEW r \in Requests, Keys(r), KeyActive(r), answer[r] \in Answers,
         ~answer[r].replay, answer[r].status \in {200, 201, 400}
  PROVE  /\ RecordOf(r) \in Records
         /\ Origin(r, Slot(r), RecordOf(r))
  <1>1. /\ RecordOf(r).body = Body(r) /\ RecordOf(r).status = answer[r].status
        /\ RecordOf(r).intent = answer[r].intent
    BY DEF RecordOf
  <1>2. Body(r) \in Bodies /\ answer[r].intent \in Requests \cup {None}
    BY SlotType DEF Answers
  <1>3. RecordOf(r) \in Records
    BY <1>2 DEF RecordOf, Records
  <1>4. answer[r] = Answer(answer[r].status, answer[r].intent)
    BY ZenonT(40) DEF Answer, Answers
  <1> QED BY Zenon, <1>1, <1>3, <1>4 DEF Origin

-----------------------------------------------------------------------------
\* A request keeps its key, its merchant and its body.
LEMMA SameCall ==
  ASSUME NEW r, call'[r] = call[r]
  PROVE  /\ Keys(r)' <=> Keys(r)
         /\ KeyActive(r)' <=> KeyActive(r)
         /\ Slot(r)' = Slot(r) /\ Body(r)' = Body(r) /\ Merchant(r)' = Merchant(r)
  BY Zenon DEF Keys, Keyed, KeyActive, Slot, Merchant, Body

\* A step of one request leaves the others where they are, takes back no
\* answer, and lets the tables grow.
OthersStay(r) ==
    \A q \in Requests : q # r =>
        /\ pc'[q] = pc[q] /\ call'[q] = call[q] /\ answer'[q] = answer[q]
        /\ held'[q] = held[q] /\ seen'[q] = seen[q]

AnswerStands(r) == answer[r] # None => answer'[r] = answer[r] /\ call'[r] = call[r]

TablesGrow(r) ==
    /\ intents \subseteq intents'
    /\ \A s \in Slots : stored[s] # None => stored'[s] = stored[s]
    /\ quotes' \subseteq quotes \cup {r}

\* A record's origin was answered.
LEMMA OriginAnswered ==
  ASSUME TypeOK, NEW q \in Requests, NEW s, NEW rec, Origin(q, s, rec),
         rec.status \in {200, 201, 400, 401, 404, 409, 500}, rec.intent \in Requests \cup {None}
  PROVE  answer[q] # None
  <1>1. answer[q] = Answer(rec.status, rec.intent)
    BY Zenon DEF Origin
  <1>2. Answer(rec.status, rec.intent) \in Answers
    BY AnswerType
  <1> QED BY ZenonT(40), <1>1, <1>2, NotNone

\* What holds of a request's answer does so while the request keeps it.
LEMMA AnswerStays ==
  ASSUME PInv, NEW q \in Requests,
         call'[q] = call[q], answer'[q] = answer[q], seen'[q] = seen[q],
         \A p \in Requests : answer[p] # None => answer'[p] = answer[p] /\ call'[p] = call[p],
         intents \subseteq intents',
         \A s \in Slots : stored[s] # None => stored'[s] = stored[s]
  PROVE  NamesRow(q)' /\ ReplayHasOrigin(q)' /\ SeenIsStored(q)'
  <1>1. RequestOK(q) /\ TypeOK
    BY Zenon DEF PInv
  <1>2. /\ Keys(q)' <=> Keys(q)
        /\ KeyActive(q)' <=> KeyActive(q)
        /\ Slot(q)' = Slot(q) /\ Body(q)' = Body(q) /\ Merchant(q)' = Merchant(q)
    BY Zenon, SameCall
  <1>3. NamesRow(q)'
    <2>1. SUFFICES ASSUME Succeeded(q) PROVE NamesRow(q)'
      BY Zenon DEF NamesRow, Succeeded
    <2>2. KeyActive(q) /\ call[q] \in Calls
      BY Zenon, <1>1, <2>1 DEF RequestOK, NamesRow
    <2>3. PICK i \in intents : /\ i.id = answer[q].intent /\ i.m = Merchant(q)
                               /\ call[q] \in Posts => i.ref = call[q].ref
      BY Zenon, <1>1, <2>1 DEF RequestOK, NamesRow
    <2>4. i \in intents' /\ i.m = Merchant(q)' /\ i.id = answer'[q].intent
      BY Zenon, <1>2, <2>3
    <2> QED BY Zenon, <1>2, <2>2, <2>3, <2>4 DEF NamesRow
  <1>4. ReplayHasOrigin(q)'
    <2>1. SUFFICES ASSUME answer[q] # None, answer[q].replay
                   PROVE  ReplayHasOrigin(q)'
      BY Zenon DEF ReplayHasOrigin
    <2> DEFINE rec == [body |-> Body(q), status |-> answer[q].status, intent |-> answer[q].intent]
    <2>2. PICK p \in Requests : Origin(p, Slot(q), rec)
      BY Zenon, <1>1, <2>1 DEF RequestOK, ReplayHasOrigin
    <2>3. rec.status = answer[q].status /\ rec.intent = answer[q].intent /\ answer[q] \in Answers
      BY <1>1, <2>1 DEF TypeOK
    <2>4. rec.status \in {200, 201, 400, 401, 404, 409, 500} /\ rec.intent \in Requests \cup {None}
      BY <2>3 DEF Answers
    <2>5. answer[p] # None
      <3> HIDE DEF rec
      <3> QED BY <1>1, <2>2, <2>4, OriginAnswered
    <2>6. call'[p] = call[p] /\ answer'[p] = answer[p]
      BY Zenon, <2>5
    <2>7. Origin(p, Slot(q), rec)'
      BY Zenon, <1>2, <2>2, <2>6 DEF Origin, Keys, Keyed, KeyActive, Slot, Merchant, Body, Answer
    <2> QED BY Zenon, <1>1, <1>2, <2>1, <2>7 DEF RequestOK, ReplayHasOrigin
  <1>5. SeenIsStored(q)'
    <2>1. SUFFICES ASSUME seen[q] # None PROVE SeenIsStored(q)'
      BY Zenon DEF SeenIsStored
    <2>2. /\ Keys(q) /\ KeyActive(q) /\ seen[q] = stored[Slot(q)]
          /\ answer[q] # None =>
                answer[q] \in {Judge(q, seen[q]), Answer(401, None), Answer(500, None)}
      BY Zenon, <1>1, <2>1 DEF RequestOK, SeenIsStored
    <2>3. stored'[Slot(q)] = stored[Slot(q)]
      BY Zenon, <2>1, <2>2, SlotType
    <2>4. Judge(q, seen[q])' = Judge(q, seen[q])
      BY Zenon, <1>2 DEF Judge, Answer
    <2>5. answer'[q] # None =>
             answer'[q] \in {Judge(q, seen[q])', Answer(401, None), Answer(500, None)}
      BY <2>2, <2>4
    <2>6. (Keys(q) /\ KeyActive(q) /\ seen[q] = stored[Slot(q)])'
      BY ZenonT(40), <1>2, <2>2, <2>3
    <2> QED BY Zenon, <2>5, <2>6 DEF SeenIsStored
  <1> QED BY Zenon, <1>3, <1>4, <1>5

\* What holds of a request does so while others move.
LEMMA OthersOK ==
  ASSUME PInv, NEW q \in Requests,
         pc'[q] = pc[q], call'[q] = call[q], answer'[q] = answer[q],
         held'[q] = held[q], seen'[q] = seen[q], q \notin quotes => q \notin quotes',
         \A p \in Requests : answer[p] # None => answer'[p] = answer[p] /\ call'[p] = call[p],
         intents \subseteq intents',
         \A s \in Slots : stored[s] # None => stored'[s] = stored[s]
  PROVE  RequestOK(q)'
  <1>1. RequestOK(q) /\ TypeOK
    BY Zenon DEF PInv
  <1>2. /\ Keys(q)' <=> Keys(q)
        /\ KeyActive(q)' <=> KeyActive(q)
        /\ Slot(q)' = Slot(q)
    BY Zenon, SameCall
  <1>3. StageOK(q)'
    <2>1. StageOK(q)
      BY Zenon, <1>1 DEF RequestOK
    <2> QED BY <1>2, <2>1 DEF StageOK
  <1>4. NamesRow(q)' /\ ReplayHasOrigin(q)' /\ SeenIsStored(q)'
    BY Zenon, AnswerStays
  <1>5. HeldIsStored(q)'
    BY Zenon, <1>1, <1>2, SlotType DEF RequestOK, HeldIsStored
  <1>6. SeenIsBarred(q)'
    BY Zenon, <1>1 DEF RequestOK, SeenIsBarred
  <1> QED BY Zenon, <1>3, <1>4, <1>5, <1>6 DEF RequestOK

\* The records keep their origins.
LEMMA OriginsStay ==
  ASSUME PInv, NEW r \in Requests, OthersStay(r), AnswerStands(r), stored' = stored
  PROVE  StoredHasOrigin'
  <1> SUFFICES ASSUME NEW s \in Slots, stored[s] # None
               PROVE  \E q \in Requests : Origin(q, s, stored[s])'
    BY Zenon DEF StoredHasOrigin
  <1>1. PICK q \in Requests : Origin(q, s, stored[s])
    BY Zenon DEF PInv, StoredHasOrigin
  <1>2. stored[s] \in Records
    BY Zenon DEF PInv, TypeOK
  <1>3. stored[s].status \in {200, 201, 400} /\ stored[s].intent \in Requests \cup {None}
    BY <1>2 DEF Records
  <1>4. answer[q] # None
    BY <1>1, <1>3, OriginAnswered DEF PInv
  <1>5. call'[q] = call[q] /\ answer'[q] = answer[q]
    BY Zenon, <1>4 DEF OthersStay, AnswerStands
  <1> QED BY Zenon, <1>1, <1>5 DEF Origin, Keys, Keyed, KeyActive, Slot, Merchant, Body, Answer

\* A step of one request keeps the invariant if it keeps what concerns that
\* request and the tables.
LEMMA Assemble ==
  ASSUME PInv, NEW r \in Requests, OthersStay(r), AnswerStands(r), TablesGrow(r),
         TypeOK', RequestOK(r)', RowsUnique', StoredHasOrigin', CacheIsStored'
  PROVE  PInv'
  <1>1. ASSUME NEW q \in Requests, q # r PROVE RequestOK(q)'
    <2>1. \A p \in Requests : answer[p] # None => answer'[p] = answer[p] /\ call'[p] = call[p]
      BY Zenon DEF OthersStay, AnswerStands
    <2>2. /\ pc'[q] = pc[q] /\ call'[q] = call[q] /\ answer'[q] = answer[q]
          /\ held'[q] = held[q] /\ seen'[q] = seen[q]
      BY Zenon, <1>1 DEF OthersStay
    <2>3. /\ intents \subseteq intents' /\ (q \notin quotes => q \notin quotes')
          /\ \A s \in Slots : stored[s] # None => stored'[s] = stored[s]
      BY Zenon, <1>1 DEF TablesGrow
    <2> QED BY Zenon, <2>1, <2>2, <2>3, OthersOK
  <1> QED BY Zenon, <1>1 DEF PInv

-----------------------------------------------------------------------------
\* A column changed for one request.
LEMMA Changed ==
  ASSUME NEW S, NEW T, NEW f \in [S -> T], NEW r \in S, NEW v \in T,
         NEW g, g = [f EXCEPT ![r] = v]
  PROVE  g \in [S -> T] /\ g[r] = v /\ \A q \in S : q # r => g[q] = f[q]
  OBVIOUS

Labels == {"idle", "auth", "cached", "stored", "warm", "lookup",
           "quote", "insert", "put", "read", "done", "lost"}

\* The request goes to a stage.
LEMMA GotoFacts ==
  ASSUME TypeOK, NEW r \in Requests, NEW l \in Labels, Goto(r, l)
  PROVE  /\ pc' \in [Requests -> Labels] /\ pc'[r] = l
         /\ \A q \in Requests : q # r => pc'[q] = pc[q]
  <1>1. pc \in [Requests -> Labels] /\ pc' = [pc EXCEPT ![r] = l]
    BY Zenon DEF Goto, TypeOK, Labels
  <1> QED BY <1>1

\* The request is answered.
Says(r, a) == answer' = [answer EXCEPT ![r] = a]

\* The others' answers stay.
LEMMA AnswerFacts ==
  ASSUME TypeOK, NEW r \in Requests, NEW a \in Answers, Says(r, a)
  PROVE  /\ answer' \in [Requests -> Answers \cup {None}] /\ answer'[r] = a
         /\ \A q \in Requests : q # r => answer'[q] = answer[q]
  <1>1. answer \in [Requests -> Answers \cup {None}]
    BY Zenon DEF TypeOK
  <1> QED BY <1>1, Changed DEF Says

\* A success names a row of the caller, a replay repeats a record, what is kept
\* may be kept, and a request that found a record heeds it.
NamesOwn(r, a) ==
    a.status \in {200, 201} =>
        /\ KeyActive(r)
        /\ \E i \in intents' : /\ i.id = a.intent /\ i.m = Merchant(r)
                               /\ call[r] \in Posts => i.ref = call[r].ref

Repeats(r, a) ==
    a.replay =>
        /\ Keys(r) /\ KeyActive(r)
        /\ \E q \in Requests :
              Origin(q, Slot(r), [body |-> Body(r), status |-> a.status, intent |-> a.intent])

Keepable(r, a) ==
    pc'[r] = "put" => Keys(r) /\ KeyActive(r) /\ ~a.replay /\ a.status \in {200, 201, 400}

Heeds(r, a) ==
    seen[r] # None =>
        /\ pc'[r] = "done" /\ r \notin quotes'
        /\ a \in {Judge(r, seen[r]), Answer(401, None), Answer(500, None)}

\* A request that is answered is as it should be.
LEMMA AnsweredOK ==
  ASSUME PInv, NEW r \in Requests, OthersStay(r), TablesGrow(r),
         pc[r] # "idle", answer[r] = None,
         call'[r] = call[r], seen'[r] = seen[r], held'[r] = held[r],
         pc'[r] \in {"done", "put"},
         NEW a \in Answers, answer'[r] = a,
         NamesOwn(r, a), Repeats(r, a), Keepable(r, a), Heeds(r, a)
  PROVE  RequestOK(r)'
  <1>1. RequestOK(r) /\ TypeOK /\ a # None
    BY Zenon, NotNone DEF PInv
  <1>2. /\ Keys(r)' <=> Keys(r)
        /\ KeyActive(r)' <=> KeyActive(r)
        /\ Slot(r)' = Slot(r) /\ Body(r)' = Body(r) /\ Merchant(r)' = Merchant(r)
    BY Zenon, SameCall
  <1>3. call[r] \in Calls
    BY Zenon, <1>1 DEF RequestOK, StageOK
  <1>4. StageOK(r)'
    <2>1. pc'[r] # "idle" /\ pc'[r] # "warm" /\ pc'[r] # "read"
          /\ pc'[r] \notin {"idle", "auth", "cached", "stored", "lookup", "quote", "insert", "read"}
          /\ pc'[r] \notin {"lookup", "quote", "insert"}
          /\ pc'[r] \in {"cached", "stored", "warm", "put"} => pc'[r] = "put"
      OBVIOUS
    <2> QED BY ZenonT(40), <1>1, <1>2, <1>3, <2>1 DEF StageOK, Keepable
  <1>5. NamesRow(r)'
    <2>1. SUFFICES ASSUME a.status \in {200, 201} PROVE NamesRow(r)'
      BY Zenon DEF NamesRow, Succeeded
    <2>2. PICK i \in intents' : /\ i.id = a.intent /\ i.m = Merchant(r)
                                /\ call[r] \in Posts => i.ref = call[r].ref
      BY Zenon, <2>1 DEF NamesOwn
    <2>3. KeyActive(r)
      BY Zenon, <2>1 DEF NamesOwn
    <2> QED BY Zenon, <1>2, <1>3, <2>2, <2>3 DEF NamesRow
  <1>6. ReplayHasOrigin(r)'
    <2>1. SUFFICES ASSUME a.replay
                   PROVE  /\ (Keys(r) /\ KeyActive(r))'
                          /\ \E q \in Requests :
                               Origin(q, Slot(r), [body |-> Body(r), status |-> answer[r].status,
                                                   intent |-> answer[r].intent])'
      BY Zenon DEF ReplayHasOrigin
    <2> DEFINE rec == [body |-> Body(r), status |-> a.status, intent |-> a.intent]
    <2>2. PICK q \in Requests : Origin(q, Slot(r), rec)
      BY Zenon, <2>1 DEF Repeats
    <2>3. rec.status = a.status /\ rec.intent = a.intent
      OBVIOUS
    <2>4. rec.status \in {200, 201, 400, 401, 404, 409, 500} /\ rec.intent \in Requests \cup {None}
      BY <2>3 DEF Answers
    <2>5. answer[q] # None
      <3> HIDE DEF rec
      <3> QED BY <1>1, <2>2, <2>4, OriginAnswered
    <2>6. call'[q] = call[q] /\ answer'[q] = answer[q]
      BY Zenon, <2>5 DEF OthersStay
    <2>7. Origin(q, Slot(r), [body |-> Body(r), status |-> answer[r].status,
                              intent |-> answer[r].intent])'
      BY Zenon, <1>2, <2>2, <2>6 DEF Origin, Keys, Keyed, KeyActive, Slot, Merchant, Body, Answer
    <2> QED BY Zenon, <1>2, <2>1, <2>7 DEF Repeats
  <1>7. HeldIsStored(r)'
    BY Zenon, <1>1, <1>2, SlotType DEF RequestOK, HeldIsStored, TablesGrow
  <1>8. SeenIsStored(r)'
    <2>1. SUFFICES ASSUME seen[r] # None PROVE SeenIsStored(r)'
      BY ZenonT(40) DEF SeenIsStored
    <2>2. Keys(r) /\ KeyActive(r) /\ seen[r] = stored[Slot(r)]
      BY Zenon, <1>1, <2>1 DEF RequestOK, SeenIsStored, SeenIsBarred
    <2>3. stored'[Slot(r)] = stored[Slot(r)]
      BY Zenon, <2>1, <2>2, SlotType DEF TablesGrow
    <2>4. Judge(r, seen[r])' = Judge(r, seen[r])
      BY ZenonT(40), <1>2 DEF Judge, Answer
    <2>5. (answer[r] # None =>
             answer[r] \in {Judge(r, seen[r]), Answer(401, None), Answer(500, None)})'
      <3>1. a \in {Judge(r, seen[r]), Answer(401, None), Answer(500, None)}
        BY Zenon, <2>1 DEF Heeds
      <3>2. answer'[r] \in {Judge(r, seen[r])', Answer(401, None), Answer(500, None)}
        BY <2>4, <3>1
      <3> QED BY Zenon, <3>2
    <2>6. (Keys(r) /\ KeyActive(r) /\ seen[r] = stored[Slot(r)])'
      BY Zenon, <1>2, <2>2, <2>3
    <2> QED BY Zenon, <2>5, <2>6 DEF SeenIsStored
  <1>9. SeenIsBarred(r)'
    BY Zenon DEF Heeds, SeenIsBarred
  <1> QED BY Zenon, <1>4, <1>5, <1>6, <1>7, <1>8, <1>9 DEF RequestOK

\* A request that goes on without an answer is as it should be.
LEMMA PassedOK ==
  ASSUME PInv, NEW r \in Requests, OthersStay(r), TablesGrow(r),
         pc[r] # "idle", answer[r] = None, answer'[r] = None,
         call'[r] = call[r], seen'[r] = seen[r],
         pc'[r] \in {"cached", "stored", "warm", "lookup", "quote", "insert", "read"},
         pc'[r] \in {"cached", "stored", "warm"} => Keys(r) /\ KeyActive(r),
         pc'[r] \in {"lookup", "quote", "insert"} => call[r] \in Posts /\ KeyActive(r),
         pc'[r] = "read" => call[r] \in Gets /\ KeyActive(r),
         pc'[r] = "warm" => held'[r] # None,
         held'[r] # None => Keys(r) /\ KeyActive(r) /\ held'[r] = stored'[Slot(r)],
         seen[r] # None => pc'[r] \in {"cached", "stored", "warm"} /\ r \notin quotes'
  PROVE  RequestOK(r)'
  <1>1. RequestOK(r)
    BY Zenon DEF PInv
  <1>2. /\ Keys(r)' <=> Keys(r)
        /\ KeyActive(r)' <=> KeyActive(r)
        /\ Slot(r)' = Slot(r)
    BY Zenon, SameCall
  <1>3. call[r] \in Calls
    BY Zenon, <1>1 DEF RequestOK, StageOK
  <1>4. StageOK(r)'
    <2>1. pc'[r] # "idle" /\ pc'[r] # "put"
          /\ pc'[r] \in {"cached", "stored", "warm", "put"} => pc'[r] \in {"cached", "stored", "warm"}
      OBVIOUS
    <2> QED BY Zenon, <1>2, <1>3, <2>1 DEF StageOK
  <1>5. NamesRow(r)' /\ ReplayHasOrigin(r)'
    BY Zenon DEF NamesRow, ReplayHasOrigin, Succeeded
  <1>6. HeldIsStored(r)'
    BY Zenon, <1>2 DEF HeldIsStored
  <1>7. SeenIsStored(r)'
    <2>1. SUFFICES ASSUME seen[r] # None PROVE SeenIsStored(r)'
      BY Zenon DEF SeenIsStored
    <2>2. Keys(r) /\ KeyActive(r) /\ seen[r] = stored[Slot(r)]
      BY Zenon, <1>1, <2>1 DEF RequestOK, SeenIsStored, SeenIsBarred
    <2>3. stored'[Slot(r)] = stored[Slot(r)]
      BY Zenon, <2>1, <2>2, SlotType DEF TablesGrow
    <2> QED BY Zenon, <1>2, <2>1, <2>2, <2>3 DEF SeenIsStored
  <1>8. SeenIsBarred(r)'
    BY Zenon DEF SeenIsBarred
  <1> QED BY Zenon, <1>4, <1>5, <1>6, <1>7, <1>8 DEF RequestOK

\* Refusals and failures name no row and repeat nothing.
LEMMA Plain ==
  ASSUME NEW r \in Requests, NEW s \in {400, 401, 404, 409, 500}
  PROVE  /\ Answer(s, None) \in Answers /\ ~Answer(s, None).replay
         /\ NamesOwn(r, Answer(s, None)) /\ Repeats(r, Answer(s, None))
  <1>1. /\ Answer(s, None) \in Answers /\ ~Answer(s, None).replay
        /\ Answer(s, None).status = s /\ s \notin {200, 201}
    BY AnswerType
  <1> QED BY ZenonT(40), <1>1 DEF NamesOwn, Repeats

\* What the middleware makes of a stored record.
LEMMA JudgeOK ==
  ASSUME PInv, NEW r \in Requests, Keys(r), KeyActive(r), stored[Slot(r)] # None,
         intents' = intents, NEW a, a = Judge(r, stored[Slot(r)])
  PROVE  /\ a \in Answers /\ NamesOwn(r, a) /\ Repeats(r, a)
         /\ seen[r] # None => a = Judge(r, seen[r])
  <1> DEFINE s == Slot(r)
             rec == stored[s]
  <1>1. TypeOK /\ s \in Slots /\ \A q \in Requests : RequestOK(q)
    BY Zenon, SlotType DEF PInv
  <1>2. rec \in Records
    BY Zenon, <1>1 DEF TypeOK
  <1>3. PICK q \in Requests : Origin(q, s, rec)
    BY Zenon, <1>1 DEF PInv, StoredHasOrigin
  <1>4. rec.status \in {200, 201, 400} /\ rec.intent \in Requests \cup {None}
    BY <1>2 DEF Records
  <1>5. seen[r] # None => a = Judge(r, seen[r])
    BY Zenon, <1>1 DEF RequestOK, SeenIsStored, SeenIsBarred
  <1> HIDE DEF rec
  <1>6. CASE rec.body # Body(r)
    <2>1. a = Answer(409, None)
      BY Zenon, <1>2, <1>6, JudgeType DEF rec
    <2> QED BY <1>5, <2>1, Plain
  <1>7. CASE rec.body = Body(r)
    <2>1. a \in Answers /\ a.replay /\ a.status = rec.status /\ a.intent = rec.intent
      BY Zenon, <1>2, <1>7, JudgeType DEF rec
    <2>2. /\ Keys(q) /\ KeyActive(q) /\ Slot(q) = Slot(r)
          /\ Body(q) = Body(r) /\ answer[q] = Answer(a.status, a.intent)
      BY Zenon, <1>3, <1>7, <2>1 DEF Origin
    <2>3. Repeats(r, a)
      <3> DEFINE copy == [body |-> Body(r), status |-> a.status, intent |-> a.intent]
      <3>1. copy.body = Body(r) /\ copy.status = a.status /\ copy.intent = a.intent
        OBVIOUS
      <3> HIDE DEF copy
      <3>2. Origin(q, Slot(r), copy)
        BY Zenon, <2>2, <3>1 DEF Origin
      <3> QED BY Zenon, <3>2 DEF Repeats, copy
    <2>4. NamesOwn(r, a)
      <3>1. SUFFICES ASSUME a.status \in {200, 201} PROVE NamesOwn(r, a)
        BY Zenon DEF NamesOwn
      <3>2. /\ answer[q] # None /\ answer[q].status = a.status /\ answer[q].intent = a.intent
        BY <1>4, <2>1, <2>2, AnswerType, NotNone
      <3>3. Succeeded(q)
        BY Zenon, <3>1, <3>2 DEF Succeeded
      <3>4. PICK i \in intents : /\ i.id = a.intent /\ i.m = Merchant(q)
                                 /\ call[q] \in Posts => i.ref = call[q].ref
        BY Zenon, <1>1, <3>2, <3>3 DEF RequestOK, NamesRow
      <3>5. Merchant(q) = Merchant(r) /\ call[q].ref = call[r].ref /\ call[q] \in Posts
        BY <2>2 DEF Slot, Body, Keys
      <3>6. i \in intents' /\ i.m = Merchant(r) /\ i.ref = call[r].ref
        BY <3>4, <3>5
      <3> QED BY Zenon, <3>4, <3>6 DEF NamesOwn
    <2> QED BY Zenon, <1>5, <2>1, <2>3, <2>4
  <1> QED BY Zenon, <1>6, <1>7

-----------------------------------------------------------------------------
\* The tables keep what they say of one another while they stay as they are.
LEMMA TablesStay ==
  ASSUME PInv, NEW r \in Requests, UNCHANGED <<intents, quotes, stored>>,
         OthersStay(r), AnswerStands(r)
  PROVE  TablesGrow(r) /\ RowsUnique' /\ StoredHasOrigin'
  <1>1. TablesGrow(r) /\ RowsUnique'
    BY Zenon DEF TablesGrow, PInv, RowsUnique
  <1> QED BY Zenon, <1>1, OriginsStay

\* A request arrives.
LEMMA ArriveKeeps ==
  ASSUME PInv, NEW r \in Requests, Arrive(r)
  PROVE  PInv'
  <1>1. PICK c \in Calls :
          /\ call' = [call EXCEPT ![r] = c]
          /\ seen' = [seen EXCEPT ![r] =
                        IF c \in Posts /\ c.key # NoKey /\ c.api \in DOMAIN MerchantOf
                        THEN stored[<<MerchantOf[c.api], c.key>>] ELSE None]
    BY Zenon DEF Arrive
  <1>2. pc[r] = "idle" /\ Goto(r, "auth") /\ UNCHANGED <<answer, held, intents, quotes, stored, cache>>
    BY Zenon DEF Arrive
  <1>3. TypeOK /\ RequestOK(r) /\ RowsUnique /\ StoredHasOrigin /\ CacheIsStored
    BY Zenon DEF PInv
  <1>4. call[r] = None /\ r \notin quotes /\ answer[r] = None
    BY Zenon, <1>2, <1>3 DEF RequestOK, StageOK
  <1>5. held[r] = None
    BY Zenon, <1>3, <1>4, NotNone DEF RequestOK, HeldIsStored, Keys, Calls
  <1>6. call' \in [Requests -> Calls \cup {None}] /\ call'[r] = c
        /\ \A q \in Requests : q # r => call'[q] = call[q]
    BY <1>1, <1>3 DEF TypeOK
  <1> DEFINE found == c \in Posts /\ c.key # NoKey /\ c.api \in DOMAIN MerchantOf
             v == IF found THEN stored[<<MerchantOf[c.api], c.key>>] ELSE None
  <1>7. found => Keys(r)' /\ KeyActive(r)' /\ Slot(r)' = <<MerchantOf[c.api], c.key>>
    BY Zenon, <1>6 DEF Keys, Keyed, KeyActive, Slot, Merchant
  <1>8. found => <<MerchantOf[c.api], c.key>> \in Slots
    BY Zenon DEF Slots, Merchants, IdemKeys
  <1>9. v \in Records \cup {None}
    BY Zenon, <1>3, <1>8 DEF TypeOK
  <1>10. seen' \in [Requests -> Records \cup {None}] /\ seen'[r] = v
         /\ \A q \in Requests : q # r => seen'[q] = seen[q]
    <2>1. seen' = [seen EXCEPT ![r] = v] /\ seen \in [Requests -> Records \cup {None}]
      BY Zenon, <1>1, <1>3 DEF TypeOK
    <2> HIDE DEF v
    <2> QED BY <1>9, <2>1
  <1>11. pc' \in [Requests -> Labels] /\ pc'[r] = "auth" /\ \A q \in Requests : q # r => pc'[q] = pc[q]
    BY Zenon, <1>2, <1>3, GotoFacts DEF Labels
  <1>12. TypeOK'
    BY Zenon, <1>2, <1>3, <1>6, <1>10, <1>11 DEF TypeOK, Labels
  <1>13. OthersStay(r) /\ AnswerStands(r)
    BY Zenon, <1>2, <1>4, <1>6, <1>10, <1>11 DEF OthersStay, AnswerStands
  <1>14. TablesGrow(r) /\ RowsUnique' /\ StoredHasOrigin' /\ CacheIsStored'
    BY Zenon, <1>2, <1>3, <1>13, TablesStay DEF CacheIsStored
  <1>15. RequestOK(r)'
    <2>1. StageOK(r)'
      BY Zenon, <1>2, <1>4, <1>6, <1>11 DEF StageOK
    <2>2. NamesRow(r)' /\ ReplayHasOrigin(r)' /\ HeldIsStored(r)'
      BY Zenon, <1>2, <1>4, <1>5 DEF NamesRow, Succeeded, ReplayHasOrigin, HeldIsStored
    <2>3. SeenIsStored(r)'
      <3>1. SUFFICES ASSUME seen'[r] # None PROVE SeenIsStored(r)'
        BY Zenon DEF SeenIsStored
      <3>2. found /\ seen'[r] = stored[<<MerchantOf[c.api], c.key>>]
        BY Zenon, <1>10, <3>1
      <3> QED BY Zenon, <1>2, <1>4, <1>7, <3>2 DEF SeenIsStored
    <2>4. SeenIsBarred(r)'
      BY Zenon, <1>2, <1>4, <1>11 DEF SeenIsBarred
    <2> QED BY Zenon, <2>1, <2>2, <2>3, <2>4 DEF RequestOK
  <1> QED BY Zenon, <1>12, <1>13, <1>14, <1>15, Assemble

\* The tables grow and keep what they say of one another.
TablesOK(r) ==
    /\ TablesGrow(r) /\ RowsUnique' /\ CacheIsStored'
    /\ intents' \subseteq Intents /\ quotes' \subseteq Requests
    /\ cache' \in [Slots -> Records \cup {None}]

\* The answer is one the request may be given on its way to l.
Fits(r, a, l) ==
    /\ a \in Answers /\ NamesOwn(r, a) /\ Repeats(r, a)
    /\ l \in {"done", "put"}
    /\ l = "put" => Keys(r) /\ KeyActive(r) /\ ~a.replay /\ a.status \in {200, 201, 400}
    /\ seen[r] # None =>
          /\ l = "done" /\ r \notin quotes'
          /\ a \in {Judge(r, seen[r]), Answer(401, None), Answer(500, None)}

\* The request is answered, or goes on, and nothing else happens.
LEMMA AnswerKeeps ==
  ASSUME PInv, NEW r \in Requests, pc[r] # "idle", answer[r] = None,
         NEW a, NEW l, Says(r, a), Goto(r, l), UNCHANGED <<call, held, seen, stored>>,
         TablesOK(r), Fits(r, a, l)
  PROVE  PInv'
  <1>1. TypeOK /\ l \in Labels /\ a \in Answers /\ l \in {"done", "put"} /\ TablesGrow(r)
    BY Zenon DEF PInv, Labels, Fits, TablesOK
  <1>2. pc' \in [Requests -> Labels] /\ pc'[r] = l /\ \A q \in Requests : q # r => pc'[q] = pc[q]
    BY Zenon, <1>1, GotoFacts
  <1>3. /\ answer' \in [Requests -> Answers \cup {None}] /\ answer'[r] = a
        /\ \A q \in Requests : q # r => answer'[q] = answer[q]
    BY Zenon, <1>1, AnswerFacts
  <1>4. TypeOK'
    BY Zenon, <1>1, <1>2, <1>3 DEF TypeOK, Labels, TablesOK
  <1>5. OthersStay(r) /\ AnswerStands(r)
    BY Zenon, <1>2, <1>3 DEF OthersStay, AnswerStands
  <1>6. Keepable(r, a) /\ Heeds(r, a)
    BY ZenonT(40), <1>2 DEF Keepable, Heeds, Fits
  <1>7. RequestOK(r)'
    BY Zenon, <1>1, <1>2, <1>3, <1>5, <1>6, AnsweredOK DEF Fits
  <1>8. StoredHasOrigin'
    BY Zenon, <1>5, OriginsStay
  <1> QED BY Zenon, <1>4, <1>5, <1>7, <1>8, Assemble DEF TablesOK

\* The request goes on, at most with a record to carry or a quote of its own.
LEMMA PassKeeps ==
  ASSUME PInv, NEW r \in Requests, pc[r] # "idle", answer[r] = None,
         NEW l \in {"cached", "stored", "warm", "lookup", "quote", "insert", "read"}, Goto(r, l),
         UNCHANGED <<call, answer, seen, intents, stored, cache>>,
         quotes' \subseteq quotes \cup {r},
         held' \in [Requests -> Records \cup {None}],
         \A q \in Requests : q # r => held'[q] = held[q],
         l \in {"cached", "stored", "warm"} => Keys(r) /\ KeyActive(r),
         l \in {"lookup", "quote", "insert"} => call[r] \in Posts /\ KeyActive(r),
         l = "read" => call[r] \in Gets /\ KeyActive(r),
         l = "warm" => held'[r] # None,
         held'[r] # None => Keys(r) /\ KeyActive(r) /\ held'[r] = stored[Slot(r)],
         seen[r] # None => l \in {"cached", "stored", "warm"} /\ r \notin quotes'
  PROVE  PInv'
  <1>1. TypeOK /\ RowsUnique /\ CacheIsStored
    BY Zenon DEF PInv
  <1>2. l \in Labels
    BY DEF Labels
  <1>3. pc' \in [Requests -> Labels] /\ pc'[r] = l /\ \A q \in Requests : q # r => pc'[q] = pc[q]
    BY Zenon, <1>1, <1>2, GotoFacts
  <1>4. quotes' \subseteq Requests
    BY Zenon, <1>1 DEF TypeOK
  <1>5. TypeOK'
    BY Zenon, <1>1, <1>3, <1>4 DEF TypeOK, Labels
  <1>6. OthersStay(r) /\ AnswerStands(r)
    BY Zenon, <1>3 DEF OthersStay, AnswerStands
  <1>7. TablesGrow(r)
    BY Zenon DEF TablesGrow
  <1>8. RowsUnique' /\ CacheIsStored'
    BY Zenon, <1>1 DEF RowsUnique, CacheIsStored
  <1>9. RequestOK(r)'
    <2>1. /\ pc'[r] \in {"cached", "stored", "warm", "lookup", "quote", "insert", "read"}
          /\ call'[r] = call[r] /\ seen'[r] = seen[r] /\ answer'[r] = None
          /\ held'[r] # None => Keys(r) /\ KeyActive(r) /\ held'[r] = stored'[Slot(r)]
      BY Zenon, <1>3
    <2> QED BY Zenon, <1>3, <1>6, <1>7, <2>1, PassedOK
  <1>10. StoredHasOrigin'
    BY Zenon, <1>6, OriginsStay
  <1> QED BY Zenon, <1>5, <1>6, <1>7, <1>8, <1>9, <1>10, Assemble

\* The tables as a step leaves them that does not write them.
LEMMA Quiet ==
  ASSUME PInv, NEW r \in Requests, UNCHANGED <<intents, quotes, stored, cache>>
  PROVE  TablesOK(r)
  BY Zenon DEF PInv, TablesOK, TablesGrow, RowsUnique, CacheIsStored, TypeOK

\* Refusals and failures fit a request that found no record, and 401 and 500
\* any other.
LEMMA FailureFits ==
  ASSUME NEW r \in Requests, NEW s \in {401, 404, 409, 500},
         seen[r] # None => s \in {401, 500} /\ r \notin quotes'
  PROVE  Fits(r, Answer(s, None), "done")
  <1> DEFINE a == Answer(s, None)
  <1>1. a \in Answers /\ NamesOwn(r, a) /\ Repeats(r, a)
    BY Plain
  <1>2. "done" \in {"done", "put"} /\ "done" # "put"
    BY Zenon
  <1>3. s \in {401, 500} => a = Answer(401, None) \/ a = Answer(500, None)
    OBVIOUS
  <1>4. seen[r] # None => /\ r \notin quotes'
                          /\ a \in {Judge(r, seen[r]), Answer(401, None), Answer(500, None)}
    BY ZenonT(40), <1>3
  <1> HIDE DEF a
  <1>5. Fits(r, a, "done")
    BY ZenonT(40), <1>1, <1>2, <1>4 DEF Fits
  <1> QED BY Zenon, <1>5 DEF a

\* Authentication.
LEMMA AuthenticateKeeps ==
  ASSUME PInv, NEW r \in Requests, Authenticate(r)
  PROVE  PInv'
  <1>1. pc[r] = "auth" /\ UNCHANGED <<call, held, seen, intents, quotes, stored, cache>>
    BY Zenon DEF Authenticate
  <1>2. TypeOK /\ RequestOK(r)
    BY Zenon DEF PInv
  <1>3. pc[r] # "idle" /\ answer[r] = None /\ call[r] \in Calls
    BY Zenon, <1>1, <1>2 DEF RequestOK, StageOK
  <1>4. seen[r] # None => r \notin quotes' /\ Keys(r)
    BY Zenon, <1>1, <1>2 DEF RequestOK, SeenIsStored, SeenIsBarred
  <1>5. CASE Finish(r, Answer(401, None))
    <2>1. Says(r, Answer(401, None)) /\ Goto(r, "done")
      BY Zenon, <1>5 DEF Finish, Says
    <2>2. Fits(r, Answer(401, None), "done")
      BY <1>4, FailureFits
    <2> QED BY Zenon, <1>1, <1>3, <2>1, <2>2, Quiet, AnswerKeeps
  <1>6. CASE /\ KeyActive(r) /\ UNCHANGED answer
             /\ Goto(r, IF call[r] \in Gets THEN "read" ELSE IF Keyed(r) THEN "cached" ELSE "lookup")
    <2>1. /\ held' \in [Requests -> Records \cup {None}]
          /\ \A q \in Requests : q # r => held'[q] = held[q]
          /\ held'[r] # None => Keys(r) /\ KeyActive(r) /\ held'[r] = stored[Slot(r)]
          /\ quotes' \subseteq quotes \cup {r}
      BY Zenon, <1>1, <1>2 DEF RequestOK, HeldIsStored, TypeOK
    <2>2. CASE call[r] \in Gets
      <3>1. Goto(r, "read") /\ ~Keys(r)
        BY Zenon, <1>6, <2>2, PostsAssumption DEF Keys
      <3> QED BY Zenon, <1>1, <1>3, <1>4, <1>6, <2>1, <2>2, <3>1, PassKeeps
    <2>3. CASE call[r] \in Posts /\ Keyed(r)
      <3>1. Goto(r, "cached") /\ Keys(r)
        BY Zenon, <1>6, <2>3, PostsAssumption DEF Keys
      <3> QED BY Zenon, <1>1, <1>3, <1>4, <1>6, <2>1, <2>3, <3>1, PassKeeps
    <2>4. CASE call[r] \in Posts /\ ~Keyed(r)
      <3>1. Goto(r, "lookup") /\ ~Keys(r)
        BY Zenon, <1>6, <2>4, PostsAssumption DEF Keys
      <3> QED BY Zenon, <1>1, <1>3, <1>4, <1>6, <2>1, <2>4, <3>1, PassKeeps
    <2> QED BY Zenon, <1>3, <2>2, <2>3, <2>4 DEF Calls
  <1> QED BY Zenon, <1>5, <1>6 DEF Authenticate

\* A lookup in Redis.
LEMMA CacheGetKeeps ==
  ASSUME PInv, NEW r \in Requests, CacheGet(r)
  PROVE  PInv'
  <1>1. pc[r] = "cached" /\ UNCHANGED <<call, held, seen, intents, quotes, stored, cache>>
    BY Zenon DEF CacheGet
  <1>2. TypeOK /\ RequestOK(r) /\ CacheIsStored
    BY Zenon DEF PInv
  <1>3. pc[r] # "idle" /\ answer[r] = None /\ Keys(r) /\ KeyActive(r)
    BY Zenon, <1>1, <1>2 DEF RequestOK, StageOK
  <1>4. seen[r] # None => r \notin quotes'
    BY Zenon, <1>1, <1>2 DEF RequestOK, SeenIsStored, SeenIsBarred
  <1>5. CASE cache[Slot(r)] # None /\ Finish(r, Judge(r, cache[Slot(r)]))
    <2>1. cache[Slot(r)] = stored[Slot(r)] /\ stored[Slot(r)] # None
      BY Zenon, <1>2, <1>3, <1>5, SlotType DEF CacheIsStored
    <2> DEFINE a == Judge(r, stored[Slot(r)])
    <2>2. Says(r, a) /\ Goto(r, "done")
      BY Zenon, <1>5, <2>1 DEF Finish, Says
    <2>3. a \in Answers /\ NamesOwn(r, a) /\ Repeats(r, a) /\ (seen[r] # None => a = Judge(r, seen[r]))
      BY Zenon, <1>1, <1>3, <2>1, JudgeOK
    <2> HIDE DEF a
    <2>4. Fits(r, a, "done")
      BY Zenon, <1>4, <2>3 DEF Fits
    <2> QED BY Zenon, <1>1, <1>3, <2>2, <2>4, Quiet, AnswerKeeps
  <1>6. CASE Goto(r, "stored") /\ UNCHANGED answer
    <2>1. /\ held' \in [Requests -> Records \cup {None}]
          /\ \A q \in Requests : q # r => held'[q] = held[q]
          /\ held'[r] # None => Keys(r) /\ KeyActive(r) /\ held'[r] = stored[Slot(r)]
          /\ quotes' \subseteq quotes \cup {r}
      BY Zenon, <1>1, <1>2 DEF RequestOK, HeldIsStored, TypeOK
    <2> QED BY Zenon, <1>1, <1>3, <1>4, <1>6, <2>1, PassKeeps
  <1> QED BY Zenon, <1>5, <1>6 DEF CacheGet

\* A lookup in Postgres.
LEMMA StoreGetKeeps ==
  ASSUME PInv, NEW r \in Requests, StoreGet(r)
  PROVE  PInv'
  <1>1. pc[r] = "stored" /\ UNCHANGED <<call, seen, intents, quotes, stored, cache>>
    BY Zenon DEF StoreGet
  <1>2. TypeOK /\ RequestOK(r)
    BY Zenon DEF PInv
  <1>3. pc[r] # "idle" /\ answer[r] = None /\ Keys(r) /\ KeyActive(r) /\ call[r] \in Posts
    BY Zenon, <1>1, <1>2 DEF RequestOK, StageOK, Keys
  <1>4. seen[r] # None => r \notin quotes' /\ stored[Slot(r)] # None
    BY Zenon, <1>1, <1>2 DEF RequestOK, SeenIsStored, SeenIsBarred
  <1>5. stored[Slot(r)] \in Records \cup {None} /\ quotes' \subseteq quotes \cup {r}
    BY Zenon, <1>1, <1>2, <1>3, SlotType DEF TypeOK
  <1>6. CASE /\ stored[Slot(r)] # None /\ Goto(r, "warm") /\ UNCHANGED answer
             /\ held' = [held EXCEPT ![r] = stored[Slot(r)]]
    <2>1. held \in [Requests -> Records \cup {None}]
      BY Zenon, <1>2 DEF TypeOK
    <2>2. /\ held' \in [Requests -> Records \cup {None}] /\ held'[r] = stored[Slot(r)]
          /\ \A q \in Requests : q # r => held'[q] = held[q]
      BY <1>5, <1>6, <2>1, Changed
    <2> QED BY Zenon, <1>1, <1>3, <1>4, <1>5, <1>6, <2>2, PassKeeps
  <1>7. CASE stored[Slot(r)] = None /\ Goto(r, "lookup") /\ UNCHANGED <<answer, held>>
    <2>1. /\ held' \in [Requests -> Records \cup {None}]
          /\ \A q \in Requests : q # r => held'[q] = held[q]
          /\ held'[r] # None => Keys(r) /\ KeyActive(r) /\ held'[r] = stored[Slot(r)]
      BY Zenon, <1>2, <1>7 DEF RequestOK, HeldIsStored, TypeOK
    <2>2. seen[r] = None
      BY Zenon, <1>4, <1>7
    <2> QED BY Zenon, <1>1, <1>3, <1>5, <1>7, <2>1, <2>2, PassKeeps
  <1>8. CASE Finish(r, Answer(500, None)) /\ UNCHANGED held
    <2>1. Says(r, Answer(500, None)) /\ Goto(r, "done")
      BY Zenon, <1>8 DEF Finish, Says
    <2>2. Fits(r, Answer(500, None), "done")
      BY <1>4, FailureFits
    <2> QED BY ZenonT(40), <1>1, <1>3, <1>8, <2>1, <2>2, Quiet, AnswerKeeps
  <1> QED BY Zenon, <1>6, <1>7, <1>8 DEF StoreGet

\* The handler answers a request that found no record.
LEMMA RespondKeeps ==
  ASSUME PInv, NEW r \in Requests, pc[r] \in {"lookup", "quote", "insert"},
         NEW s \in {200, 201, 400, 500}, NEW i \in Requests \cup {None},
         Respond(r, Answer(s, i)), NamesOwn(r, Answer(s, i)),
         UNCHANGED <<call, held, seen, stored>>, TablesOK(r)
  PROVE  PInv'
  <1> DEFINE a == Answer(s, i)
             l == IF Keyed(r) /\ a.status < 500 THEN "put" ELSE "done"
  <1>1. RequestOK(r) /\ pc[r] # "idle"
    BY DEF PInv
  <1>2. call[r] \in Posts /\ KeyActive(r) /\ answer[r] = None
    BY <1>1 DEF RequestOK, StageOK
  <1>3. seen[r] = None
    <2>1. pc[r] \notin {"auth", "cached", "stored", "warm", "done", "lost"}
      OBVIOUS
    <2> QED BY Zenon, <1>1, <2>1 DEF RequestOK, SeenIsStored, SeenIsBarred
  <1>4. a \in Answers /\ ~a.replay /\ a.status = s
    BY AnswerType
  <1>5. Says(r, a) /\ Goto(r, l)
    BY Zenon DEF Respond, Says
  <1>6. l \in {"done", "put"} /\ (l = "put" => Keyed(r) /\ a.status < 500)
    BY Zenon
  <1> HIDE DEF l, a
  <1>7. a.status < 500 => a.status \in {200, 201, 400}
    BY <1>4
  <1>8. NamesOwn(r, a) /\ Repeats(r, a)
    BY Zenon, <1>4 DEF a, Repeats
  <1>9. Fits(r, a, l)
    BY Zenon, <1>2, <1>3, <1>4, <1>6, <1>7, <1>8 DEF Fits, Keys
  <1> QED BY <1>1, <1>2, <1>5, <1>9, AnswerKeeps

\* What a request at the handler is.
LEMMA AtHandler ==
  ASSUME PInv, NEW r \in Requests, pc[r] \in {"lookup", "quote", "insert"}
  PROVE  /\ pc[r] # "idle" /\ answer[r] = None /\ call[r] \in Posts /\ KeyActive(r)
         /\ seen[r] = None /\ Merchant(r) \in Merchants
         /\ held[r] # None => Keys(r) /\ KeyActive(r) /\ held[r] = stored[Slot(r)]
  <1>1. RequestOK(r) /\ pc[r] # "idle"
    BY DEF PInv
  <1>2. call[r] \in Posts /\ KeyActive(r) /\ answer[r] = None
    BY <1>1 DEF RequestOK, StageOK
  <1>3. seen[r] = None
    <2>1. pc[r] \notin {"auth", "cached", "stored", "warm", "done", "lost"}
      OBVIOUS
    <2> QED BY Zenon, <1>1, <2>1 DEF RequestOK, SeenIsStored, SeenIsBarred
  <1>4. Merchant(r) \in Merchants
    BY Zenon, <1>2 DEF Merchant, Merchants, KeyActive
  <1>5. held[r] # None => Keys(r) /\ KeyActive(r) /\ held[r] = stored[Slot(r)]
    BY Zenon, <1>1 DEF RequestOK, HeldIsStored
  <1> QED BY Zenon, <1>1, <1>2, <1>3, <1>4, <1>5

\* The handler fails.
LEMMA RespondFails ==
  ASSUME PInv, NEW r \in Requests, pc[r] \in {"lookup", "quote", "insert"},
         NEW s \in {400, 500}, Respond(r, Answer(s, None)),
         UNCHANGED <<call, held, seen, stored>>, TablesOK(r)
  PROVE  PInv'
  <1>1. NamesOwn(r, Answer(s, None)) /\ s \in {200, 201, 400, 500}
    BY Plain
  <1> QED BY <1>1, RespondKeeps

\* CreatePaymentIntent's lookup.
LEMMA LookupKeeps ==
  ASSUME PInv, NEW r \in Requests, LookupRef(r)
  PROVE  PInv'
  <1>1. pc[r] = "lookup" /\ UNCHANGED <<call, held, seen, intents, quotes, stored, cache>>
    BY Zenon DEF LookupRef
  <1>2. pc[r] \in {"lookup", "quote", "insert"} /\ TypeOK /\ TablesOK(r)
    BY Zenon, <1>1, Quiet DEF PInv
  <1>3. CASE Respond(r, Answer(400, None))
    BY <1>1, <1>2, <1>3, RespondFails
  <1>4. CASE Respond(r, Answer(500, None))
    BY <1>1, <1>2, <1>4, RespondFails
  <1>5. CASE \E i \in ForRef(r) : Respond(r, Answer(200, i.id))
    <2>1. PICK i \in ForRef(r) : Respond(r, Answer(200, i.id))
      BY Zenon, <1>5
    <2>2. i \in intents /\ i.m = Merchant(r) /\ i.ref = call[r].ref
      BY Zenon, <2>1 DEF ForRef
    <2>3. i.id \in Requests
      BY <1>2, <2>2 DEF TypeOK, Intents
    <2>4. Answer(200, i.id).intent = i.id
      BY <2>3, AnswerType
    <2>5. KeyActive(r) /\ i \in intents'
      BY Zenon, <1>1, <1>2, <2>2, AtHandler
    <2>6. NamesOwn(r, Answer(200, i.id))
      BY Zenon, <2>2, <2>4, <2>5 DEF NamesOwn
    <2> QED BY <1>1, <1>2, <2>1, <2>3, <2>6, RespondKeeps
  <1>6. CASE Goto(r, "quote") /\ UNCHANGED answer
    <2>1. /\ held' \in [Requests -> Records \cup {None}]
          /\ \A q \in Requests : q # r => held'[q] = held[q]
          /\ held'[r] # None => Keys(r) /\ KeyActive(r) /\ held'[r] = stored[Slot(r)]
          /\ quotes' \subseteq quotes \cup {r}
      BY Zenon, <1>1, <1>2, AtHandler DEF TypeOK
    <2>2. pc[r] # "idle" /\ answer[r] = None /\ call[r] \in Posts /\ KeyActive(r) /\ seen[r] = None
      BY Zenon, <1>2, AtHandler
    <2> QED BY Zenon, <1>1, <1>6, <2>1, <2>2, PassKeeps
  <1> QED BY Zenon, <1>3, <1>4, <1>5, <1>6 DEF LookupRef

\* The quote's INSERT.
LEMMA QuoteKeeps ==
  ASSUME PInv, NEW r \in Requests, IssueQuote(r)
  PROVE  PInv'
  <1>1. pc[r] = "quote" /\ UNCHANGED <<call, held, seen, intents, stored, cache>>
    BY Zenon DEF IssueQuote
  <1>2. pc[r] \in {"lookup", "quote", "insert"} /\ TypeOK
    BY Zenon, <1>1 DEF PInv
  <1>3. quotes' \subseteq quotes \cup {r}
    BY Zenon DEF IssueQuote, CreateQuote
  <1>4. TablesOK(r)
    BY Zenon, <1>1, <1>2, <1>3 DEF PInv, TablesOK, TablesGrow, RowsUnique, CacheIsStored, TypeOK
  <1>5. CASE Respond(r, Answer(500, None))
    BY <1>1, <1>2, <1>4, <1>5, RespondFails
  <1>6. CASE Goto(r, "insert") /\ UNCHANGED answer
    <2>1. /\ held' \in [Requests -> Records \cup {None}]
          /\ \A q \in Requests : q # r => held'[q] = held[q]
          /\ held'[r] # None => Keys(r) /\ KeyActive(r) /\ held'[r] = stored[Slot(r)]
      BY Zenon, <1>1, <1>2, AtHandler DEF TypeOK
    <2>2. pc[r] # "idle" /\ answer[r] = None /\ call[r] \in Posts /\ KeyActive(r) /\ seen[r] = None
      BY Zenon, <1>2, AtHandler
    <2> QED BY Zenon, <1>1, <1>3, <1>6, <2>1, <2>2, PassKeeps
  <1> QED BY Zenon, <1>5, <1>6 DEF IssueQuote

\* The intent's INSERT: the lookup under the unique index keeps the rows apart.
LEMMA InsertKeeps ==
  ASSUME PInv, NEW r \in Requests, InsertIntent(r)
  PROVE  PInv'
  <1>1. pc[r] = "insert" /\ UNCHANGED <<call, held, seen, quotes, stored, cache>>
    BY Zenon DEF InsertIntent
  <1>2. pc[r] \in {"lookup", "quote", "insert"} /\ TypeOK /\ RowsUnique
    BY Zenon, <1>1 DEF PInv
  <1>3. call[r] \in Posts /\ KeyActive(r) /\ Merchant(r) \in Merchants
    BY Zenon, <1>2, AtHandler
  <1>4. CASE Respond(r, Answer(500, None)) /\ UNCHANGED intents
    <2>1. TablesOK(r)
      BY Zenon, <1>1, <1>4, Quiet
    <2> QED BY <1>1, <1>2, <1>4, <2>1, RespondFails
  <1>5. CASE /\ ForRef(r) = {} /\ intents' = intents \cup {NewIntent(r)}
             /\ Respond(r, Answer(201, r)) \/ Respond(r, Answer(500, None))
    <2> DEFINE n == NewIntent(r)
    <2>1. n.id = r /\ n.m = Merchant(r) /\ n.ref = call[r].ref
      BY DEF NewIntent
    <2>2. n \in Intents
      <3>1. call[r].ref \in {p.ref : p \in Posts} /\ call[r].amt \in {p.amt : p \in Posts}
        BY Zenon, <1>3
      <3> QED BY <1>3, <3>1 DEF NewIntent, Intents
    <2> HIDE DEF n
    <2>3. intents' = intents \cup {n}
      BY Zenon, <1>5 DEF n
    <2>4. \A i \in intents : ~(i.m = n.m /\ i.ref = n.ref)
      BY Zenon, <1>5, <2>1 DEF ForRef
    <2>5. RowsUnique'
      BY <1>2, <2>3, <2>4 DEF RowsUnique
    <2>6. intents' \subseteq Intents /\ intents \subseteq intents'
      BY Zenon, <1>2, <2>2, <2>3 DEF TypeOK
    <2>7. TablesOK(r)
      BY Zenon, <1>1, <1>2, <2>5, <2>6 DEF PInv, TablesOK, TablesGrow, CacheIsStored, TypeOK
    <2>8. CASE Respond(r, Answer(500, None))
      BY <1>1, <1>2, <2>7, <2>8, RespondFails
    <2>9. CASE Respond(r, Answer(201, r))
      <3>1. Answer(201, r).intent = r
        BY AnswerType
      <3>2. n \in intents'
        BY Zenon, <2>3
      <3>3. NamesOwn(r, Answer(201, r))
        BY Zenon, <1>3, <2>1, <3>1, <3>2 DEF NamesOwn
      <3> QED BY <1>1, <1>2, <2>7, <2>9, <3>3, RespondKeeps
    <2> QED BY Zenon, <1>5, <2>8, <2>9
  <1> QED BY Zenon, <1>4, <1>5 DEF InsertIntent

\* GetPaymentIntent.
LEMMA ReadKeeps ==
  ASSUME PInv, NEW r \in Requests, ReadIntent(r)
  PROVE  PInv'
  <1>1. pc[r] = "read" /\ UNCHANGED <<call, held, seen, intents, quotes, stored, cache>>
    BY Zenon DEF ReadIntent
  <1>2. TypeOK /\ RequestOK(r) /\ TablesOK(r)
    BY Zenon, <1>1, Quiet DEF PInv
  <1>3. pc[r] # "idle" /\ answer[r] = None /\ call[r] \in Gets /\ KeyActive(r)
    BY Zenon, <1>1, <1>2 DEF RequestOK, StageOK
  <1>4. seen[r] = None
    BY ZenonT(40), <1>2, <1>3, PostsAssumption DEF RequestOK, SeenIsStored, SeenIsBarred, Keys
  <1>5. ASSUME NEW s \in {401, 404, 409, 500}, Finish(r, Answer(s, None)) PROVE PInv'
    <2>1. Says(r, Answer(s, None)) /\ Goto(r, "done")
      BY Zenon, <1>5 DEF Finish, Says
    <2>2. Fits(r, Answer(s, None), "done")
      BY <1>4, <1>5, FailureFits
    <2> QED BY <1>1, <1>2, <1>3, <2>1, <2>2, AnswerKeeps
  <1>6. ASSUME NEW i \in ById(r), i.m = Merchant(r), Finish(r, Answer(200, i.id)) PROVE PInv'
    <2>1. i \in intents
      BY Zenon, <1>6 DEF ById
    <2>2. i.id \in Requests
      BY <1>2, <2>1 DEF TypeOK, Intents
    <2> DEFINE a == Answer(200, i.id)
    <2>3. a \in Answers /\ a.intent = i.id /\ ~a.replay
      BY <2>2, AnswerType
    <2>4. Says(r, a) /\ Goto(r, "done")
      BY Zenon, <1>6 DEF Finish, Says
    <2> HIDE DEF a
    <2>5. NamesOwn(r, a) /\ Repeats(r, a)
      BY Zenon, <1>1, <1>3, <1>6, <2>1, <2>3, PostsAssumption DEF NamesOwn, Repeats
    <2>6. Fits(r, a, "done")
      BY Zenon, <1>4, <2>3, <2>5 DEF Fits
    <2> QED BY Zenon, <1>1, <1>2, <1>3, <2>4, <2>6, AnswerKeeps
  <1>7. \/ \E i \in ById(r) : i.m = Merchant(r) /\ Finish(r, Answer(200, i.id))
        \/ Finish(r, Answer(404, None)) \/ Finish(r, Answer(500, None))
    BY Zenon DEF ReadIntent
  <1>8. 404 \in {401, 404, 409, 500} /\ 500 \in {401, 404, 409, 500}
    OBVIOUS
  <1> QED BY ZenonT(40), <1>5, <1>6, <1>7, <1>8

\* A request that only changes its stage after it was answered is as it was.
LEMMA EndedOK ==
  ASSUME PInv, NEW r \in Requests, OthersStay(r), TablesGrow(r), AnswerStands(r),
         pc[r] # "idle", call'[r] = call[r], answer'[r] = answer[r], seen'[r] = seen[r],
         pc'[r] \in {"done", "lost", "warm"},
         pc'[r] = "warm" => held'[r] # None /\ Keys(r) /\ KeyActive(r) /\ seen[r] = None,
         held'[r] # None => Keys(r) /\ KeyActive(r) /\ held'[r] = stored'[Slot(r)],
         quotes' = quotes
  PROVE  RequestOK(r)'
  <1>1. RequestOK(r) /\ TypeOK
    BY Zenon DEF PInv
  <1>2. /\ Keys(r)' <=> Keys(r)
        /\ KeyActive(r)' <=> KeyActive(r)
        /\ Slot(r)' = Slot(r) /\ Body(r)' = Body(r) /\ Merchant(r)' = Merchant(r)
    BY Zenon, SameCall
  <1>3. call[r] \in Calls
    BY Zenon, <1>1 DEF RequestOK, StageOK
  <1>4. StageOK(r)'
    <2>1. pc'[r] # "idle" /\ pc'[r] # "put" /\ pc'[r] # "read"
          /\ pc'[r] \notin {"idle", "auth", "cached", "stored", "lookup", "quote", "insert", "read"}
          /\ pc'[r] \notin {"lookup", "quote", "insert"}
          /\ pc'[r] \in {"cached", "stored", "warm", "put"} => pc'[r] = "warm"
      OBVIOUS
    <2> QED BY Zenon, <1>2, <1>3, <2>1 DEF StageOK
  <1>5. NamesRow(r)' /\ ReplayHasOrigin(r)' /\ SeenIsStored(r)'
    <2>1. \A p \in Requests : answer[p] # None => answer'[p] = answer[p] /\ call'[p] = call[p]
      BY Zenon DEF OthersStay
    <2>2. /\ intents \subseteq intents'
          /\ \A s \in Slots : stored[s] # None => stored'[s] = stored[s]
      BY Zenon DEF TablesGrow
    <2> QED BY Zenon, <2>1, <2>2, AnswerStays
  <1>6. HeldIsStored(r)'
    BY Zenon, <1>2 DEF HeldIsStored
  <1>7. SeenIsBarred(r)'
    <2>1. seen[r] # None => r \notin quotes
      BY Zenon, <1>1 DEF RequestOK, SeenIsBarred
    <2>2. pc'[r] \in {"auth", "cached", "stored", "warm", "done", "lost"}
      OBVIOUS
    <2> QED BY Zenon, <2>1, <2>2 DEF SeenIsBarred
  <1> QED BY Zenon, <1>4, <1>5, <1>6, <1>7 DEF RequestOK

\* The process dies.
LEMMA CrashKeeps ==
  ASSUME PInv, NEW r \in Requests, Crash(r)
  PROVE  PInv'
  <1>1. /\ pc[r] # "idle" /\ Goto(r, "lost")
        /\ UNCHANGED <<call, answer, held, seen, intents, quotes, stored, cache>>
    BY Zenon DEF Crash
  <1>2. TypeOK /\ RequestOK(r) /\ TablesOK(r)
    BY Zenon, <1>1, Quiet DEF PInv
  <1>3. pc' \in [Requests -> Labels] /\ pc'[r] = "lost" /\ \A q \in Requests : q # r => pc'[q] = pc[q]
    BY Zenon, <1>1, <1>2, GotoFacts DEF Labels
  <1>4. TypeOK' /\ OthersStay(r) /\ AnswerStands(r)
    BY Zenon, <1>1, <1>2, <1>3 DEF TypeOK, Labels, OthersStay, AnswerStands
  <1>5. held'[r] # None => Keys(r) /\ KeyActive(r) /\ held'[r] = stored'[Slot(r)]
    BY Zenon, <1>1, <1>2 DEF RequestOK, HeldIsStored
  <1>6. pc'[r] \in {"done", "lost", "warm"} /\ pc'[r] # "warm"
    BY Zenon, <1>3
  <1>7. RequestOK(r)'
    BY Zenon, <1>1, <1>2, <1>4, <1>5, <1>6, EndedOK DEF TablesOK
  <1>8. StoredHasOrigin'
    BY Zenon, <1>1, <1>4, OriginsStay
  <1> QED BY Zenon, <1>2, <1>4, <1>7, <1>8, Assemble DEF TablesOK

\* Redis drops a key.
LEMMA ExpireKeeps ==
  ASSUME PInv, NEW s \in Slots, Expire(s)
  PROVE  PInv'
  <1>1. /\ cache' = [cache EXCEPT ![s] = None]
        /\ UNCHANGED <<pc, call, answer, held, seen, intents, quotes, stored>>
    BY Zenon DEF Expire
  <1>2. TypeOK /\ CacheIsStored /\ RowsUnique /\ StoredHasOrigin /\ \A r \in Requests : RequestOK(r)
    BY Zenon DEF PInv
  <1>3. cache' \in [Slots -> Records \cup {None}] /\ cache'[s] = None
        /\ \A t \in Slots : t # s => cache'[t] = cache[t]
    BY <1>1, <1>2 DEF TypeOK
  <1>4. TypeOK' /\ CacheIsStored'
    BY Zenon, <1>1, <1>2, <1>3 DEF TypeOK, CacheIsStored
  <1>5. RowsUnique'
    BY Zenon, <1>1, <1>2 DEF RowsUnique
  <1>6. StoredHasOrigin'
    BY Zenon, <1>1, <1>2 DEF StoredHasOrigin, Origin, Keys, Keyed, KeyActive, Slot, Merchant, Body
  <1>7. ASSUME NEW r \in Requests PROVE RequestOK(r)'
    BY Zenon, <1>1, OthersOK
  <1> QED BY Zenon, <1>4, <1>5, <1>6, <1>7 DEF PInv

\* Redis is warmed with the row Postgres holds.
LEMMA WarmKeeps ==
  ASSUME PInv, NEW r \in Requests, Warm(r)
  PROVE  PInv'
  <1>1. /\ pc[r] = "warm" /\ cache' \in {cache, [cache EXCEPT ![Slot(r)] = held[r]]}
        /\ UNCHANGED <<call, held, seen, intents, quotes, stored>>
    BY Zenon DEF Warm
  <1>2. TypeOK /\ RequestOK(r) /\ CacheIsStored
    BY Zenon DEF PInv
  <1>3. pc[r] # "idle" /\ Keys(r) /\ KeyActive(r) /\ held[r] # None
    BY Zenon, <1>1, <1>2 DEF RequestOK, StageOK
  <1>4. held[r] = stored[Slot(r)] /\ Slot(r) \in Slots
    BY Zenon, <1>2, <1>3, SlotType DEF RequestOK, HeldIsStored
  <1>5. held[r] \in Records \cup {None} /\ cache \in [Slots -> Records \cup {None}]
    BY Zenon, <1>2 DEF TypeOK
  <1>6. cache' \in [Slots -> Records \cup {None}] /\ CacheIsStored'
    <2>1. CASE cache' = cache
      BY Zenon, <1>1, <1>2, <1>5, <2>1 DEF CacheIsStored
    <2>2. CASE cache' = [cache EXCEPT ![Slot(r)] = held[r]]
      <3>1. /\ cache' \in [Slots -> Records \cup {None}] /\ cache'[Slot(r)] = held[r]
            /\ \A s \in Slots : s # Slot(r) => cache'[s] = cache[s]
        BY <1>4, <1>5, <2>2
      <3>2. \A s \in Slots : cache'[s] # None => cache'[s] = stored[s]
        BY Zenon, <1>2, <1>4, <3>1 DEF CacheIsStored
      <3> QED BY Zenon, <1>1, <3>1, <3>2 DEF CacheIsStored
    <2> QED BY Zenon, <1>1, <2>1, <2>2
  <1>7. TablesOK(r)
    BY Zenon, <1>1, <1>2, <1>6 DEF PInv, TablesOK, TablesGrow, RowsUnique, TypeOK
  <1>8. CASE answer[r] = None /\ Finish(r, Judge(r, held[r]))
    <2> DEFINE a == Judge(r, stored[Slot(r)])
    <2>1. Says(r, a) /\ Goto(r, "done")
      BY Zenon, <1>4, <1>8 DEF Finish, Says
    <2>2. a \in Answers /\ NamesOwn(r, a) /\ Repeats(r, a) /\ (seen[r] # None => a = Judge(r, seen[r]))
      BY Zenon, <1>1, <1>3, <1>4, JudgeOK
    <2>3. seen[r] # None => r \notin quotes'
      BY Zenon, <1>1, <1>2 DEF RequestOK, SeenIsBarred
    <2> HIDE DEF a
    <2>4. Fits(r, a, "done")
      BY Zenon, <2>2, <2>3 DEF Fits
    <2> QED BY <1>1, <1>3, <1>7, <1>8, <2>1, <2>4, AnswerKeeps
  <1>9. CASE Goto(r, "done") /\ UNCHANGED answer
    <2>1. pc' \in [Requests -> Labels] /\ pc'[r] = "done" /\ \A q \in Requests : q # r => pc'[q] = pc[q]
      BY Zenon, <1>2, <1>9, GotoFacts DEF Labels
    <2>2. TypeOK' /\ OthersStay(r) /\ AnswerStands(r)
      BY Zenon, <1>1, <1>2, <1>6, <1>9, <2>1 DEF TypeOK, Labels, OthersStay, AnswerStands
    <2>3. held'[r] # None => Keys(r) /\ KeyActive(r) /\ held'[r] = stored'[Slot(r)]
      BY Zenon, <1>1, <1>3, <1>4
    <2>4. pc'[r] \in {"done", "lost", "warm"} /\ pc'[r] # "warm"
      BY Zenon, <2>1
    <2>5. RequestOK(r)'
      BY Zenon, <1>1, <1>3, <1>7, <1>9, <2>2, <2>3, <2>4, EndedOK DEF TablesOK
    <2>6. StoredHasOrigin'
      BY Zenon, <1>1, <2>2, OriginsStay
    <2> QED BY Zenon, <1>7, <2>2, <2>5, <2>6, Assemble DEF TablesOK
  <1> QED BY Zenon, <1>8, <1>9 DEF Warm

\* The first record for a key stays, whoever writes after it.
LEMMA PutKeeps ==
  ASSUME PInv, NEW r \in Requests, Put(r)
  PROVE  PInv'
  <1>1. pc[r] = "put" /\ UNCHANGED <<call, answer, seen, intents, quotes, cache>>
    BY Zenon DEF Put
  <1>2. TypeOK /\ RequestOK(r) /\ CacheIsStored /\ StoredHasOrigin /\ RowsUnique
    BY Zenon DEF PInv
  <1>3. /\ pc[r] # "idle" /\ Keys(r) /\ KeyActive(r) /\ answer[r] # None /\ ~answer[r].replay
        /\ answer[r].status \in {200, 201, 400}
    BY Zenon, <1>1, <1>2 DEF RequestOK, StageOK
  <1>4. seen[r] = None
    BY <1>1, <1>2 DEF RequestOK, SeenIsBarred
  <1> DEFINE s == Slot(r)
             w == Winner(r)
  <1>5. s \in Slots /\ answer[r] \in Answers
    <2>1. answer[r] \in Answers \cup {None}
      BY Zenon, <1>2 DEF TypeOK
    <2> QED BY Zenon, <1>3, <2>1, SlotType
  <1>6. RecordOf(r) \in Records /\ Origin(r, s, RecordOf(r))
    BY Zenon, <1>3, <1>5, RecordType
  <1>7. /\ w \in Records
        /\ stored[s] # None => w = stored[s]
        /\ stored[s] = None => w = RecordOf(r)
    BY Zenon, <1>2, <1>5, <1>6 DEF Winner, TypeOK
  <1>8. \/ stored' = [stored EXCEPT ![s] = w] /\ held' = [held EXCEPT ![r] = w] /\ Goto(r, "warm")
        \/ stored' \in {stored, [stored EXCEPT ![s] = w]} /\ held' = held /\ Goto(r, "done")
    BY Zenon DEF Put, Kept
  <1> HIDE DEF s, w
  <1>9. stored \in [Slots -> Records \cup {None}] /\ held \in [Requests -> Records \cup {None}]
    BY Zenon, <1>2 DEF TypeOK
  <1>10. /\ stored' \in [Slots -> Records \cup {None}]
         /\ \A t \in Slots : t # s => stored'[t] = stored[t]
         /\ stored'[s] = stored[s] \/ stored'[s] = w
    BY <1>5, <1>7, <1>8, <1>9
  <1>11. \A t \in Slots : stored[t] # None => stored'[t] = stored[t]
    BY Zenon, <1>7, <1>10
  <1>12. TablesGrow(r) /\ RowsUnique'
    BY Zenon, <1>1, <1>2, <1>11 DEF TablesGrow, RowsUnique
  <1>13. CacheIsStored'
    BY Zenon, <1>1, <1>2, <1>11 DEF CacheIsStored
  <1>14. StoredHasOrigin'
    <2> SUFFICES ASSUME NEW t \in Slots, stored'[t] # None
                 PROVE  \E q \in Requests : Origin(q, t, stored[t])'
      BY Zenon DEF StoredHasOrigin
    <2>1. \E q \in Requests : Origin(q, t, stored'[t])
      <3>1. CASE stored'[t] = stored[t]
        BY Zenon, <1>2, <3>1 DEF StoredHasOrigin
      <3>2. CASE t = s /\ stored[s] = None /\ stored'[s] = w
        BY Zenon, <1>6, <1>7, <3>2
      <3> QED BY Zenon, <1>7, <1>10, <3>1, <3>2
    <2> QED BY Zenon, <1>1, <2>1 DEF Origin, Keys, Keyed, KeyActive, Slot, Merchant, Body
  <1>15. PICK l \in {"warm", "done"} :
            /\ Goto(r, l)
            /\ l = "warm" => stored'[s] = w /\ held' = [held EXCEPT ![r] = w]
            /\ l = "done" => held' = held
    <2>1. stored' = [stored EXCEPT ![s] = w] => stored'[s] = w
      BY <1>5, <1>9
    <2> QED BY Zenon, <1>8, <2>1
  <1>17. pc' \in [Requests -> Labels] /\ pc'[r] = l /\ \A q \in Requests : q # r => pc'[q] = pc[q]
    <2>1. l \in Labels
      BY DEF Labels
    <2> QED BY Zenon, <1>2, <1>15, <2>1, GotoFacts
  <1>18. /\ held' \in [Requests -> Records \cup {None}]
         /\ \A q \in Requests : q # r => held'[q] = held[q]
         /\ l = "warm" => held'[r] = w
         /\ l = "done" => held'[r] = held[r]
    BY <1>7, <1>9, <1>15
  <1>19. TypeOK' /\ OthersStay(r) /\ AnswerStands(r)
    BY Zenon, <1>1, <1>2, <1>10, <1>17, <1>18 DEF TypeOK, Labels, OthersStay, AnswerStands
  <1>20. w # None
    BY Zenon, <1>7, NotNone
  <1>21. held'[r] # None => Keys(r) /\ KeyActive(r) /\ held'[r] = stored'[Slot(r)]
    <2>1. CASE l = "warm"
      BY Zenon, <1>3, <1>15, <1>18, <2>1 DEF s
    <2>2. CASE l = "done"
      <3>1. held[r] # None => held[r] = stored[s] /\ stored'[s] = stored[s]
        BY Zenon, <1>2, <1>5, <1>11 DEF RequestOK, HeldIsStored, s
      <3> QED BY ZenonT(40), <1>3, <1>18, <2>2, <3>1 DEF s
    <2> QED BY Zenon, <2>1, <2>2
  <1>22. /\ pc'[r] \in {"done", "lost", "warm"}
         /\ pc'[r] = "warm" => held'[r] # None /\ Keys(r) /\ KeyActive(r) /\ seen[r] = None
    BY <1>3, <1>4, <1>17, <1>18, <1>20
  <1>23. RequestOK(r)'
    BY Zenon, <1>1, <1>3, <1>12, <1>19, <1>21, <1>22, EndedOK
  <1> QED BY Zenon, <1>12, <1>13, <1>14, <1>19, <1>23, Assemble

-----------------------------------------------------------------------------
\* The empty tables agree.
LEMMA PInvInit == Init => PInv
  <1> SUFFICES ASSUME Init PROVE PInv
    BY Zenon
  <1>1. TypeOK
    BY DEF Init, TypeOK
  <1>2. RowsUnique
    BY DEF Init, RowsUnique
  <1>3. StoredHasOrigin /\ CacheIsStored
    BY DEF Init, StoredHasOrigin, CacheIsStored
  <1>4. ASSUME NEW r \in Requests PROVE RequestOK(r)
    <2>1. /\ pc[r] = "idle" /\ call[r] = None /\ answer[r] = None
          /\ held[r] = None /\ seen[r] = None /\ r \notin quotes
      BY DEF Init
    <2> QED BY <2>1 DEF RequestOK, StageOK, NamesRow, Succeeded, ReplayHasOrigin,
                        HeldIsStored, SeenIsStored, SeenIsBarred
  <1> QED BY Zenon, <1>1, <1>2, <1>3, <1>4 DEF PInv

\* Every step keeps the invariant.
LEMMA Invariance == PInv /\ [Next]_vars => PInv'
  <1> SUFFICES ASSUME PInv, [Next]_vars PROVE PInv'
    BY Zenon
  <1>1. ASSUME NEW r \in Requests, Arrive(r) \/ Step(r) \/ Crash(r) PROVE PInv'
    BY Zenon, <1>1, ArriveKeeps, AuthenticateKeeps, CacheGetKeeps, StoreGetKeeps, WarmKeeps, LookupKeeps,
       QuoteKeeps, InsertKeeps, PutKeeps, ReadKeeps, CrashKeeps DEF Step
  <1>2. CASE UNCHANGED vars
    <2>1. UNCHANGED <<pc, call, answer, held, seen, intents, quotes, stored, cache>>
      BY Zenon, <1>2 DEF vars
    <2>2. \A r \in Requests : RequestOK(r)'
      BY Zenon, <2>1, OthersOK
    <2>3. TypeOK' /\ RowsUnique' /\ CacheIsStored'
      BY Zenon, <2>1 DEF PInv, TypeOK, RowsUnique, CacheIsStored
    <2>4. StoredHasOrigin'
      BY Zenon, <2>1 DEF PInv, StoredHasOrigin, Origin, Keys, Keyed, KeyActive, Slot, Merchant, Body
    <2> QED BY Zenon, <2>2, <2>3, <2>4 DEF PInv
  <1> QED BY Zenon, <1>1, <1>2, ExpireKeeps DEF Next

\* What the tables, the cache and the answers say of one another holds in every
\* state the API reaches.
THEOREM Inductive == Spec => []PInv
  BY PInvInit, Invariance, PTL DEF Spec

\* The columns keep their types.
THEOREM TypeCorrect == Spec => []TypeOK
  <1>1. PInv => TypeOK
    BY Zenon DEF PInv
  <1> QED BY <1>1, Inductive, PTL

\* Redis never serves what Postgres does not hold.
THEOREM CacheCorrect == Spec => []CacheIsStored
  <1>1. PInv => CacheIsStored
    BY Zenon DEF PInv
  <1> QED BY <1>1, Inductive, PTL

\* A replay is the handler's answer to a request with the same key and body.
THEOREM ReplaysCorrect == Spec => []ReplaysAreOriginals
  <1>1. PInv => ReplaysAreOriginals
    <2> SUFFICES ASSUME PInv, NEW r \in Requests, answer[r] # None, answer[r].replay
                 PROVE  \E q \in Requests :
                           /\ answer[q] = Answer(answer[r].status, answer[r].intent)
                           /\ Keys(q) /\ Merchant(q) = Merchant(r)
                           /\ call[q].key = call[r].key /\ Body(q) = Body(r)
      BY Zenon DEF ReplaysAreOriginals
    <2> DEFINE rec == [body |-> Body(r), status |-> answer[r].status, intent |-> answer[r].intent]
    <2>1. PICK q \in Requests : Origin(q, Slot(r), rec)
      BY Zenon DEF PInv, RequestOK, ReplayHasOrigin
    <2>2. rec.body = Body(r) /\ rec.status = answer[r].status /\ rec.intent = answer[r].intent
      OBVIOUS
    <2> HIDE DEF rec
    <2>3. Keys(q) /\ Slot(q) = Slot(r) /\ Body(q) = Body(r)
          /\ answer[q] = Answer(answer[r].status, answer[r].intent)
      BY Zenon, <2>1, <2>2 DEF Origin
    <2>4. Merchant(q) = Merchant(r) /\ call[q].key = call[r].key
      BY <2>3 DEF Slot
    <2> QED BY Zenon, <2>3, <2>4
  <1> QED BY <1>1, Inductive, PTL

\* A request that finds its key recorded runs no side effect and is answered
\* from the record, refused or failed.
THEOREM SeenKeysHonoured == Spec => []SeenKeyIsHonoured
  <1>1. PInv => SeenKeyIsHonoured
    BY ZenonT(40) DEF PInv, RequestOK, SeenIsStored, SeenIsBarred, SeenKeyIsHonoured
  <1> QED BY <1>1, Inductive, PTL

\* Every success for one external_ref names the same intent.
THEOREM RepliesCorrect == Spec => []RepliesAgree
  <1>1. PInv => RepliesAgree
    <2> SUFFICES ASSUME PInv, NEW r \in Requests, NEW q \in Requests, Succeeded(r), Succeeded(q),
                        call[r] \in Posts, call[q] \in Posts,
                        Merchant(r) = Merchant(q), call[r].ref = call[q].ref
                 PROVE  answer[r].intent = answer[q].intent
      BY Zenon DEF RepliesAgree
    <2>1. PICK i \in intents : i.id = answer[r].intent /\ i.m = Merchant(r) /\ i.ref = call[r].ref
      BY Zenon DEF PInv, RequestOK, NamesRow
    <2>2. PICK j \in intents : j.id = answer[q].intent /\ j.m = Merchant(q) /\ j.ref = call[q].ref
      BY Zenon DEF PInv, RequestOK, NamesRow
    <2>3. i = j
      BY <2>1, <2>2 DEF PInv, RowsUnique
    <2> QED BY <2>1, <2>2, <2>3
  <1> QED BY <1>1, Inductive, PTL

-----------------------------------------------------------------------------
\* A step leaves the other requests' calls and answers, takes none back, and
\* answers a call that was there before.
Shape(r) ==
    /\ \A q \in Requests : q # r => call'[q] = call[q] /\ answer'[q] = answer[q]
    /\ AnswerStands(r)
    /\ answer'[r] # None => call'[r] = call[r]

\* An answer is given to a request that had none.
LEMMA SaysShape ==
  ASSUME TypeOK, NEW r \in Requests, NEW a, Says(r, a), answer[r] = None, UNCHANGED call
  PROVE  Shape(r)
  <1>1. \A q \in Requests : q # r => answer'[q] = answer[q]
    BY DEF Says, TypeOK
  <1> QED BY Zenon, <1>1 DEF Shape, AnswerStands

\* Every step has the shape.
LEMMA StepShape ==
  ASSUME PInv, NEW r \in Requests, Arrive(r) \/ Step(r) \/ Crash(r)
  PROVE  Shape(r)
  <1>1. TypeOK /\ RequestOK(r)
    BY Zenon DEF PInv
  <1>2. ASSUME UNCHANGED <<call, answer>> PROVE Shape(r)
    BY Zenon, <1>2 DEF Shape, AnswerStands
  <1>3. ASSUME pc[r] \in {"auth", "cached", "stored", "lookup", "quote", "insert", "read"}
        PROVE  answer[r] = None
    BY <1>1, <1>3 DEF RequestOK, StageOK
  <1>4. ASSUME NEW a, Finish(r, a) \/ Respond(r, a), answer[r] = None, UNCHANGED call PROVE Shape(r)
    BY Zenon, <1>1, <1>4, SaysShape DEF Finish, Respond, Says
  <1>5. CASE Arrive(r)
    <2>1. answer[r] = None /\ answer' = answer
      BY Zenon, <1>1, <1>5 DEF Arrive, RequestOK, StageOK
    <2>2. \A q \in Requests : q # r => call'[q] = call[q]
      <3>1. PICK c \in Calls : call' = [call EXCEPT ![r] = c]
        BY Zenon, <1>5 DEF Arrive
      <3> QED BY <1>1, <3>1 DEF TypeOK
    <2> QED BY Zenon, <2>1, <2>2 DEF Shape, AnswerStands
  <1>6. CASE Crash(r)
    BY Zenon, <1>2, <1>6 DEF Crash
  <1>7. CASE Authenticate(r)
    BY Zenon, <1>2, <1>3, <1>4, <1>7 DEF Authenticate
  <1>8. CASE CacheGet(r)
    BY Zenon, <1>2, <1>3, <1>4, <1>8 DEF CacheGet
  <1>9. CASE StoreGet(r)
    BY Zenon, <1>2, <1>3, <1>4, <1>9 DEF StoreGet
  <1>10. CASE Warm(r)
    BY Zenon, <1>2, <1>4, <1>10 DEF Warm
  <1>11. CASE LookupRef(r)
    BY Zenon, <1>2, <1>3, <1>4, <1>11 DEF LookupRef
  <1>12. CASE IssueQuote(r)
    BY Zenon, <1>2, <1>3, <1>4, <1>12 DEF IssueQuote
  <1>13. CASE InsertIntent(r)
    BY ZenonT(40), <1>2, <1>3, <1>4, <1>13 DEF InsertIntent
  <1>14. CASE Put(r)
    BY Zenon, <1>2, <1>14 DEF Put
  <1>15. CASE ReadIntent(r)
    BY ZenonT(40), <1>2, <1>3, <1>4, <1>15 DEF ReadIntent
  <1> QED BY Zenon, <1>5, <1>6, <1>7, <1>8, <1>9, <1>10, <1>11, <1>12, <1>13, <1>14, <1>15 DEF Step

\* What a request's answer adds to what was told or shown.
ToldBy(r)  == [m |-> Merchant(r), ref |-> call[r].ref, id |-> answer[r].intent]
ShownBy(r) == [m |-> Merchant(r), id |-> answer[r].intent]

\* Nothing is told or shown by a step without a new success.
LEMMA SameAnswers ==
  ASSUME NEW r \in Requests, Shape(r), answer[r] # None \/ ~Succeeded(r)'
  PROVE  Told' = Told /\ Shown' = Shown
  <1>1. ASSUME NEW q \in Requests PROVE Succeeded(q)' <=> Succeeded(q)
    <2>1. CASE q = r
      BY ZenonT(40), <2>1 DEF Succeeded, Shape, AnswerStands
    <2>2. CASE q # r
      BY ZenonT(40), <2>2 DEF Succeeded, Shape
    <2> QED BY Zenon, <2>1, <2>2
  <1>2. ASSUME NEW q \in Requests, Succeeded(q) PROVE call'[q] = call[q] /\ answer'[q] = answer[q]
    <2>1. CASE q = r
      BY Zenon, <1>2, <2>1 DEF Succeeded, Shape, AnswerStands
    <2>2. CASE q # r
      BY Zenon, <2>2 DEF Shape
    <2> QED BY Zenon, <2>1, <2>2
  <1>3. Told' = Told
    BY <1>1, <1>2 DEF Told, Merchant
  <1>4. Shown' = Shown
    BY <1>1, <1>2 DEF Shown, Merchant
  <1> QED BY Zenon, <1>3, <1>4

\* A new success adds its own answer.
LEMMA NewAnswer ==
  ASSUME NEW r \in Requests, Shape(r), answer[r] = None, Succeeded(r)', call[r] \in Calls
  PROVE  /\ call[r] \in Posts => Told' = Told \cup {ToldBy(r)'} /\ Shown' = Shown
         /\ call[r] \in Gets => Told' = Told /\ Shown' = Shown \cup {ShownBy(r)'}
  <1>1. ASSUME NEW q \in Requests, q # r
        PROVE  /\ Succeeded(q)' <=> Succeeded(q)
               /\ call'[q] = call[q] /\ answer'[q] = answer[q]
    BY ZenonT(40), <1>1 DEF Succeeded, Shape
  <1>2. ~Succeeded(r) /\ call'[r] = call[r]
    BY Zenon DEF Succeeded, Shape
  <1>3. ~(call[r] \in Posts /\ call[r] \in Gets)
    BY Zenon, PostsAssumption
  <1>4. CASE call[r] \in Posts
    <2>1. Told' = Told \cup {ToldBy(r)'}
      BY <1>1, <1>2, <1>4 DEF Told, ToldBy, Merchant
    <2>2. Shown' = Shown
      BY <1>1, <1>2, <1>3, <1>4 DEF Shown, Merchant
    <2> QED BY Zenon, <1>3, <1>4, <2>1, <2>2
  <1>5. CASE call[r] \in Gets
    <2>1. Shown' = Shown \cup {ShownBy(r)'}
      BY <1>1, <1>2, <1>5 DEF Shown, ShownBy, Merchant
    <2>2. Told' = Told
      BY <1>1, <1>2, <1>3, <1>5 DEF Told, Merchant
    <2> QED BY Zenon, <1>3, <1>5, <2>1, <2>2
  <1> QED BY Zenon, <1>4, <1>5 DEF Calls

\* The empty tables promise nothing.
LEMMA PromiseInit == Init => Promise!Init
  BY DEF Init, Promise!Init, Made, Told, Shown, Succeeded

\* A step of a request makes, tells or shows what the promise allows.
LEMMA PromiseStep ==
  ASSUME PInv, PInv', NEW r \in Requests, Arrive(r) \/ Step(r) \/ Crash(r)
  PROVE  [Promise!Next]_(Promise!pvars)
  <1>1. Shape(r) /\ RequestOK(r) /\ RequestOK(r)' /\ TypeOK
    BY Zenon, StepShape DEF PInv
  <1>2. CASE ~(answer[r] = None /\ Succeeded(r)') /\ intents' = intents
    <2>1. Told' = Told /\ Shown' = Shown
      BY Zenon, <1>1, <1>2, SameAnswers
    <2>2. Made' = Made
      BY Zenon, <1>2 DEF Made
    <2> QED BY Zenon, <2>1, <2>2 DEF Promise!pvars
  <1>3. CASE answer[r] = None /\ Succeeded(r)' /\ intents' = intents
    <2>1. call'[r] = call[r] /\ Made' = Made
      BY Zenon, <1>1, <1>3 DEF Shape, Succeeded, Made
    <2>2. call[r] \in Calls
      BY Zenon, <1>1, <1>3, <2>1 DEF RequestOK, NamesRow
    <2>3. PICK i \in intents : /\ i.id = answer'[r].intent /\ i.m = Merchant(r)'
                               /\ call[r] \in Posts => i.ref = call[r].ref
      BY Zenon, <1>1, <1>3, <2>1 DEF RequestOK, NamesRow
    <2> DEFINE x == [m |-> i.m, ref |-> i.ref, id |-> i.id]
    <2>4. x \in Made
      BY Zenon DEF Made
    <2>5. CASE call[r] \in Posts
      <3>1. Told' = Told \cup {ToldBy(r)'} /\ Shown' = Shown
        BY Zenon, <1>1, <1>3, <2>2, <2>5, NewAnswer
      <3>2. ToldBy(r)' = x
        BY Zenon, <2>1, <2>3, <2>5 DEF ToldBy
      <3> QED BY Zenon, <2>1, <2>4, <3>1, <3>2 DEF Promise!Next, Promise!Tell
    <2>6. CASE call[r] \in Gets
      <3>1. Told' = Told /\ Shown' = Shown \cup {ShownBy(r)'}
        BY Zenon, <1>1, <1>3, <2>2, <2>6, NewAnswer
      <3>2. ShownBy(r)' = [m |-> x.m, id |-> x.id]
        BY <2>3 DEF ShownBy
      <3> HIDE DEF x
      <3> QED BY Zenon, <2>1, <2>4, <3>1, <3>2 DEF Promise!Next, Promise!Show
    <2> QED BY Zenon, <2>2, <2>5, <2>6 DEF Calls
  <1>4. CASE intents' # intents
    <2>1. InsertIntent(r) /\ ForRef(r) = {} /\ intents' = intents \cup {NewIntent(r)} /\ call' = call
      BY Zenon, <1>4 DEF Arrive, Crash, Step, Authenticate, CacheGet, StoreGet, Warm, LookupRef,
         IssueQuote, InsertIntent, Put, ReadIntent
    <2>2. /\ call[r] \in Posts /\ Merchant(r) \in Merchants /\ answer[r] = None
      BY <2>1, AtHandler DEF InsertIntent
    <2> DEFINE x == [m |-> Merchant(r), ref |-> call[r].ref, id |-> r]
    <2>3. x.m = Merchant(r) /\ x.ref = call[r].ref /\ x.id = r
      OBVIOUS
    <2>4. x \in [m : Merchants, ref : {p.ref : p \in Posts}, id : Requests]
      <3>1. call[r].ref \in {p.ref : p \in Posts}
        BY Zenon, <2>2
      <3> QED BY <2>2, <3>1
    <2>5. NewIntent(r).m = x.m /\ NewIntent(r).ref = x.ref /\ NewIntent(r).id = x.id
      BY DEF NewIntent
    <2>6. Made' = Made \cup {x}
      BY <2>1, <2>5 DEF Made
    <2>7. \A y \in Made : <<y.m, y.ref>> # <<x.m, x.ref>>
      <3>1. \A i \in intents : ~(i.m = x.m /\ i.ref = x.ref)
        BY Zenon, <2>1, <2>3 DEF ForRef
      <3>2. \A y \in Made : \E i \in intents : y.m = i.m /\ y.ref = i.ref
        BY DEF Made
      <3> HIDE DEF x
      <3> QED BY <3>1, <3>2
    <2>8. Promise!Create(x)
      <3> HIDE DEF x
      <3> QED BY Zenon, <2>6, <2>7 DEF Promise!Create
    <2>9. CASE Succeeded(r)'
      <3>1. Told' = Told \cup {ToldBy(r)'} /\ Shown' = Shown
        BY Zenon, <1>1, <2>2, <2>9, NewAnswer DEF Calls
      <3>2. answer'[r].intent = r
        <4>1. Respond(r, Answer(201, r)) \/ Respond(r, Answer(500, None))
          BY Zenon, <2>1 DEF InsertIntent
        <4>2. answer'[r] = Answer(201, r) \/ answer'[r] = Answer(500, None)
          BY <1>1, <4>1 DEF Respond, TypeOK
        <4>3. Answer(500, None).status = 500 /\ Answer(201, r).intent = r
          BY AnswerType
        <4> QED BY <2>9, <4>2, <4>3 DEF Succeeded
      <3>3. ToldBy(r)' = x
        BY Zenon, <2>1, <3>2 DEF ToldBy, Merchant
      <3>4. Promise!Tell(x)
        BY Zenon, <3>1, <3>3 DEF Promise!Tell
      <3> HIDE DEF x
      <3> QED BY Zenon, <2>4, <2>8, <3>1, <3>4 DEF Promise!Next
    <2>10. CASE ~Succeeded(r)'
      <3>1. Told' = Told /\ Shown' = Shown
        BY Zenon, <1>1, <2>10, SameAnswers
      <3> HIDE DEF x
      <3> QED BY Zenon, <2>4, <2>8, <3>1 DEF Promise!Next
    <2> QED BY Zenon, <2>9, <2>10
  <1> QED BY Zenon, <1>2, <1>3, <1>4

\* Every step of the API is one the promise allows, or none.
LEMMA PromiseNext == PInv /\ PInv' /\ [Next]_vars => [Promise!Next]_(Promise!pvars)
  <1> SUFFICES ASSUME PInv, PInv', [Next]_vars PROVE [Promise!Next]_(Promise!pvars)
    BY Zenon
  <1>1. ASSUME UNCHANGED <<call, answer, intents>> PROVE UNCHANGED <<Made, Told, Shown>>
    <2>1. call' = call /\ answer' = answer /\ intents' = intents
      BY Zenon, <1>1
    <2>2. Made' = Made
      BY Zenon, <2>1 DEF Made
    <2>3. Told' = Told
      BY <2>1 DEF Told, Merchant, Succeeded
    <2>4. Shown' = Shown
      BY <2>1 DEF Shown, Merchant, Succeeded
    <2> QED BY Zenon, <2>2, <2>3, <2>4
  <1>2. CASE \E r \in Requests : Arrive(r) \/ Step(r) \/ Crash(r)
    BY Zenon, <1>2, PromiseStep
  <1>3. CASE \E s \in Slots : Expire(s)
    BY Zenon, <1>1, <1>3 DEF Expire, Promise!pvars
  <1>4. CASE UNCHANGED vars
    BY Zenon, <1>1, <1>4 DEF vars, Promise!pvars
  <1> QED BY Zenon, <1>2, <1>3, <1>4 DEF Next

\* The API implements PaymentIntentsPromise: an external_ref names at most one
\* intent, the answers to its create calls name it, and a merchant is shown
\* their own intents only, whatever races, retries and crashes.
THEOREM Refinement == Spec => KeepsPromise
  <1>1. Init => Promise!Init
    BY Zenon, PromiseInit
  <1>2. PInv /\ PInv' /\ [Next]_vars => [Promise!Next]_(Promise!pvars)
    BY Zenon, PromiseNext
  <1> QED BY <1>1, <1>2, Inductive, PTL DEF Spec, KeepsPromise, Promise!Spec
=============================================================================
