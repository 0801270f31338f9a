----------------------------- MODULE ProxyProofs -----------------------------
(***************************************************************************)
(* Proofs about module Proxy: its types, the age of what it serves, and    *)
(* when it asks the database, for any number of clients and queries.       *)
(***************************************************************************)
EXTENDS Proxy, TLAPS

(* What an upstream request has lived through so far. *)
AskedInv ==
  \A r \in Requests :
    request[r].phase = "asked" =>
      /\ request[r].heard = request[r].asked
      /\ request[r].heard <= now /\ now <= request[r].heard + Idle

ReadingInv ==
  \A r \in Requests :
    request[r].phase = "reading" =>
      /\ request[r].payload >= request[r].asked
      /\ request[r].asked <= request[r].heard
      /\ request[r].heard <= request[r].asked + Idle
      /\ request[r].heard <= now /\ now <= request[r].heard + Idle

(* What a cache entry is: an answer that took one upstream request. *)
CacheInv ==
  \A n \in Names :
    cache[n] # Nothing =>
      /\ cache[n] \in [at : Times, payload : Times]
      /\ cache[n].at <= now
      /\ cache[n].at <= cache[n].payload + 2 * Idle

Inv == TypeOK /\ AskedInv /\ ReadingInv /\ CacheInv /\ ServedIsRecent

-----------------------------------------------------------------------------
(* What a step of one request leaves alone. *)

(* Reply changes one request: its phase, when it was heard, its payload. *)
LEMMA ReplyEffect ==
  ASSUME TypeOK, NEW r \in Requests, NEW phase \in Phases,
         NEW payload \in Times \cup {-1}, Reply(r, phase, payload)
  PROVE  /\ request' \in [Requests -> RequestRecords]
         /\ request'[r].phase = phase /\ request'[r].heard = now
         /\ request'[r].payload = payload
         /\ request'[r].name = request[r].name
         /\ request'[r].asked = request[r].asked
         /\ \A q \in Requests \ {r} : request'[q] = request[q]
  BY DEF TypeOK, Reply, RequestRecords

LEMMA TimesAreIntegers == \A t \in Times : t \in Int /\ t >= 0
  BY ProxyAssumption DEF Times

-----------------------------------------------------------------------------
LEMMA InitInv == Init => Inv
<1> SUFFICES ASSUME Init PROVE Inv
  OBVIOUS
<1>0. 0 \in Times
  BY ProxyAssumption DEF Times
<1>1. \A r \in Requests : request[r] \in RequestRecords /\ request[r].phase = "idle"
  BY <1>0 DEF Init, RequestRecords, Phases
<1>2. TypeOK
  <2>1. request \in [Requests -> RequestRecords]
    BY <1>0 DEF Init, RequestRecords, Phases
  <2>2. QED
    BY <1>0, <2>1 DEF Init, TypeOK, Entries
<1>3. CacheInv
  BY DEF Init, CacheInv
<1>4. QED
  BY <1>1, <1>2, <1>3 DEF Inv, AskedInv, ReadingInv, ServedIsRecent

-----------------------------------------------------------------------------
(* A hit serves an entry that has not expired. *)
LEMMA HitInv ==
  ASSUME Inv, NEW r \in Requests, NEW n \in Names, Hit(r, n)
  PROVE  Inv'
<1> USE DEF Inv
<1>1. /\ cache[n] \in [at : Times, payload : Times]
      /\ cache[n].at <= cache[n].payload + 2 * Idle
      /\ now - cache[n].at < Ttl
  BY DEF Hit, Fresh, CacheInv
<1>2. /\ request'[r] = [phase |-> "served", name |-> n, asked |-> now,
                        heard |-> now, payload |-> cache[n].payload]
      /\ \A q \in Requests \ {r} : request'[q] = request[q]
  BY DEF Hit, TypeOK
<1>3. TypeOK'
  <2>1. [phase |-> "served", name |-> n, asked |-> now, heard |-> now,
         payload |-> cache[n].payload] \in RequestRecords
    BY <1>1 DEF TypeOK, RequestRecords, Phases
  <2>2. request' \in [Requests -> RequestRecords]
    BY <2>1 DEF Hit, TypeOK
  <2>3. QED
    BY <2>2 DEF Hit, TypeOK
<1>4. AskedInv' /\ ReadingInv' /\ CacheInv'
  BY <1>2 DEF Hit, AskedInv, ReadingInv, CacheInv
<1>5. ServedIsRecent'
  <2>1. now - cache[n].payload <= MaxAge /\ cache[n].payload >= 0
    BY <1>1, TimesAreIntegers, ProxyAssumption DEF TypeOK, MaxAge
  <2>2. QED
    BY <1>2, <2>1 DEF ServedIsRecent
<1>6. QED
  BY <1>3, <1>4, <1>5

(* A miss starts an upstream request. *)
LEMMA MissInv ==
  ASSUME Inv, NEW r \in Requests, NEW n \in Names, Miss(r, n)
  PROVE  Inv'
<1> USE DEF Inv
<1>1. /\ request'[r] = [phase |-> "asked", name |-> n, asked |-> now,
                        heard |-> now, payload |-> -1]
      /\ \A q \in Requests \ {r} : request'[q] = request[q]
  BY DEF Miss, TypeOK
<1>2. TypeOK'
  <2>1. [phase |-> "asked", name |-> n, asked |-> now, heard |-> now,
         payload |-> -1] \in RequestRecords
    BY DEF TypeOK, RequestRecords, Phases
  <2>2. request' \in [Requests -> RequestRecords]
    BY <2>1 DEF Miss, TypeOK
  <2>3. QED
    BY <2>2 DEF Miss, TypeOK
<1>3. AskedInv'
  BY <1>1, TimesAreIntegers, ProxyAssumption DEF Miss, AskedInv, TypeOK
<1>4. ReadingInv' /\ CacheInv' /\ ServedIsRecent'
  BY <1>1 DEF Miss, ReadingInv, CacheInv, ServedIsRecent
<1>5. QED
  BY <1>2, <1>3, <1>4

(* The header turns an asked request into one that is read. *)
LEMMA HeaderInv ==
  ASSUME Inv, NEW r \in Requests, NEW t \in Times, Header(r, t)
  PROVE  Inv'
<1> USE DEF Inv
<1>1. Reply(r, "reading", t) /\ now' = now /\ cache' = cache
  BY DEF Header
<1>2. now \in Times /\ request[r].asked \in Times /\ request[r].heard \in Times
  BY DEF TypeOK, RequestRecords
<1>3. /\ request'[r].phase = "reading" /\ request'[r].heard = now
      /\ request'[r].payload = t /\ request'[r].asked = request[r].asked
      /\ \A q \in Requests \ {r} : request'[q] = request[q]
  BY <1>1, ReplyEffect DEF Phases
<1>4. TypeOK'
  BY <1>1, ReplyEffect DEF TypeOK, Phases
<1>5. AskedInv' /\ CacheInv' /\ ServedIsRecent'
  BY <1>1, <1>3 DEF AskedInv, CacheInv, ServedIsRecent
<1>6. ReadingInv'
  <2>1. /\ t >= request[r].asked /\ now <= request[r].asked + Idle
        /\ request[r].asked <= now
        /\ now <= now + Idle
    BY <1>2, TimesAreIntegers, ProxyAssumption DEF Header, AskedInv
  <2>2. QED
    BY <1>1, <1>2, <1>3, <2>1, TimesAreIntegers DEF ReadingInv
<1>7. QED
  BY <1>4, <1>5, <1>6

(* A complete answer is cached and served at the same age. *)
LEMMA EndInv ==
  ASSUME Inv, NEW r \in Requests, End(r)
  PROVE  Inv'
<1> USE DEF Inv
<1>1. /\ Reply(r, "served", request[r].payload) /\ now' = now
      /\ request[r].phase = "reading"
      /\ cache' = [cache EXCEPT ![request[r].name] = Entry(r)]
  BY DEF End
<1>2. /\ now \in Times /\ request[r].asked \in Times
      /\ request[r].heard \in Times /\ request[r].name \in Names
      /\ request[r].payload \in Times \cup {-1}
  BY DEF TypeOK, RequestRecords
<1>3. /\ request[r].payload >= request[r].asked
      /\ now <= request[r].asked + 2 * Idle
  BY <1>1, <1>2, TimesAreIntegers, ProxyAssumption DEF ReadingInv
<1>4. /\ request[r].payload \in Times
      /\ now <= request[r].payload + 2 * Idle
  BY <1>2, <1>3, TimesAreIntegers, ProxyAssumption
<1>5. /\ request'[r].phase = "served" /\ request'[r].heard = now
      /\ request'[r].payload = request[r].payload
      /\ \A q \in Requests \ {r} : request'[q] = request[q]
  BY <1>1, <1>2, ReplyEffect DEF Phases
<1>6. Entry(r) \in [at : Times, payload : Times]
  BY <1>2, <1>4 DEF Entry
<1>7. TypeOK'
  <2>1. request' \in [Requests -> RequestRecords]
    BY <1>1, <1>2, ReplyEffect DEF Phases
  <2>2. cache' \in [Names -> Entries]
    BY <1>1, <1>2, <1>6 DEF TypeOK, Entries
  <2>3. QED
    BY <1>1, <2>1, <2>2 DEF TypeOK
<1>8. AskedInv' /\ ReadingInv'
  BY <1>1, <1>5 DEF AskedInv, ReadingInv
<1>9. CacheInv'
  <2> SUFFICES ASSUME NEW n \in Names, cache'[n] # Nothing
               PROVE  /\ cache'[n] \in [at : Times, payload : Times]
                      /\ cache'[n].at <= now
                      /\ cache'[n].at <= cache'[n].payload + 2 * Idle
    BY <1>1 DEF CacheInv
  <2>1. CASE n = request[r].name
    <3>1. cache'[n] = Entry(r)
      BY <1>1, <2>1 DEF TypeOK
    <3>2. QED
      BY <1>2, <1>4, <1>6, <3>1, TimesAreIntegers DEF Entry
  <2>2. CASE n # request[r].name
    <3>1. cache'[n] = cache[n]
      BY <1>1, <2>2 DEF TypeOK
    <3>2. QED
      BY <3>1 DEF CacheInv
  <2>3. QED
    BY <2>1, <2>2
<1>10. ServedIsRecent'
  <2>1. now - request[r].payload <= MaxAge /\ request[r].payload >= 0
    BY <1>2, <1>4, TimesAreIntegers, ProxyAssumption DEF MaxAge
  <2>2. QED
    BY <1>5, <2>1 DEF ServedIsRecent
<1>11. QED
  BY <1>7, <1>8, <1>9, <1>10

(* A request that ends without an answer leaves the cache alone. *)
LEMMA GiveUpInv ==
  ASSUME Inv, NEW r \in Requests, NEW phase \in {"failed", "lost"},
         Reply(r, phase, -1), UNCHANGED <<now, cache>>
  PROVE  Inv'
<1> USE DEF Inv
<1>1. phase \in Phases
  BY DEF Phases
<1>2. /\ request'[r].phase = phase
      /\ \A q \in Requests \ {r} : request'[q] = request[q]
  BY <1>1, ReplyEffect
<1>3. TypeOK'
  BY <1>1, ReplyEffect DEF TypeOK
<1>4. AskedInv' /\ ReadingInv' /\ ServedIsRecent' /\ CacheInv'
  BY <1>2 DEF AskedInv, ReadingInv, ServedIsRecent, CacheInv
<1>5. QED
  BY <1>3, <1>4

(* Time passes only while no upstream request has been silent too long. *)
LEMMA TickInv ==
  ASSUME Inv, Tick
  PROVE  Inv'
<1> USE DEF Inv
<1>1. now' \in Times /\ now \in Times /\ now' = now + 1
  BY ProxyAssumption DEF Tick, TypeOK, Times
<1>2. request' = request /\ cache' = cache
  BY DEF Tick
<1>3. TypeOK' /\ ServedIsRecent'
  BY <1>1, <1>2 DEF TypeOK, ServedIsRecent
<1>4. \A r \in Requests : Upstream(r) => now + 1 <= request[r].heard + Idle
  <2> SUFFICES ASSUME NEW r \in Requests, Upstream(r)
               PROVE  now + 1 <= request[r].heard + Idle
    OBVIOUS
  <2>1. request[r].heard \in Times
    BY DEF TypeOK, RequestRecords
  <2>2. ~ (now - request[r].heard >= Idle)
    BY DEF Tick, Silent
  <2>3. QED
    BY <1>1, <2>1, <2>2, TimesAreIntegers, ProxyAssumption
<1>5. \A r \in Requests : request[r].heard \in Times
  BY DEF TypeOK, RequestRecords
<1>6. AskedInv' /\ ReadingInv'
  BY <1>1, <1>2, <1>4, <1>5, TimesAreIntegers DEF AskedInv, ReadingInv, Upstream
<1>7. CacheInv'
  <2> SUFFICES ASSUME NEW n \in Names, cache[n] # Nothing
               PROVE  /\ cache[n] \in [at : Times, payload : Times]
                      /\ cache[n].at <= now + 1
                      /\ cache[n].at <= cache[n].payload + 2 * Idle
    BY <1>1, <1>2 DEF CacheInv
  <2>1. /\ cache[n] \in [at : Times, payload : Times]
        /\ cache[n].at <= now
        /\ cache[n].at <= cache[n].payload + 2 * Idle
    BY DEF CacheInv
  <2>2. cache[n].at \in Times
    BY <2>1
  <2>3. cache[n].at <= now + 1
    BY <1>1, <2>1, <2>2, TimesAreIntegers
  <2>4. QED
    BY <2>1, <2>3
<1>8. QED
  BY <1>3, <1>6, <1>7

LEMMA NextInv == Inv /\ [Next]_vars => Inv'
<1> SUFFICES ASSUME Inv, [Next]_vars PROVE Inv'
  OBVIOUS
<1>1. CASE Tick
  BY <1>1, TickInv
<1>2. ASSUME NEW r \in Requests, NEW n \in Names, Hit(r, n) \/ Miss(r, n)
      PROVE  Inv'
  BY <1>2, HitInv, MissInv
<1>3. ASSUME NEW r \in Requests, NEW t \in Times, Header(r, t) PROVE Inv'
  BY <1>3, HeaderInv
<1>4. ASSUME NEW r \in Requests, End(r) PROVE Inv'
  BY <1>4, EndInv
<1>5. ASSUME NEW r \in Requests, Fail(r) \/ Timeout(r) \/ Cut(r) PROVE Inv'
  BY <1>5, GiveUpInv DEF Fail, Timeout, Cut
<1>6. CASE UNCHANGED vars
  BY <1>6 DEF vars, Inv, TypeOK, AskedInv, ReadingInv, CacheInv, ServedIsRecent
<1>7. QED
  BY <1>1, <1>2, <1>3, <1>4, <1>5, <1>6 DEF Next

(* Every state of the proxy is of its type. *)
THEOREM TypeCorrect == Spec => []TypeOK
<1>1. Inv => TypeOK
  BY DEF Inv
<1>2. QED
  BY InitInv, NextInv, <1>1, PTL DEF Spec

(* Whatever the clients, the queries and the order of the answers, what is *)
(* served is no older than the time to live and one upstream request.      *)
THEOREM AnswersAreRecent == Spec => []ServedIsRecent
<1>1. Inv => ServedIsRecent
  BY DEF Inv
<1>2. QED
  BY InitInv, NextInv, <1>1, PTL DEF Spec

-----------------------------------------------------------------------------
(* No step asks the database within a time to live of the last answer, and *)
(* an answer only ever makes the entry newer than the requests that are    *)
(* out. *)
LEMMA NextStale ==
  Inv /\ AskedOnlyWhenStale /\ [Next]_vars => AskedOnlyWhenStale'
<1> SUFFICES ASSUME Inv, AskedOnlyWhenStale, [Next]_vars,
                    NEW q \in Requests, Upstream(q)',
                    cache'[request'[q].name] # Nothing
             PROVE  \/ request'[q].asked <= cache'[request'[q].name].at
                    \/ request'[q].asked >= cache'[request'[q].name].at + Ttl
  BY DEF AskedOnlyWhenStale
<1> USE DEF Inv
<1>1. CASE request'[q] = request[q] /\ cache' = cache
  BY <1>1 DEF AskedOnlyWhenStale, Upstream
<1>2. ASSUME NEW r \in Requests, NEW n \in Names, Hit(r, n) PROVE q # r
  BY <1>2 DEF Hit, Upstream, TypeOK
<1>3. ASSUME NEW n \in Names, Miss(q, n)
      PROVE  request'[q].asked >= cache'[request'[q].name].at + Ttl
  <2>1. request'[q].name = n /\ request'[q].asked = now /\ cache' = cache
    BY <1>3 DEF Miss, TypeOK
  <2>2. cache[n] \in [at : Times, payload : Times] /\ ~ (now - cache[n].at < Ttl)
    BY <1>3, <2>1 DEF Miss, Fresh, CacheInv
  <2>3. QED
    BY <2>1, <2>2, TimesAreIntegers, ProxyAssumption DEF TypeOK
<1>4. ASSUME NEW r \in Requests, NEW t \in Times, Header(r, t)
      PROVE  /\ cache' = cache
             /\ request'[q].name = request[q].name
             /\ request'[q].asked = request[q].asked
             /\ Upstream(q)
  <2>1. Reply(r, "reading", t) /\ request[r].phase = "asked" /\ cache' = cache
    BY <1>4 DEF Header
  <2>2. /\ request'[r].name = request[r].name
        /\ request'[r].asked = request[r].asked
        /\ \A p \in Requests \ {r} : request'[p] = request[p]
    BY <2>1, ReplyEffect DEF Phases
  <2>3. QED
    BY <2>1, <2>2 DEF Upstream
<1>5. ASSUME NEW r \in Requests, End(r)
      PROVE  \/ request'[q] = request[q] /\ cache'[request[q].name] = cache[request[q].name]
             \/ request'[q].asked <= cache'[request'[q].name].at
  <2>1. /\ Reply(r, "served", request[r].payload)
        /\ cache' = [cache EXCEPT ![request[r].name] = Entry(r)]
        /\ request[r].payload \in Times \cup {-1}
        /\ request[q] \in RequestRecords /\ request[r].name \in Names
    BY <1>5 DEF End, TypeOK, RequestRecords
  <2>2. request'[r].phase = "served" /\ \A p \in Requests \ {r} : request'[p] = request[p]
    BY <2>1, ReplyEffect DEF Phases
  <2>3. q # r /\ request'[q] = request[q] /\ Upstream(q)
    BY <2>2 DEF Upstream
  <2>4. CASE request[q].name # request[r].name
    BY <2>1, <2>3, <2>4 DEF TypeOK, RequestRecords
  <2>5. CASE request[q].name = request[r].name
    <3>1. cache'[request'[q].name].at = now
      BY <2>1, <2>3, <2>5 DEF TypeOK, Entry
    <3>2. request[q].asked <= now
      <4>1. request[q].asked \in Times /\ request[q].heard \in Times /\ now \in Times
        BY <2>1 DEF TypeOK, RequestRecords
      <4>2. CASE request[q].phase = "asked"
        BY <4>1, <4>2 DEF AskedInv
      <4>3. CASE request[q].phase = "reading"
        BY <4>1, <4>3, TimesAreIntegers DEF ReadingInv
      <4>4. QED
        BY <2>3, <4>2, <4>3 DEF Upstream
    <3>3. QED
      BY <2>3, <3>1, <3>2
  <2>6. QED
    BY <2>4, <2>5
<1>6. ASSUME NEW r \in Requests, Fail(r) \/ Timeout(r) \/ Cut(r)
      PROVE  request'[q] = request[q] /\ cache' = cache
  <2>1. PICK phase \in {"failed", "lost"} : Reply(r, phase, -1) /\ cache' = cache
    BY <1>6 DEF Fail, Timeout, Cut
  <2>2. /\ request'[r].phase = phase
        /\ \A p \in Requests \ {r} : request'[p] = request[p]
    BY <2>1, ReplyEffect DEF Phases
  <2>3. QED
    BY <2>1, <2>2 DEF Upstream
<1>7. CASE Tick
  BY <1>1, <1>7 DEF Tick
<1>8. CASE UNCHANGED vars
  BY <1>1, <1>8 DEF vars
<1>9. ASSUME NEW r \in Requests, NEW n \in Names, Hit(r, n) \/ Miss(r, n), r # q
      PROVE  request'[q] = request[q] /\ cache' = cache
  BY <1>9 DEF Hit, Miss, TypeOK
<1>10. ASSUME NEW r \in Requests, NEW n \in Names, Hit(r, n) \/ Miss(r, n)
       PROVE  \/ request'[q].asked <= cache'[request'[q].name].at
              \/ request'[q].asked >= cache'[request'[q].name].at + Ttl
  BY <1>1, <1>2, <1>3, <1>9, <1>10
<1>11. ASSUME NEW r \in Requests, NEW t \in Times, Header(r, t)
       PROVE  \/ request'[q].asked <= cache'[request'[q].name].at
              \/ request'[q].asked >= cache'[request'[q].name].at + Ttl
  BY <1>4, <1>11 DEF AskedOnlyWhenStale
<1>12. ASSUME NEW r \in Requests, End(r)
       PROVE  \/ request'[q].asked <= cache'[request'[q].name].at
              \/ request'[q].asked >= cache'[request'[q].name].at + Ttl
  BY <1>5, <1>12 DEF AskedOnlyWhenStale, Upstream
<1>13. QED
  BY <1>1, <1>6, <1>7, <1>8, <1>10, <1>11, <1>12 DEF Next

(* However many requests miss at once, the database is asked for a name    *)
(* only by requests that came before its last answer, or a full time to    *)
(* live after it.                                                          *)
THEOREM AnswersAreReused == Spec => []AskedOnlyWhenStale
<1>1. Init => AskedOnlyWhenStale
  BY DEF Init, AskedOnlyWhenStale
<1>2. QED
  BY InitInv, NextInv, NextStale, <1>1, PTL DEF Spec
=============================================================================
