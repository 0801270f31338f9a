-------------------------------- MODULE Proxy --------------------------------
(***************************************************************************)
(* The query proxy: web/proxy.js (the cache and the /api/ handler) over    *)
(* web/chclient.js (one HTTPS request to ClickHouse per miss).             *)
(*                                                                         *)
(* Node runs one callback at a time, so a callback is one action; between  *)
(* the callbacks of one request, any callback of another may run.  The     *)
(* cache is read when a request comes in and written when its answer is    *)
(* complete: nothing keeps two requests from missing on the same name, or  *)
(* the older of their answers from being cached last.                      *)
(*                                                                         *)
(* Simplifications                                                         *)
(*  - A payload is the time the database read its data at.                 *)
(*  - An answer's body arrives in one piece, some time after its header.   *)
(*  - Timers fire on time, and the clock does not step back.               *)
(***************************************************************************)
EXTENDS Integers, FiniteSets

CONSTANTS
  Requests,      \* clients, each with at most one request outstanding
  Names,         \* the keys of QUERIES
  Ttl,           \* CACHE_TTL_MS
  Idle,          \* the request's timeout option: silence that destroys it
  MaxNow         \* bound: the clock

ASSUME ProxyAssumption ==
  /\ Ttl \in Nat /\ Idle \in Nat /\ Idle > 0 /\ MaxNow \in Nat

VARIABLES
  now,           \* Date.now()
  cache,         \* name -> the Map's entry, or Nothing
  request        \* client -> its request

vars == <<now, cache, request>>

Times == 0 .. MaxNow

Nothing == [at |-> -1, payload |-> -1]

Entries == [at : Times, payload : Times] \cup {Nothing}

Phases ==
  {"idle",       \* no request yet
   "asked",      \* sent to ClickHouse, no answer yet
   "reading",    \* the header is in, the body is not
   "served",     \* 200
   "failed",     \* 502
   "lost"}       \* the promise will never settle

RequestRecords ==
  [phase : Phases, name : Names,
   asked : Times,            \* when it came in
   heard : Times,            \* when its socket last did anything; served at
   payload : Times \cup {-1}]

Upstream(r) == request[r].phase \in {"asked", "reading"}

TypeOK ==
  /\ now \in Times
  /\ cache \in [Names -> Entries]
  /\ request \in [Requests -> RequestRecords]

Init ==
  /\ now = 0
  /\ cache = [n \in Names |-> Nothing]
  /\ request \in
       {[r \in Requests |-> [phase |-> "idle", name |-> n, asked |-> 0,
                             heard |-> 0, payload |-> -1]] : n \in Names}

-----------------------------------------------------------------------------
(* runQuery *)

(* Mutant: an entry never expires. *)
Fresh_Forever(entry) == entry # Nothing

Fresh(entry) == entry # Nothing /\ now - entry.at < Ttl

Reply(r, phase, payload) ==
  request' = [request EXCEPT ![r].phase = phase, ![r].heard = now,
                             ![r].payload = payload]

Open(r) == ~ Upstream(r) /\ request[r].phase # "lost"

(* A GET /api/name is answered from the cache, ... *)
Hit(r, n) ==
  /\ Open(r) /\ Fresh(cache[n])
  /\ request' = [request EXCEPT ![r] =
       [phase |-> "served", name |-> n, asked |-> now, heard |-> now,
        payload |-> cache[n].payload]]
  /\ UNCHANGED <<now, cache>>

(* ... or passed on. *)
Miss(r, n) ==
  /\ Open(r) /\ ~ Fresh(cache[n])
  /\ now + 2 * Idle <= MaxNow
  /\ request' = [request EXCEPT ![r] =
       [phase |-> "asked", name |-> n, asked |-> now, heard |-> now,
        payload |-> -1]]
  /\ UNCHANGED <<now, cache>>

(* ClickHouse reads its data, at some time since it was asked, and starts  *)
(* to answer. *)
Header(r, t) ==
  /\ request[r].phase = "asked"
  /\ request[r].asked <= t /\ t <= now
  /\ Reply(r, "reading", t)
  /\ UNCHANGED <<now, cache>>

(* Mutant: an entry is stamped with the time its request came in. *)
Entry_Asked(r) == [at |-> request[r].asked, payload |-> request[r].payload]

Entry(r) == [at |-> now, payload |-> request[r].payload]

(* 'end', with status 200: the payload is cached and served. *)
End(r) ==
  /\ request[r].phase = "reading"
  /\ cache' = [cache EXCEPT ![request[r].name] = Entry(r)]
  /\ Reply(r, "served", request[r].payload)
  /\ UNCHANGED now

(* Mutant: a failure is remembered like an answer. *)
Fail_Remembered(r) ==
  /\ Upstream(r)
  /\ cache' = [cache EXCEPT ![request[r].name] = [at |-> now, payload |-> -1]]
  /\ Reply(r, "failed", -1)
  /\ UNCHANGED now

(* 'end' with any other status, or 'error': the cache is left alone. *)
Fail(r) ==
  /\ Upstream(r)
  /\ Reply(r, "failed", -1)
  /\ UNCHANGED <<now, cache>>

Silent(r) == Upstream(r) /\ now - request[r].heard >= Idle

(* Mutant: the timeout option is set and its event is not handled. *)
Timeout_Unhandled(r) ==
  /\ Silent(r)
  /\ UNCHANGED vars

(* 'timeout' destroys the request, which raises 'error'. *)
Timeout(r) ==
  /\ Silent(r)
  /\ Reply(r, "failed", -1)
  /\ UNCHANGED <<now, cache>>

(* The connection is closed in the middle of a body.  The response emits   *)
(* 'aborted' and neither 'end' nor, nobody listening, 'error'; the request *)
(* emits no 'error' once it has a response. *)
Cut(r) ==
  /\ request[r].phase = "reading"
  /\ Reply(r, "lost", -1)
  /\ UNCHANGED <<now, cache>>

Tick ==
  /\ now < MaxNow
  /\ \A r \in Requests : ~ Silent(r)
  /\ now' = now + 1
  /\ UNCHANGED <<cache, request>>

Next ==
  \/ Tick
  \/ \E r \in Requests :
       \/ \E n \in Names : Hit(r, n) \/ Miss(r, n)
       \/ \E t \in Times : Header(r, t)
       \/ End(r) \/ Fail(r) \/ Timeout(r) \/ Cut(r)

(* The clock advances and a timer that is due fires.  Nothing is assumed of *)
(* ClickHouse or of the network. *)
Spec ==
  /\ Init /\ [][Next]_vars
  /\ WF_vars(Tick)
  /\ \A r \in Requests : WF_vars(Timeout(r))

-----------------------------------------------------------------------------
(* How old an answer may be: the time to live, and the two silences an     *)
(* upstream request survives. *)
MaxAge == Ttl + 2 * Idle

(* A 200 answer is no older than the cache's time to live and one upstream *)
(* request together, whichever answer was cached last: an older answer     *)
(* that overwrites a newer one does not live longer for it.                *)
(* (proxy.js, runQuery.) *)
ServedIsRecent ==
  \A r \in Requests :
    request[r].phase = "served" =>
      /\ request[r].payload >= 0
      /\ request[r].heard - request[r].payload <= MaxAge

(* What the cache comes to for the database: a query is out only if it was *)
(* asked before the last complete answer of its name, or a full time to    *)
(* live after it.  Between the two nothing bounds how many are out at once *)
(* (proxy.js:48-51). *)
AskedOnlyWhenStale ==
  \A r \in Requests :
    LET entry == cache[request[r].name] IN
    Upstream(r) /\ entry # Nothing =>
      \/ request[r].asked <= entry.at
      \/ request[r].asked >= entry.at + Ttl

(* Every request that waits for ClickHouse stops waiting, with an answer,  *)
(* a 502, or its connection cut: silence alone never holds a client        *)
(* (chclient.js, req.on('timeout')). *)
SilenceEnds == \A r \in Requests : Upstream(r) ~> ~ Upstream(r)
=============================================================================
