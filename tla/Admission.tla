----------------------------- MODULE Admission -----------------------------
(***************************************************************************)
(* The way of a request to the engine and of its answer back: the client   *)
(* with its timeouts and retries (hebbs-client), a network that loses      *)
(* either, the server's key cache and token buckets (hebbs-core auth.rs    *)
(* and rate_limit.rs, hebbs-server middleware.rs), the handlers, and the   *)
(* server's start, drain and end (server.rs).                              *)
(*                                                                         *)
(* A handler checks the key, the permission (gRPC only) and the bucket,    *)
(* and hands the call to a blocking task, which nothing can take back: not *)
(* the caller's timeout, not the end of the handler.  Handlers has what    *)
(* each of them asks and calls.                                            *)
(***************************************************************************)
EXTENDS Handlers, Integers, FiniteSets

CONSTANTS
  Calls,          \* calls made by clients
  Requests,       \* per call, what it may ask: [op, via, key, tenant, valid],
                  \* for a handler of Handlers
  Provisioned,    \* the sets of key records a store may hold at first
  Tenants, Default,
  Classes,        \* OperationClass
  Burst, Rate,    \* per class: tokens a bucket holds, parts it gets a tick
  Unit,           \* parts of a token: the tokens are fractions
  MaxRetries,     \* RetryPolicy::max_retries
  MaxTime,        \* bound on the clock
  Bounds,         \* what a behavior may do: [time, crashes, failures], bounds
                  \* on the clock, on crashes and stops of the server, and on
                  \* failing storage calls of its start
  None

ASSUME DefaultIsTenant == Default \in Tenants
ASSUME BucketsHoldTokens ==
  /\ Burst \in [Classes -> Nat] /\ \A k \in Classes : Burst[k] > 0
  /\ Rate \in [Classes -> Nat] /\ \A k \in Classes : Rate[k] > 0
  /\ Unit \in Nat \ {0}
ASSUME NoneIsNoBucket == None \notin [tokens : Nat, last : Nat]
\* A store has one bootstrap key at most when the first server starts on it.
ASSUME OneBootKeyAtFirst ==
  \A S \in Provisioned : \A j, k \in S : j.name < 0 /\ k.name < 0 => j = k
ASSUME BoundsAreNumbers ==
  /\ {MaxRetries, MaxTime} \subseteq Nat
  /\ Bounds \subseteq [time : 0 .. MaxTime, crashes : Nat, failures : Nat]

VARIABLES
  now,         \* the clock
  auth,        \* config.auth.enabled
  keyStore,    \* key records in the Meta column family
  keyCache,    \* KeyCache
  told,        \* bootstrap keys printed to the operator
  boots,       \* bootstrap keys generated
  server,      \* what the process does
  drained,     \* listeners that have drained
  bounds,      \* one of Bounds
  crashes, failures,  \* so far
  buckets,     \* <<tenant, class>> -> [tokens, last], or None
  since,       \* history: admissions of a bucket from a time on, in this life
  hint,        \* history: the last denial of a bucket not followed by an
               \* admission: the time it named, or None
  call,        \* the clients' calls: [state, request, attempt]
  work,        \* call -> attempt -> its stage
  executed     \* history: [attempt, tenant] the engine executed, per call

keyVars == <<keyStore, keyCache, told, boots>>
bucketVars == <<buckets, since, hint>>
serverVars == <<server, drained, bounds, crashes, failures>>
vars == <<now, auth, keyVars, serverVars, bucketVars, call, work, executed>>

Attempts == 1 .. MaxRetries + 1
Buckets == Tenants \X Classes
Listeners == {"grpc", "rest"}
Fresh == [state |-> "idle", request |-> None, attempt |-> 0]
Full(b) == Burst[b[2]] * Unit
NoHistory == [b \in Buckets |-> [s \in 0 .. MaxTime |-> 0]]

\* generate_key of the bootstrap: bound to the default tenant, every
\* permission, no expiry, and another one each time.
BootKey(n) == [name |-> -n, tenant |-> Default, perms |-> Classes, expires |-> None]

Init ==
  /\ now = 0 /\ auth \in BOOLEAN
  /\ keyStore \in Provisioned /\ keyCache = {} /\ told = {} /\ boots = 0
  /\ server = "down" /\ drained = {} /\ bounds \in Bounds /\ crashes = 0 /\ failures = 0
  /\ buckets = [b \in Buckets |-> None]
  /\ since = NoHistory /\ hint = [b \in Buckets |-> None]
  /\ call = [c \in Calls |-> Fresh]
  /\ work = [c \in Calls |-> [n \in Attempts |-> "none"]]
  /\ executed = [c \in Calls |-> {}]

----------------------------------------------------------------------------
(* The client. *)

\* The other calls are sent once, those that only read among them; REST callers
\* do not retry here either.
Retried(r) == r.via = "grpc" /\ r.op \in {"get", "recall", "prime"}
RetryableStatus == {"unavailable", "limited", "timeout"}

Start(c, r) ==
  /\ call[c] = Fresh
  /\ call' = [call EXCEPT ![c] = [state |-> "waiting", request |-> r, attempt |-> 1]]
  /\ work' = [work EXCEPT ![c][1] = "sent"]
  /\ UNCHANGED <<now, auth, keyVars, serverVars, bucketVars, executed>>

\* Mutant: every call that met a passing error is tried again.
AfterAny(q, status) ==
  IF status \in RetryableStatus /\ q.attempt < MaxRetries + 1
  THEN [q EXCEPT !.state = "backoff"]
  ELSE [q EXCEPT !.state = status]
\* What becomes of a call whose attempt ended in a status.
After(q, status) ==
  IF /\ status \in RetryableStatus /\ Retried(q.request)
     /\ q.attempt < MaxRetries + 1
  THEN [q EXCEPT !.state = "backoff"]
  ELSE [q EXCEPT !.state = status]

Ended == {"ok", "denied", "limited", "invalid", "missing", "unavailable", "internal", "timeout"}

Receive(c) ==
  /\ call[c].state = "waiting"
  /\ LET status == work[c][call[c].attempt]
     IN status \in Ended /\ call' = [call EXCEPT ![c] = After(@, status)]
  /\ UNCHANGED <<now, auth, keyVars, serverVars, bucketVars, work, executed>>

\* The client's timeout, or a connection that breaks or cannot be made.  A
\* request or an answer that is lost is one that is waited for until then.
GiveUp(c) ==
  /\ call[c].state = "waiting"
  /\ \E status \in {"timeout", "unavailable"} : call' = [call EXCEPT ![c] = After(@, status)]
  /\ UNCHANGED <<now, auth, keyVars, serverVars, bucketVars, work, executed>>

\* The end of a backoff.
Resend(c) ==
  /\ call[c].state = "backoff"
  /\ call' = [call EXCEPT ![c].state = "waiting", ![c].attempt = @ + 1]
  /\ work' = [work EXCEPT ![c][call[c].attempt + 1] = "sent"]
  /\ UNCHANGED <<now, auth, keyVars, serverVars, bucketVars, executed>>

----------------------------------------------------------------------------
(* Keys and buckets. *)

\* KeyCache::validate: a key is good until after its time.
Expired(k) == k.expires # None /\ now > k.expires
Valid(k) == k \in keyCache /\ ~Expired(k)

HandlerOf(r) == Handler(r.via, r.op)

\* check_permission, in the gRPC handlers only.
Permitted(r) == HandlerOf(r).perm # Nothing => HandlerOf(r).perm \in r.key.perms

\* The interceptor or the middleware, where there is one, and the permission.
Accepted(r) == HandlerOf(r).key => r.key # None /\ Valid(r.key) /\ Permitted(r)

AuthTenant(r) == IF auth /\ HandlerOf(r).key THEN r.key.tenant ELSE Default

\* resolve_tenant: a key of another tenant than the default binds; otherwise
\* a gRPC request may name one.
ResolvedTenant(r) ==
  CASE HandlerOf(r).tenant = "default" -> Default
    [] HandlerOf(r).tenant = "named" /\ AuthTenant(r) = Default /\ r.tenant # None -> r.tenant
    [] OTHER -> AuthTenant(r)

BucketOf(r) == <<AuthTenant(r), OperationClass(HandlerOf(r).limit)>>
Limited(r) == HandlerOf(r).limit # Nothing

Least(x, y) == IF x <= y THEN x ELSE y
\* TokenBucket::refill, of a bucket that is made full when it is first asked.
Tokens(b) ==
  IF buckets[b] = None THEN Full(b)
  ELSE Least(Full(b), buckets[b].tokens + Rate[b[2]] * (now - buckets[b].last))

Ceiling(x, y) == (x + y - 1) \div y

\* Mutant: the bucket is refilled beyond what it holds.
AdmitUncapped(b) ==
  LET t == IF buckets[b] = None THEN Full(b)
           ELSE buckets[b].tokens + Rate[b[2]] * (now - buckets[b].last)
  IN /\ t >= Unit
     /\ buckets' = [buckets EXCEPT ![b] = [tokens |-> t - Unit, last |-> now]]
     /\ since' = [since EXCEPT ![b] = [s \in 0 .. MaxTime |-> IF s <= now THEN @[s] + 1 ELSE @[s]]]
     /\ hint' = [hint EXCEPT ![b] = None]

Admit(b) ==
  /\ Tokens(b) >= Unit
  /\ buckets' = [buckets EXCEPT ![b] = [tokens |-> Tokens(b) - Unit, last |-> now]]
  /\ since' = [since EXCEPT ![b] = [s \in 0 .. MaxTime |-> IF s <= now THEN @[s] + 1 ELSE @[s]]]
  /\ hint' = [hint EXCEPT ![b] = None]
\* The denial says how long to wait for a whole token.
Deny(b) ==
  /\ Tokens(b) < Unit
  /\ buckets' = [buckets EXCEPT ![b] = [tokens |-> Tokens(b), last |-> now]]
  /\ hint' = [hint EXCEPT ![b] = now + Ceiling(Unit - Tokens(b), Rate[b[2]])]
  /\ UNCHANGED since

Passes(r) == IF Limited(r) THEN Admit(BucketOf(r)) ELSE UNCHANGED bucketVars

----------------------------------------------------------------------------
(* The server handles requests. *)

Serving(via) == server = "serving" \/ (server = "draining" /\ via \notin drained)

Reject(c, n, status) ==
  /\ work' = [work EXCEPT ![c][n] = status]
  /\ UNCHANGED <<now, auth, keyVars, serverVars, call, executed>>

\* A handler up to the blocking task: key, permission, bucket, input.  One
\* that calls nothing answers as if it had.
Handle(c, n) ==
  LET r == call[c].request
  IN /\ work[c][n] = "sent" /\ Serving(r.via)
     /\ \/ /\ auth /\ ~Accepted(r)
           /\ Reject(c, n, "denied") /\ UNCHANGED bucketVars
        \/ /\ auth => Accepted(r)
           /\ \/ Limited(r) /\ Deny(BucketOf(r)) /\ Reject(c, n, "limited")
              \/ Passes(r) /\ HandlerOf(r).checks /\ ~r.valid /\ Reject(c, n, "invalid")
              \/ Passes(r) /\ (HandlerOf(r).checks => r.valid) /\ Reject(c, n, "running")
\* The engine calls.  Arguments are refused before anything is stored; any
\* other error may leave something stored (Engine.tla has the steps).
Execute(c, n) ==
  LET r == call[c].request
  IN /\ work[c][n] \in {"running", "detached"}
     /\ \E error \in EngineErrors \cup {None}, effect \in BOOLEAN :
          LET status == IF error = None THEN "ok" ELSE StatusOf(error)
          IN /\ IF error = None THEN effect ELSE CanFail(HandlerOf(r))
             /\ error # None /\ effect => error # "input" /\ CanStore(HandlerOf(r))
             /\ work' = [work EXCEPT ![c][n] = IF @ = "detached" THEN "lost" ELSE status]
             /\ executed' = [executed EXCEPT ![c] =
                  IF effect THEN @ \cup {[attempt |-> n, tenant |-> ResolvedTenant(r)]} ELSE @]
     /\ UNCHANGED <<now, auth, keyVars, serverVars, bucketVars, call>>

----------------------------------------------------------------------------
(* The server starts, drains and ends. *)

Goto(s) == server' = s /\ UNCHANGED <<drained, bounds, crashes, failures>>
Fails == failures < bounds.failures /\ failures' = failures + 1

\* load_from_storage; a storage error and a record that does not parse are only
\* logged.
Load ==
  /\ server = "down"
  /\ server' = "loaded" /\ drained' = {} /\ UNCHANGED <<bounds, crashes>>
  /\ \/ keyCache' = keyStore /\ UNCHANGED failures
     \/ Fails /\ keyCache' \in SUBSET keyStore
  /\ UNCHANGED <<now, auth, keyStore, told, boots, bucketVars, call, work, executed>>

\* KeyCache::insert puts the key first: a failure leaves the server without.
PutBootKey ==
  /\ server = "loaded" /\ auth /\ keyCache = {}
  /\ boots' = boots + 1
  /\ \/ keyStore' = keyStore \cup {BootKey(boots + 1)} /\ Goto("stored")
     \/ /\ server' = "serving" /\ Fails
        /\ UNCHANGED <<keyStore, drained, bounds, crashes>>
  /\ UNCHANGED <<now, auth, keyCache, told, bucketVars, call, work, executed>>

\* Mutant: the printed key never reaches the cache.
CacheForgotten ==
  /\ server = "stored" /\ Goto("cached")
  /\ UNCHANGED <<now, auth, keyVars, bucketVars, call, work, executed>>

CacheBootKey ==
  /\ server = "stored"
  /\ keyCache' = keyCache \cup {BootKey(boots)} /\ Goto("cached")
  /\ UNCHANGED <<now, auth, keyStore, told, boots, bucketVars, call, work, executed>>
\* The key is printed, once.
TellBootKey ==
  /\ server = "cached"
  /\ told' = told \cup {BootKey(boots)} /\ Goto("serving")
  /\ UNCHANGED <<now, auth, keyStore, keyCache, boots, bucketVars, call, work, executed>>

Serve ==
  /\ server = "loaded" /\ (auth => keyCache # {}) /\ Goto("serving")
  /\ UNCHANGED <<now, auth, keyVars, bucketVars, call, work, executed>>

\* A signal reaches both listeners and the timer that forces the exit.
Signal ==
  /\ server = "serving" /\ crashes < bounds.crashes /\ Goto("draining")
  /\ UNCHANGED <<now, auth, keyVars, bucketVars, call, work, executed>>

Busy(via) ==
  \E c \in Calls, n \in Attempts : work[c][n] = "running" /\ call[c].request.via = via

\* A listener without requests is done; the first one that is ends the
\* select, which drops the other with whatever it still waits for.  Blocking
\* tasks go on.
Drain(via) ==
  /\ server = "draining" /\ ~Busy(via)
  /\ server' = "stopping" /\ drained' = {via} /\ UNCHANGED <<bounds, crashes, failures>>
  /\ work' = [c \in Calls |-> [n \in Attempts |->
                CASE work[c][n] = "running" -> "detached"
                  [] work[c][n] = "sent" -> "lost"
                  [] OTHER -> work[c][n]]]
  /\ UNCHANGED <<now, auth, keyVars, bucketVars, call, executed>>

Gone ==
  /\ server' = "down" /\ drained' = {} /\ crashes' = crashes + 1 /\ UNCHANGED <<bounds, failures>>
  /\ keyCache' = {}
  /\ buckets' = [b \in Buckets |-> None] /\ since' = NoHistory
  /\ hint' = [b \in Buckets |-> None]
  /\ work' = [c \in Calls |-> [n \in Attempts |->
                IF work[c][n] \in {"running", "detached", "sent"} THEN "lost" ELSE work[c][n]]]
  /\ UNCHANGED <<now, auth, keyStore, told, boots, call, executed>>

\* The process ends when its blocking tasks have.
Exit ==
  /\ server = "stopping" /\ \A c \in Calls, n \in Attempts : work[c][n] # "detached"
  /\ Gone

\* A crash at any step, or the forced exit of a drain that takes too long.
Crash == server # "down" /\ crashes < bounds.crashes /\ Gone

Tick ==
  /\ now < bounds.time /\ now' = now + 1
  /\ UNCHANGED <<auth, keyVars, serverVars, bucketVars, call, work, executed>>

Client(c) == Receive(c) \/ GiveUp(c) \/ Resend(c)

Next ==
  \/ \E c \in Calls : Client(c) \/ \E r \in Requests[c] : Start(c, r)
  \/ \E c \in Calls, n \in Attempts : Handle(c, n) \/ Execute(c, n)
  \/ Load \/ PutBootKey \/ CacheBootKey \/ TellBootKey \/ Serve
  \/ Signal \/ (\E via \in Listeners : Drain(via)) \/ Exit \/ Crash \/ Tick

Spec == Init /\ [][Next]_vars

----------------------------------------------------------------------------
(* Properties. *)

TypeOK ==
  /\ now \in 0 .. MaxTime /\ auth \in BOOLEAN
  /\ buckets \in [Buckets -> [tokens : Nat, last : 0 .. MaxTime] \cup {None}]
  /\ since \in [Buckets -> [0 .. MaxTime -> Nat]]
  /\ \A b \in Buckets : buckets[b] # None => buckets[b].tokens <= Full(b) /\ buckets[b].last <= now

\* In no window of time does a bucket let more through than a full bucket
\* and what the window adds to it.
WindowBound ==
  \A b \in Buckets : \A s \in 0 .. now :
    since[b][s] * Unit <= Full(b) + Rate[b[2]] * (now - s)

\* A caller that waits as long as its denial said finds a token, unless
\* another call of the bucket was admitted meanwhile.
HintKept ==
  \A b \in Buckets : hint[b] # None /\ now >= hint[b] => Tokens(b) >= Unit

\* Token buckets, through any order of requests, ticks and restarts.
BucketsHonest == WindowBound /\ HintKept

\* A call of a handler that acts for the key's tenant, with a key bound to one.
Keyed(r) ==
  HandlerOf(r).key /\ HandlerOf(r).tenant # "default" /\ r.key.tenant # Default

\* What a call ends with is true.  "ok" was executed; a write that ended
\* denied, limited or invalid was not, whatever else is under way; a write
\* is executed once at most, however answers are lost and servers restart,
\* and a read no more often than the policy allows.  The engine ran it for
\* the tenant the key is bound to, where the handler passes it on.
OutcomesTrue ==
  \A c \in Calls :
    /\ call[c].state = "ok" => executed[c] # {}
    /\ call[c].state \in Ended \ {"ok"} /\ ~Retried(call[c].request)
         => (call[c].state \in {"denied", "limited", "invalid"} => executed[c] = {})
    /\ call[c] # Fresh =>
         /\ Cardinality(executed[c]) <= IF Retried(call[c].request) THEN MaxRetries + 1 ELSE 1
         /\ \A x \in executed[c] :
              auth /\ Keyed(call[c].request) => x.tenant = call[c].request.key.tenant

\* A server that serves knows the keys in storage: all of them unless the
\* load failed, and none that is not there; and without failures there is at
\* most one bootstrap key, through crashes at every step of a start.
KeysAgree ==
  /\ keyCache \subseteq keyStore
  /\ server \in {"serving", "draining"} /\ failures = 0 => keyCache = keyStore
  /\ failures = 0 => Cardinality({k \in keyStore : k.name < 0}) <= 1

\* server.rs:119 prints the key that "will not be shown again": a server that
\* wants keys has told one.  A crash between the put and the print leaves a
\* stored key that nobody knows (MCAdmissionFindings.cfg).
SomeKeyTold ==
  server = "serving" /\ auth /\ failures = 0 /\ (\A k \in keyStore : k.name < 0) => told # {}

\* server.rs:262 "draining connections": a call under way when the signal
\* comes is answered (MCAdmissionFindings.cfg).
DrainAnswers == \A c \in Calls, n \in Attempts : work[c][n] # "detached"
============================================================================
