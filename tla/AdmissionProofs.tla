-------------------------- MODULE AdmissionProofs --------------------------
(* Proofs about Admission: for any tenants, classes, bursts and rates and   *)
(* any number of calls, buckets admit no more than they promise and denials *)
(* name a time that is enough; and a call's outcome tells what the engine   *)
(* did.                                                                     *)
EXTENDS Admission, FiniteSetTheorems, TLAPS

----------------------------------------------------------------------------
(* The buckets. *)

Bucket == [tokens : Nat, last : 0 .. MaxTime]

BucketTypes ==
  /\ now \in 0 .. MaxTime /\ auth \in BOOLEAN /\ bounds \in Bounds
  /\ buckets \in [Buckets -> Bucket \cup {None}]
  /\ since \in [Buckets -> [0 .. MaxTime -> Nat]]
  /\ hint \in [Buckets -> Nat \cup {None}]
  /\ \A b \in Buckets :
       buckets[b] # None => buckets[b].tokens <= Full(b) /\ buckets[b].last <= now

\* What the invariant says of one bucket.  Nothing counts from a later time
\* on; what a window let through is, with the tokens there are, no more than
\* what it had; and at the time a denial named there will be a whole token.
Honest(b) ==
  /\ buckets[b] \in Bucket \cup {None}
  /\ since[b] \in [0 .. MaxTime -> Nat]
  /\ hint[b] \in Nat \cup {None}
  /\ buckets[b] # None => buckets[b].tokens <= Full(b) /\ buckets[b].last <= now
  /\ \A s \in 0 .. MaxTime :
       IF s > now THEN since[b][s] = 0
       ELSE since[b][s] * Unit + Tokens(b) <= Full(b) + Rate[b[2]] * (now - s)
  /\ hint[b] # None =>
       IF now >= hint[b] THEN Tokens(b) >= Unit
       ELSE Tokens(b) + Rate[b[2]] * (hint[b] - now) >= Unit

BucketInv == BucketTypes /\ \A b \in Buckets : Honest(b)

\* What a step does to the clock and the buckets.
BucketStep ==
  /\ UNCHANGED <<auth, bounds>>
  /\ \/ UNCHANGED <<now, bucketVars>>
     \/ \E b : (Admit(b) \/ Deny(b)) /\ UNCHANGED now
     \/ now < bounds.time /\ now' = now + 1 /\ UNCHANGED bucketVars
     \/ /\ buckets' = [b \in Buckets |-> None] /\ since' = NoHistory
        /\ hint' = [b \in Buckets |-> None] /\ UNCHANGED now

\* Every action is one of these steps.
LEMMA StepOfBuckets == Next => BucketStep
<1> USE DEF BucketStep, keyVars, serverVars, bucketVars, Goto, Gone
<1> SUFFICES ASSUME Next PROVE BucketStep
  OBVIOUS
<1>1. CASE \E c \in Calls : Client(c) \/ \E r \in Requests[c] : Start(c, r)
  BY <1>1 DEF Client, Receive, GiveUp, Resend, Start
<1>2. ASSUME NEW c \in Calls, NEW n \in Attempts, Handle(c, n) PROVE BucketStep
  BY <1>2 DEF Handle, Passes, Reject
<1>3. ASSUME NEW c \in Calls, NEW n \in Attempts, Execute(c, n) PROVE BucketStep
  BY <1>3 DEF Execute
<1>4. CASE Load \/ PutBootKey \/ CacheBootKey \/ TellBootKey \/ Serve
  BY <1>4 DEF Load, PutBootKey, CacheBootKey, TellBootKey, Serve
<1>5. CASE Signal \/ (\E via \in Listeners : Drain(via)) \/ Exit \/ Crash
  BY <1>5 DEF Signal, Drain, Exit, Crash
<1>6. CASE Tick
  BY <1>6 DEF Tick
<1> QED
  BY <1>1, <1>2, <1>3, <1>4, <1>5, <1>6 DEF Next

\* What the constants of a bucket are.
LEMMA BucketConstants ==
  ASSUME NEW b \in Buckets
  PROVE  /\ Full(b) \in Nat /\ Full(b) >= Unit
         /\ Rate[b[2]] \in Nat /\ Rate[b[2]] > 0 /\ Unit \in Nat /\ Unit > 0
<1>1. b[2] \in Classes /\ Burst[b[2]] \in Nat /\ Burst[b[2]] > 0
  BY BucketsHoldTokens DEF Buckets
<1>2. Rate[b[2]] \in Nat /\ Rate[b[2]] > 0 /\ Unit \in Nat /\ Unit > 0
  BY <1>1, BucketsHoldTokens
<1>3. \A x, u \in Nat : x > 0 => x * u \in Nat /\ x * u >= u
  OBVIOUS
<1> QED
  BY <1>1, <1>2, <1>3 DEF Full

\* A bucket never holds more than it may.
LEMMA TokensBounded ==
  ASSUME BucketTypes, NEW b \in Buckets
  PROVE  Tokens(b) \in Nat /\ Tokens(b) <= Full(b)
<1>1. CASE buckets[b] = None
  BY <1>1, BucketConstants DEF Tokens
<1>2. CASE buckets[b] # None
  <2>1. buckets[b].tokens \in Nat /\ now - buckets[b].last \in Nat
    BY <1>2 DEF BucketTypes, Bucket
  <2>2. \A x, y \in Nat : x * y \in Nat
    OBVIOUS
  <2>3. Rate[b[2]] * (now - buckets[b].last) \in Nat
    BY <2>1, <2>2, BucketConstants
  <2> QED
    BY <1>2, <2>1, <2>3, BucketConstants DEF Tokens, Least
<1> QED
  BY <1>1, <1>2

\* A tick adds the rate to what is there, up to what the bucket holds.
LEMMA TickRefills ==
  ASSUME BucketTypes, NEW b \in Buckets, now' = now + 1, UNCHANGED bucketVars
  PROVE  Tokens(b)' = Least(Full(b), Tokens(b) + Rate[b[2]])
<1> USE BucketConstants
<1>1. CASE buckets[b] = None
  BY <1>1 DEF Tokens, Least, bucketVars, Full
<1>2. CASE buckets[b] # None
  <2> DEFINE t == buckets[b].tokens
  <2> DEFINE d == now - buckets[b].last
  <2>1. t \in Nat /\ d \in Nat /\ now \in Nat
    BY <1>2, BoundsAreNumbers DEF BucketTypes, Bucket
  <2>2. \A r, x \in Nat : r * x \in Nat /\ r * (x + 1) = r * x + r
    OBVIOUS
  <2>3. now' - buckets'[b].last = d + 1 /\ buckets'[b] = buckets[b]
    BY <1>2, <2>1 DEF bucketVars, BucketTypes, Bucket
  <2>4. Tokens(b)' = Least(Full(b), t + Rate[b[2]] * (d + 1))
    BY <1>2, <2>3 DEF Tokens, Full, bucketVars
  <2>5. Tokens(b) = Least(Full(b), t + Rate[b[2]] * d)
    BY <1>2 DEF Tokens
  <2> HIDE DEF t, d
  <2> QED
    BY <2>1, <2>2, <2>4, <2>5 DEF Least
<1> QED
  BY <1>1, <1>2

\* Where nothing is done to a bucket at all, its tokens are the same.
LEMMA TokensSame ==
  ASSUME NEW b, now' = now, buckets'[b] = buckets[b]
  PROVE  Tokens(b)' = Tokens(b)
BY DEF Tokens, Full

\* A bucket that has just been written holds what was written.
LEMMA TokensWritten ==
  ASSUME NEW b \in Buckets, NEW t \in Nat, t <= Full(b), now \in Nat, now' = now,
         buckets'[b] = [tokens |-> t, last |-> now], buckets'[b] # None
  PROVE  Tokens(b)' = t
<1>1. \A r \in Nat : r * 0 = 0
  OBVIOUS
<1>2. now' - buckets'[b].last = 0 /\ buckets'[b].tokens = t
  OBVIOUS
<1>3. Tokens(b)' = Least(Full(b), t + Rate[b[2]] * 0)
  BY <1>2 DEF Tokens, Full
<1> QED
  BY <1>1, <1>3, BucketConstants DEF Least

\* Rounded up, the wait is enough.
LEMMA CeilingEnough ==
  ASSUME NEW x \in Nat, NEW y \in Nat, y > 0
  PROVE  Ceiling(x, y) \in Nat /\ y * Ceiling(x, y) >= x
<1>1. \A z \in Nat : z \div y \in Nat /\ y * (z \div y) > z - y
  OBVIOUS
<1>2. x + y - 1 \in Nat
  OBVIOUS
<1>3. (x + y - 1) \div y \in Nat /\ y * ((x + y - 1) \div y) > x + y - 1 - y
  BY <1>1, <1>2
<1>4. \A w \in Int : w > x + y - 1 - y => w >= x
  OBVIOUS
<1>5. \A q \in Nat : y * q \in Int
  OBVIOUS
<1> QED
  BY <1>3, <1>4, <1>5 DEF Ceiling

\* A bucket nothing was done to is as honest as before.
LEMMA UntouchedHonest ==
  ASSUME NEW b \in Buckets, Honest(b), now' = now, buckets'[b] = buckets[b],
         since'[b] = since[b], hint'[b] = hint[b]
  PROVE  Honest(b)'
<1>1. Tokens(b)' = Tokens(b) /\ Full(b)' = Full(b)
  BY TokensSame DEF Full
<1> QED
  BY <1>1 DEF Honest

\* An admission takes a token from the bucket and counts for every window.
LEMMA AdmitHonest ==
  ASSUME BucketTypes, NEW b \in Buckets, Honest(b), Admit(b), now' = now
  PROVE  Honest(b)'
<1> DEFINE t == Tokens(b)
<1>1. t \in Nat /\ t <= Full(b) /\ t >= Unit
  BY TokensBounded DEF Admit
<1>2. Unit \in Nat /\ Unit > 0 /\ Full(b) \in Nat /\ Rate[b[2]] \in Nat
  BY BucketConstants
<1>3. t - Unit \in Nat /\ t - Unit <= Full(b)
  BY <1>1, <1>2
<1>4. now \in 0 .. MaxTime /\ MaxTime \in Nat /\ now \in Nat
  BY BoundsAreNumbers DEF BucketTypes
<1>5. /\ buckets'[b] = [tokens |-> t - Unit, last |-> now]
      /\ since'[b] = [s \in 0 .. MaxTime |-> IF s <= now THEN since[b][s] + 1 ELSE since[b][s]]
      /\ hint'[b] = None
  BY DEF Admit, BucketTypes
<1>6. buckets'[b] \in Bucket /\ buckets'[b] # None
  BY <1>3, <1>4, <1>5, NoneIsNoBucket DEF Bucket
<1>7. Tokens(b)' = t - Unit
  <2> HIDE DEF t
  <2> QED
    BY <1>3, <1>4, <1>5, <1>6, TokensWritten
<1>8. ASSUME NEW s \in 0 .. MaxTime
      PROVE  IF s > now' THEN since'[b][s] = 0
             ELSE since'[b][s] * Unit + Tokens(b)' <= Full(b) + Rate[b[2]] * (now' - s)
  <2> DEFINE n == since[b][s]
  <2> DEFINE w == Rate[b[2]] * (now - s)
  <2>1. n \in Nat /\ s \in Nat
    BY <1>4 DEF Honest
  <2>2. CASE s > now
    BY <1>5, <2>2, <2>1, <1>4 DEF Honest
  <2>3. CASE ~(s > now)
    <3>1. since'[b][s] = n + 1
      BY <1>5, <2>3, <2>1, <1>4
    <3>2. n * Unit + t <= Full(b) + w
      BY <2>3 DEF Honest
    <3>3. n * Unit \in Nat /\ (n + 1) * Unit = n * Unit + Unit
      BY <2>1, <1>2
    <3>4. w \in Int
      BY <1>2, <1>4, <2>1
    <3> HIDE DEF n, t, w
    <3>5. (n + 1) * Unit + (t - Unit) <= Full(b) + w
      BY <3>2, <3>3, <3>4, <1>1, <1>2
    <3> QED
      BY <3>5, <3>1, <1>7, <2>3 DEF w
  <2> QED
    BY <2>2, <2>3
<1>9. since'[b] \in [0 .. MaxTime -> Nat]
  <2>1. \A s \in 0 .. MaxTime : since[b][s] \in Nat
    BY DEF Honest
  <2> QED
    BY <2>1, <1>5
<1>10. Full(b)' = Full(b)
  BY DEF Full
<1>11. buckets'[b].tokens <= Full(b) /\ buckets'[b].last <= now'
  BY <1>3, <1>4, <1>5
<1> HIDE DEF t
<1> QED
  BY <1>5, <1>6, <1>8, <1>9, <1>10, <1>11 DEF Honest

\* A denial leaves the tokens and names a time at which there are enough.
LEMMA DenyHonest ==
  ASSUME BucketTypes, NEW b \in Buckets, Honest(b), Deny(b), now' = now
  PROVE  Honest(b)'
<1> DEFINE t == Tokens(b)
<1> DEFINE wait == Ceiling(Unit - t, Rate[b[2]])
<1>1. t \in Nat /\ t <= Full(b) /\ t < Unit
  BY TokensBounded DEF Deny
<1>2. Unit \in Nat /\ Unit > 0 /\ Full(b) \in Nat /\ Rate[b[2]] \in Nat /\ Rate[b[2]] > 0
  BY BucketConstants
<1>3. now \in 0 .. MaxTime /\ MaxTime \in Nat /\ now \in Nat
  BY BoundsAreNumbers DEF BucketTypes
<1>4. /\ buckets'[b] = [tokens |-> t, last |-> now]
      /\ since'[b] = since[b] /\ hint'[b] = now + wait
  BY DEF Deny, BucketTypes
<1>5. buckets'[b] \in Bucket /\ buckets'[b] # None
  BY <1>1, <1>3, <1>4, NoneIsNoBucket DEF Bucket
<1>6. Tokens(b)' = t
  <2> HIDE DEF t
  <2> QED
    BY <1>1, <1>3, <1>4, <1>5, TokensWritten
<1>7. wait \in Nat /\ Rate[b[2]] * wait >= Unit - t
  <2>1. Unit - t \in Nat
    BY <1>1, <1>2
  <2> HIDE DEF t
  <2> QED
    BY <2>1, <1>2, CeilingEnough
<1>8. wait # 0
  <2>1. Rate[b[2]] * 0 = 0
    BY <1>2
  <2> HIDE DEF t, wait
  <2> QED
    BY <2>1, <1>1, <1>2, <1>7
<1>9. hint'[b] \in Nat /\ hint'[b] - now = wait /\ ~(now >= hint'[b])
  <2> HIDE DEF wait
  <2> QED
    BY <1>3, <1>4, <1>7, <1>8
<1>10. t + Rate[b[2]] * wait >= Unit
  <2>1. Rate[b[2]] * wait \in Int
    BY <1>2, <1>7
  <2> HIDE DEF t, wait
  <2> QED
    BY <2>1, <1>1, <1>2, <1>7
<1>11. Full(b)' = Full(b)
  BY DEF Full
<1> HIDE DEF t, wait
<1>12. Tokens(b)' + Rate[b[2]] * (hint'[b] - now') >= Unit
  BY <1>6, <1>9, <1>10
<1>13. Tokens(b)' = Tokens(b)
  BY <1>6 DEF t
<1>14. buckets'[b].tokens <= Full(b) /\ buckets'[b].last <= now'
  BY <1>1, <1>3, <1>4
<1> QED
  BY <1>4, <1>5, <1>9, <1>11, <1>12, <1>13, <1>14 DEF Honest

\* A tick refills, and what a window may let through grows by as much.
LEMMA TickHonest ==
  ASSUME BucketTypes, NEW b \in Buckets, Honest(b), now' = now + 1, now' \in 0 .. MaxTime,
         UNCHANGED bucketVars
  PROVE  Honest(b)'
<1> DEFINE t == Tokens(b)
<1> DEFINE f == Full(b)
<1> DEFINE r == Rate[b[2]]
<1>1. t \in Nat /\ t <= f
  BY TokensBounded
<1>2. Unit \in Nat /\ Unit > 0 /\ f \in Nat /\ f >= Unit /\ r \in Nat /\ r > 0
  BY BucketConstants
<1>3. now \in Nat /\ MaxTime \in Nat
  BY BoundsAreNumbers DEF BucketTypes
<1>4. Tokens(b)' = Least(f, t + r)
  BY TickRefills
<1>5. buckets'[b] = buckets[b] /\ since'[b] = since[b] /\ hint'[b] = hint[b] /\ Full(b)' = Full(b)
  BY DEF bucketVars, Full
<1>6. \A x \in Int : r * x \in Int /\ r * (x + 1) = r * x + r /\ r * 0 = 0
  <2> HIDE DEF r
  <2>1. ASSUME NEW x \in Int PROVE r * x \in Int /\ r * 0 = 0
    BY <1>2
  <2>2. ASSUME NEW x \in Int PROVE r * (x + 1) = r * x + r
    BY <1>2
  <2> QED
    BY <2>1, <2>2
<1>7. ASSUME NEW s \in 0 .. MaxTime
      PROVE  IF s > now' THEN since'[b][s] = 0
             ELSE since'[b][s] * Unit + Tokens(b)' <= f + r * (now' - s)
  <2> DEFINE n == since[b][s]
  <2>1. n \in Nat /\ s \in Nat /\ n * Unit \in Nat
    <3>1. n \in Nat /\ s \in Nat
      BY <1>3 DEF Honest
    <3> HIDE DEF n
    <3> QED
      BY <3>1, <1>2
  <2>2. CASE s > now'
    BY <2>2, <2>1, <1>3, <1>5 DEF Honest
  <2>3. CASE s = now'
    <3>1. n = 0
      BY <2>3, <2>1, <1>3 DEF Honest
    <3>2. n * Unit = 0 /\ now' - s = 0
      BY <3>1, <2>3, <1>2, <1>3
    <3> HIDE DEF n, f, t, r
    <3>3. r * (now' - s) = 0
      BY <3>2, <1>6
    <3>4. Least(f, t + r) <= f
      BY <1>1, <1>2 DEF Least
    <3>5. since'[b][s] * Unit = 0
      BY <3>2, <1>5 DEF n
    <3>6. Least(f, t + r) \in Nat
      BY <1>1, <1>2 DEF Least
    <3>7. 0 + Least(f, t + r) <= f + 0
      BY <3>4, <3>6, <1>2
    <3> QED
      BY <3>3, <3>5, <3>7, <1>4, <2>3, <1>3
  <2>4. CASE s <= now
    <3> DEFINE w == r * (now - s)
    <3>1. n * Unit + t <= f + w
      BY <2>4, <2>1, <1>3 DEF Honest
    <3>2. now - s \in Int /\ now' - s = (now - s) + 1 /\ ~(s > now')
      BY <2>1, <2>4, <1>3
    <3> HIDE DEF n, f, t, r
    <3>3. r * (now' - s) = w + r /\ w \in Int
      BY <3>2, <1>6
    <3>4. n * Unit + Least(f, t + r) <= f + (w + r)
      <4> HIDE DEF w
      <4> QED
        BY <3>1, <3>3, <1>1, <1>2, <2>1 DEF Least
    <3> QED
      BY <3>2, <3>3, <3>4, <1>4, <1>5 DEF n
  <2> QED
    BY <2>1, <2>2, <2>3, <2>4, <1>3
<1>8. ASSUME hint[b] # None
      PROVE  IF now' >= hint'[b] THEN Tokens(b)' >= Unit
             ELSE Tokens(b)' + r * (hint'[b] - now') >= Unit
  <2> DEFINE h == hint[b]
  <2>1. h \in Nat
    BY <1>8 DEF Honest
  <2>2. CASE now >= h
    <3>1. t >= Unit
      BY <2>2, <1>8 DEF Honest
    <3> HIDE DEF f, t, r
    <3>2. Least(f, t + r) >= Unit
      BY <3>1, <1>1, <1>2 DEF Least
    <3> QED
      BY <3>2, <2>1, <2>2, <1>3, <1>4, <1>5
  <2>3. CASE now < h
    <3> DEFINE d == r * (h - now - 1)
    <3>1. t + r * (h - now) >= Unit
      BY <2>3, <2>1, <1>3, <1>8 DEF Honest
    <3>2. h - now - 1 \in Nat /\ h - now = (h - now - 1) + 1 /\ h - now' = h - now - 1
      BY <2>1, <2>3, <1>3
    <3> HIDE DEF f, t, r, h
    <3>3. r * (h - now) = d + r /\ d \in Int
      BY <3>2, <1>6
    <3>4. \A x \in Nat : r * x >= 0
      BY <1>2
    <3>5. d >= 0
      BY <3>2, <3>4
    <3>6. r * (h - now') = d /\ (h <= now' => d = 0)
      <4>1. h <= now' => h - now - 1 = 0
        BY <2>1, <2>3, <1>3
      <4> QED
        BY <3>2, <4>1, <1>6
    <3>7. Least(f, t + r) + d >= Unit
      <4> HIDE DEF d
      <4> QED
        BY <3>1, <3>3, <3>5, <1>1, <1>2 DEF Least
    <3>8. Least(f, t + r) \in Nat
      BY <1>1, <1>2 DEF Least
    <3>9. now' \in Int /\ hint'[b] = h
      BY <1>3, <1>5 DEF h
    <3> HIDE DEF d
    <3>10. CASE h <= now'
      BY <3>10, <3>6, <3>7, <3>8, <3>9, <2>1, <1>4
    <3>11. CASE ~(h <= now')
      BY <3>11, <3>6, <3>7, <3>9, <2>1, <1>4
    <3> QED
      BY <3>10, <3>11
  <2> QED
    BY <2>1, <2>2, <2>3, <1>3
<1>9. buckets[b] # None => buckets'[b].tokens <= Full(b) /\ buckets'[b].last <= now'
  <2>1. buckets[b] # None => buckets[b].last \in Nat
    BY DEF BucketTypes, Bucket
  <2> QED
    BY <2>1, <1>3, <1>5 DEF Honest
<1>10. /\ buckets'[b] \in Bucket \cup {None} /\ since'[b] \in [0 .. MaxTime -> Nat]
       /\ hint'[b] \in Nat \cup {None}
  BY <1>5 DEF Honest
<1> QED
  BY <1>5, <1>7, <1>8, <1>9, <1>10 DEF Honest

\* A bucket of a new process is full, and nothing has been counted.
LEMMA NewHonest ==
  ASSUME NEW b \in Buckets, now' \in 0 .. MaxTime, buckets'[b] = None,
         since'[b] = [s \in 0 .. MaxTime |-> 0], hint'[b] = None
  PROVE  Honest(b)'
<1>1. Tokens(b)' = Full(b) /\ Full(b)' = Full(b)
  BY DEF Tokens, Full
<1>2. Unit \in Nat /\ Full(b) \in Nat /\ Rate[b[2]] \in Nat
  BY BucketConstants
<1>3. \A x \in Nat : Rate[b[2]] * x \in Nat
  BY <1>2
<1>4. MaxTime \in Nat /\ now' \in Nat
  BY BoundsAreNumbers
<1>5. ASSUME NEW s \in 0 .. MaxTime
      PROVE  IF s > now' THEN since'[b][s] = 0
             ELSE since'[b][s] * Unit + Tokens(b)' <= Full(b) + Rate[b[2]] * (now' - s)
  <2>1. since'[b][s] = 0
    OBVIOUS
  <2>2. 0 * Unit = 0
    BY <1>2
  <2>3. CASE ~(s > now')
    <3>1. now' - s \in Nat
      BY <2>3, <1>4
    <3> DEFINE w == Rate[b[2]] * (now' - s)
    <3>2. w \in Nat
      BY <3>1, <1>3
    <3>3. 0 + Full(b) <= Full(b) + w
      <4> HIDE DEF w
      <4> QED
        BY <3>2, <1>2
    <3> QED
      BY <3>3, <2>1, <2>2, <2>3, <1>1
  <2> QED
    BY <2>1, <2>3
<1>6. since'[b] \in [0 .. MaxTime -> Nat]
  OBVIOUS
<1> QED
  BY <1>1, <1>5, <1>6 DEF Honest

\* The invariant holds before the first request.
LEMMA BucketsInit == Init => BucketInv
<1> SUFFICES ASSUME Init PROVE BucketInv
  OBVIOUS
<1>1. MaxTime \in Nat /\ now = 0 /\ now \in 0 .. MaxTime
  BY BoundsAreNumbers DEF Init
<1>2. BucketTypes
  BY <1>1 DEF Init, BucketTypes, NoHistory
<1>3. ASSUME NEW b \in Buckets PROVE Honest(b)
  <2>1. buckets[b] = None /\ since[b] = [s \in 0 .. MaxTime |-> 0] /\ hint[b] = None
    BY <1>3 DEF Init, NoHistory
  <2>2. Tokens(b) = Full(b)
    BY <2>1 DEF Tokens
  <2>3. Unit \in Nat /\ Full(b) \in Nat /\ Rate[b[2]] \in Nat
    BY BucketConstants
  <2>4. \A s \in 0 .. MaxTime :
          IF s > now THEN since[b][s] = 0
          ELSE since[b][s] * Unit + Tokens(b) <= Full(b) + Rate[b[2]] * (now - s)
    <3>1. 0 * Unit = 0 /\ Rate[b[2]] * 0 = 0
      BY <2>3
    <3>2. \A s \in 0 .. MaxTime : ~(s > now) => now - s = 0
      BY <1>1
    <3> QED
      BY <2>1, <2>2, <2>3, <3>1, <3>2
  <2> QED
    BY <2>1, <2>4 DEF Honest
<1> QED
  BY <1>2, <1>3 DEF BucketInv

\* The types of what a step leaves, once every bucket is honest.
LEMMA HonestTyped ==
  ASSUME BucketTypes, BucketStep, now' \in 0 .. MaxTime,
         /\ buckets' = [b \in Buckets |-> buckets'[b]]
         /\ since' = [b \in Buckets |-> since'[b]]
         /\ hint' = [b \in Buckets |-> hint'[b]],
         \A b \in Buckets : Honest(b)'
  PROVE  BucketInv'
<1>1. auth' \in BOOLEAN /\ bounds' \in Bounds
  BY DEF BucketTypes, BucketStep
<1>2. ASSUME NEW b \in Buckets
      PROVE  /\ buckets'[b] \in Bucket \cup {None}
             /\ since'[b] \in [0 .. MaxTime -> Nat] /\ hint'[b] \in Nat \cup {None}
             /\ buckets'[b] # None => buckets'[b].tokens <= Full(b)' /\ buckets'[b].last <= now'
  BY <1>2 DEF Honest
<1>3. /\ buckets' \in [Buckets -> Bucket \cup {None}]
      /\ since' \in [Buckets -> [0 .. MaxTime -> Nat]] /\ hint' \in [Buckets -> Nat \cup {None}]
  BY <1>2
<1>4. BucketTypes'
  BY <1>1, <1>2, <1>3 DEF BucketTypes
<1> QED
  BY <1>4 DEF BucketInv

\* Every step keeps every bucket honest.
LEMMA BucketsKept == BucketInv /\ BucketStep => BucketInv'
<1> SUFFICES ASSUME BucketInv, BucketStep PROVE BucketInv'
  OBVIOUS
<1>1. BucketTypes /\ MaxTime \in Nat /\ now \in 0 .. MaxTime /\ now \in Nat
  BY BoundsAreNumbers DEF BucketInv, BucketTypes
<1>2. /\ buckets = [b \in Buckets |-> buckets[b]] /\ since = [b \in Buckets |-> since[b]]
      /\ hint = [b \in Buckets |-> hint[b]]
  BY <1>1 DEF BucketTypes
<1>3. CASE UNCHANGED <<now, bucketVars>>
  <2>1. now' = now /\ buckets' = buckets /\ since' = since /\ hint' = hint
    BY <1>3 DEF bucketVars
  <2>2. ASSUME NEW b \in Buckets PROVE Honest(b)'
    BY <2>1, UntouchedHonest DEF BucketInv
  <2> QED
    BY <1>1, <1>2, <2>1, <2>2, HonestTyped
<1>4. ASSUME NEW d, Admit(d) \/ Deny(d), UNCHANGED now PROVE BucketInv'
  <2>1. /\ buckets' = [b \in Buckets |-> buckets'[b]] /\ since' = [b \in Buckets |-> since'[b]]
        /\ hint' = [b \in Buckets |-> hint'[b]]
    BY <1>1, <1>4 DEF Admit, Deny, BucketTypes
  <2>2. ASSUME NEW b \in Buckets PROVE Honest(b)'
    <3>1. CASE b = d
      BY <3>1, <1>1, <1>4, AdmitHonest, DenyHonest DEF BucketInv
    <3>2. CASE b # d
      <4>1. buckets'[b] = buckets[b] /\ since'[b] = since[b] /\ hint'[b] = hint[b]
        BY <3>2, <1>1, <1>4 DEF Admit, Deny, BucketTypes
      <4> QED
        BY <4>1, <1>4, UntouchedHonest DEF BucketInv
    <3> QED
      BY <3>1, <3>2
  <2> QED
    BY <1>1, <1>4, <2>1, <2>2, HonestTyped
<1>5. CASE now < bounds.time /\ now' = now + 1 /\ UNCHANGED bucketVars
  <2>1. bounds.time \in 0 .. MaxTime
    BY <1>1, BoundsAreNumbers DEF BucketTypes
  <2>2. now' \in 0 .. MaxTime
    BY <1>1, <1>5, <2>1
  <2>3. buckets' = buckets /\ since' = since /\ hint' = hint
    BY <1>5 DEF bucketVars
  <2>4. ASSUME NEW b \in Buckets PROVE Honest(b)'
    BY <1>1, <1>5, <2>2, TickHonest DEF BucketInv
  <2> QED
    BY <1>1, <1>2, <2>2, <2>3, <2>4, HonestTyped
<1>6. CASE /\ buckets' = [b \in Buckets |-> None] /\ since' = NoHistory
           /\ hint' = [b \in Buckets |-> None] /\ UNCHANGED now
  <2>1. ASSUME NEW b \in Buckets PROVE Honest(b)'
    BY <1>1, <1>6, NewHonest DEF NoHistory
  <2>2. /\ buckets' = [b \in Buckets |-> buckets'[b]] /\ since' = [b \in Buckets |-> since'[b]]
        /\ hint' = [b \in Buckets |-> hint'[b]]
    BY <1>6 DEF NoHistory
  <2> QED
    BY <1>1, <1>6, <2>1, <2>2, HonestTyped
<1> QED
  BY <1>3, <1>4, <1>5, <1>6 DEF BucketStep

\* The invariant is inductive.
LEMMA BucketsInductive == BucketInv /\ [Next]_vars => BucketInv'
<1>1. UNCHANGED vars => BucketStep
  BY DEF vars, bucketVars, serverVars, BucketStep
<1> QED
  BY <1>1, StepOfBuckets, BucketsKept

\* The invariant says what the property does.
LEMMA BucketInvImplies == BucketInv => BucketsHonest /\ TypeOK
<1> SUFFICES ASSUME BucketInv PROVE BucketsHonest /\ TypeOK
  OBVIOUS
<1>1. BucketTypes /\ MaxTime \in Nat /\ now \in Nat /\ now <= MaxTime
  BY BoundsAreNumbers DEF BucketInv, BucketTypes
<1>2. ASSUME NEW b \in Buckets, NEW s \in 0 .. now
      PROVE  since[b][s] * Unit <= Full(b) + Rate[b[2]] * (now - s)
  <2>1. s \in 0 .. MaxTime /\ ~(s > now) /\ now - s \in Nat
    BY <1>1
  <2> DEFINE n == since[b][s]
  <2> DEFINE w == Rate[b[2]] * (now - s)
  <2>2. n * Unit + Tokens(b) <= Full(b) + w
    BY <2>1 DEF BucketInv, Honest
  <2>3. n \in Nat
    BY <2>1 DEF BucketInv, Honest
  <2>4. Tokens(b) \in Nat /\ Full(b) \in Nat /\ Unit \in Nat /\ Rate[b[2]] \in Nat
    BY <1>1, TokensBounded, BucketConstants
  <2>5. w \in Nat
    BY <2>1, <2>4
  <2> HIDE DEF n, w
  <2>6. n * Unit \in Nat
    BY <2>3, <2>4
  <2>7. n * Unit <= Full(b) + w
    BY <2>2, <2>4, <2>5, <2>6
  <2> QED
    BY <2>7 DEF n, w
<1>3. HintKept
  BY DEF HintKept, BucketInv, Honest
<1>4. TypeOK
  BY <1>1 DEF TypeOK, BucketTypes, Bucket
<1> QED
  BY <1>2, <1>3, <1>4 DEF BucketsHonest, WindowBound

\* TokenBucket and RateLimiter, for any number of buckets and any rates: in
\* no window is more let through than promised, and the wait a denial names
\* is enough.
THEOREM BucketsStayHonest == Spec => []BucketsHonest
<1>1. BucketInv => BucketsHonest
  BY BucketInvImplies
<1> QED
  BY <1>1, BucketsInductive, BucketsInit, PTL DEF Spec

\* The clock and the buckets keep their types.
THEOREM AdmissionTypes == Spec => []TypeOK
<1>1. BucketInv => TypeOK
  BY BucketInvImplies
<1> QED
  BY <1>1, BucketsInductive, BucketsInit, PTL DEF Spec

----------------------------------------------------------------------------
(* The outcomes of calls. *)

Asked == (UNION {Requests[c] : c \in Calls}) \cup {None}
Refused == {"denied", "limited", "invalid"}
\* The stages an attempt the engine has executed may be in.
Over == {"ok", "missing", "unavailable", "internal", "lost"}

States == Ended \cup {"idle", "waiting", "backoff"}
Stages == Ended \cup {"none", "sent", "running", "detached", "lost"}

CallTypes ==
  /\ call \in [Calls -> [state : States, request : Asked, attempt : 0 .. MaxRetries + 1]]
  /\ work \in [Calls -> [Attempts -> Stages]]
  /\ executed = [c \in Calls |-> executed[c]]

\* What is executed is an attempt that was made and is over, for the one
\* tenant the request resolves to; what a call knows is what its attempts
\* know; and a call that is sent once has one attempt.
Truthful(c) ==
  LET q == call[c]
  IN /\ q.state \in {"waiting", "backoff"} => q.attempt >= 1
     /\ q.state = "backoff" => Retried(q.request) /\ q.attempt < MaxRetries + 1
     /\ ~Retried(q.request) => q.attempt <= 1
     /\ \A n \in Attempts : n > q.attempt => work[c][n] = "none"
     /\ \A n \in Attempts : work[c][n] = "ok" => executed[c] # {}
     /\ q.state = "ok" => executed[c] # {}
     /\ q.state \in Refused /\ ~Retried(q.request) => q.attempt = 1 /\ work[c][1] = q.state
     /\ \A x \in executed[c] :
          /\ x = [attempt |-> x.attempt, tenant |-> ResolvedTenant(q.request)]
          /\ x.attempt \in 1 .. q.attempt /\ work[c][x.attempt] \in Over

CallInv == CallTypes /\ \A c \in Calls : Truthful(c)

\* Attempts are counted from one.
LEMMA AttemptNumbers ==
  /\ MaxRetries \in Nat /\ 1 \in Attempts /\ Attempts \subseteq Nat
  /\ 1 \in 0 .. MaxRetries + 1
  /\ \A n \in 0 .. MaxRetries + 1 : n # 0 => n \in Attempts
BY BoundsAreNumbers DEF Attempts

\* A handler is what it is; and a call keeps its tenant as long as its
\* request and the configuration stay.
LEMMA SameTenant ==
  ASSUME NEW c, auth' = auth, call'[c].request = call[c].request
  PROVE  ResolvedTenant(call[c].request)' = ResolvedTenant(call[c].request)
<1>1. HandlerOf(call[c].request)' = HandlerOf(call[c].request)
  BY DEF HandlerOf, Handler, GrpcHandlers, RestRoutes
<1> QED
  BY <1>1 DEF ResolvedTenant, AuthTenant

\* A call nothing was done to is as truthful as before.
LEMMA UntouchedTruthful ==
  ASSUME NEW c \in Calls, Truthful(c), UNCHANGED auth,
         call'[c] = call[c], work'[c] = work[c], executed'[c] = executed[c]
  PROVE  Truthful(c)'
BY SameTenant DEF Truthful, Retried

\* A step that only answers attempts under way, or loses them.
LEMMA StagesTruthful ==
  ASSUME CallTypes, NEW c \in Calls, Truthful(c), UNCHANGED auth,
         call'[c] = call[c], executed'[c] = executed[c],
         \A n \in Attempts :
           \/ work'[c][n] = work[c][n]
           \/ /\ work[c][n] \in {"sent", "running", "detached"}
              /\ work'[c][n] \notin {"ok", "none"}
  PROVE  Truthful(c)'
<1>1. call[c].attempt \in 0 .. MaxRetries + 1
  BY DEF CallTypes
<1>2. \A x \in executed[c] : x.attempt \in Attempts /\ work[c][x.attempt] \in Over
  BY <1>1, AttemptNumbers DEF Truthful, Attempts
<1>3. \A x \in executed[c] : work'[c][x.attempt] \in Over
  BY <1>2 DEF Over
<1>4. \A n \in Attempts : work'[c][n] = "ok" => work[c][n] = "ok"
  OBVIOUS
<1>5. \A n \in Attempts : work[c][n] = "none" => work'[c][n] = "none"
  OBVIOUS
<1>6. \A n \in Attempts : work[c][n] \in Refused => work'[c][n] = work[c][n]
  BY DEF Refused
<1>7. ResolvedTenant(call[c].request)' = ResolvedTenant(call[c].request)
  BY SameTenant
<1> QED
  BY <1>3, <1>4, <1>5, <1>6, <1>7, AttemptNumbers DEF Truthful, Retried

\* A first attempt.
LEMMA StartTruthful ==
  ASSUME CallInv, NEW c \in Calls, NEW r \in Requests[c], Start(c, r)
  PROVE  CallTypes' /\ Truthful(c)'
<1> USE AttemptNumbers
<1>1. /\ call'[c] = [state |-> "waiting", request |-> r, attempt |-> 1]
      /\ \A n \in Attempts : work'[c][n] = IF n = 1 THEN "sent" ELSE work[c][n]
      /\ executed' = executed /\ auth' = auth
  BY DEF Start, CallInv, CallTypes
<1>2. call[c].attempt = 0
  BY DEF Start, Fresh
<1>3. executed[c] = {} /\ \A n \in Attempts : n > 1 => work[c][n] = "none"
  BY <1>2 DEF CallInv, Truthful
<1>4. Truthful(c)'
  BY <1>1, <1>3 DEF Truthful, CallInv, Refused, Retried
<1>5. r \in Asked
  BY DEF Asked
<1>6. [state |-> "waiting", request |-> r, attempt |-> 1]
        \in [state : States, request : Asked, attempt : 0 .. MaxRetries + 1]
  BY <1>5 DEF States
<1>7. CallTypes'
  <2>1. call' \in [Calls -> [state : States, request : Asked, attempt : 0 .. MaxRetries + 1]]
    BY <1>6 DEF Start, CallInv, CallTypes
  <2>2. work' \in [Calls -> [Attempts -> Stages]]
    <3>1. [work[c] EXCEPT ![1] = "sent"] \in [Attempts -> Stages]
      BY DEF CallInv, CallTypes, Stages
    <3>2. work' = [work EXCEPT ![c] = [work[c] EXCEPT ![1] = "sent"]]
      BY DEF Start, CallInv, CallTypes
    <3> QED
      BY <3>1, <3>2 DEF CallInv, CallTypes
  <2> QED
    BY <2>1, <2>2, <1>1 DEF CallInv, CallTypes
<1> QED
  BY <1>4, <1>7

\* The end of an attempt, as its caller sees it.
LEMMA AfterTruthful ==
  ASSUME CallInv, NEW c \in Calls, NEW status \in Ended, call[c].state = "waiting",
         call' = [call EXCEPT ![c] = After(@, status)],
         work' = work, executed' = executed, auth' = auth,
         status = "ok" => executed[c] # {},
         status \in Refused => work[c][call[c].attempt] = status
  PROVE  CallTypes' /\ Truthful(c)'
<1> USE AttemptNumbers
<1> DEFINE q == call[c]
<1>1. q \in [state : States, request : Asked, attempt : 0 .. MaxRetries + 1] /\ q.attempt >= 1
  BY DEF CallInv, CallTypes, Truthful
<1>2. call'[c] = After(q, status)
  BY DEF CallInv, CallTypes
<1>3. PICK st \in States :
        /\ call'[c] = [q EXCEPT !.state = st]
        /\ st = status \/ (st = "backoff" /\ Retried(q.request) /\ q.attempt < MaxRetries + 1)
  <2> DEFINE again == status \in RetryableStatus /\ Retried(q.request) /\ q.attempt < MaxRetries + 1
  <2>2. CASE again
    <3>1. After(q, status) = [q EXCEPT !.state = "backoff"]
      BY <2>2 DEF After
    <3> QED
      BY <3>1, <2>2, <1>2 DEF States
  <2>3. CASE ~again
    <3>1. After(q, status) = [q EXCEPT !.state = status]
      BY <2>3 DEF After
    <3> QED
      BY <3>1, <1>2 DEF States
  <2> QED
    BY <2>2, <2>3
<1>4. call'[c].state = st /\ call'[c].attempt = q.attempt /\ call'[c].request = q.request
  BY <1>1, <1>3
<1>5. call'[c] \in [state : States, request : Asked, attempt : 0 .. MaxRetries + 1]
  BY <1>1, <1>3
<1>6. CallTypes'
  BY <1>5 DEF CallInv, CallTypes
<1>7. ResolvedTenant(call[c].request)' = ResolvedTenant(call[c].request)
  BY <1>4, SameTenant
<1>8. st \in Refused => st = status
  BY <1>3 DEF Refused
<1>9. st = "ok" => executed[c] # {}
  BY <1>3
<1>10. Truthful(c)
  BY DEF CallInv
<1>11. st \in Refused /\ ~Retried(q.request) => q.attempt = 1 /\ work[c][1] = st
  <2>1. ~Retried(q.request) => q.attempt = 1
    BY <1>1, <1>10 DEF Truthful
  <2> QED
    BY <2>1, <1>8
<1>12. st = "backoff" => Retried(q.request) /\ q.attempt < MaxRetries + 1
  BY <1>3 DEF Ended
<1> QED
  BY <1>1, <1>4, <1>6, <1>7, <1>9, <1>10, <1>11, <1>12 DEF Truthful

\* The caller gets what an attempt ended with, or gives up waiting.
LEMMA ReceiveTruthful ==
  ASSUME CallInv, NEW c \in Calls, Receive(c) \/ GiveUp(c)
  PROVE  CallTypes' /\ Truthful(c)'
<1>1. Truthful(c) /\ call[c].attempt \in 0 .. MaxRetries + 1
  BY DEF CallInv, CallTypes
<1>2. work' = work /\ executed' = executed /\ auth' = auth /\ call[c].state = "waiting"
  BY DEF Receive, GiveUp
<1>3. call[c].attempt \in Attempts
  BY <1>1, <1>2, AttemptNumbers DEF Truthful
<1>4. CASE Receive(c)
  <2> DEFINE status == work[c][call[c].attempt]
  <2>1. status \in Ended /\ call' = [call EXCEPT ![c] = After(@, status)]
    BY <1>4 DEF Receive
  <2>2. status = "ok" => executed[c] # {}
    BY <1>1, <1>3 DEF Truthful
  <2>3. status \in Refused => work[c][call[c].attempt] = status
    OBVIOUS
  <2> HIDE DEF status
  <2> QED
    BY <1>2, <2>1, <2>2, <2>3, AfterTruthful
<1>5. CASE GiveUp(c)
  <2>1. PICK status \in {"timeout", "unavailable"} : call' = [call EXCEPT ![c] = After(@, status)]
    BY <1>5 DEF GiveUp
  <2>2. status \in Ended /\ status # "ok" /\ status \notin Refused
    BY DEF Ended, Refused
  <2> QED
    BY <1>2, <2>1, <2>2, AfterTruthful
<1> QED
  BY <1>4, <1>5

\* Another attempt, of a call that may be sent again.
LEMMA ResendTruthful ==
  ASSUME CallInv, NEW c \in Calls, Resend(c)
  PROVE  CallTypes' /\ Truthful(c)'
<1> DEFINE q == call[c]
<1> DEFINE m == q.attempt + 1
<1>1. Truthful(c) /\ q \in [state : States, request : Asked, attempt : 0 .. MaxRetries + 1]
  BY DEF CallInv, CallTypes
<1>2. q.state = "backoff" /\ q.attempt >= 1 /\ Retried(q.request) /\ q.attempt < MaxRetries + 1
  BY <1>1 DEF Resend, Truthful
<1>3. m \in Attempts /\ m \in 0 .. MaxRetries + 1 /\ m \in Nat /\ q.attempt \in Nat
  BY <1>1, <1>2, AttemptNumbers DEF Attempts
<1>4. /\ call'[c].state = "waiting" /\ call'[c].attempt = m /\ call'[c].request = q.request
      /\ call'[c] \in [state : States, request : Asked, attempt : 0 .. MaxRetries + 1]
  BY <1>1, <1>3 DEF Resend, CallInv, CallTypes, States
<1>5. \A n \in Attempts : work'[c][n] = IF n = m THEN "sent" ELSE work[c][n]
  BY <1>3 DEF Resend, CallInv, CallTypes
<1>6. executed' = executed /\ auth' = auth
  BY DEF Resend
<1>7. CallTypes'
  <2>1. [work[c] EXCEPT ![m] = "sent"] \in [Attempts -> Stages]
    BY DEF CallInv, CallTypes, Stages
  <2>2. work' = [work EXCEPT ![c] = [work[c] EXCEPT ![m] = "sent"]]
    BY DEF Resend, CallInv, CallTypes
  <2>3. work' \in [Calls -> [Attempts -> Stages]]
    BY <2>1, <2>2 DEF CallInv, CallTypes
  <2>4. call' \in [Calls -> [state : States, request : Asked, attempt : 0 .. MaxRetries + 1]]
    BY <1>4 DEF Resend, CallInv, CallTypes
  <2> QED
    BY <2>3, <2>4, <1>6 DEF CallInv, CallTypes
<1>8. \A x \in executed[c] : x.attempt \in 1 .. q.attempt
  BY <1>1 DEF Truthful
<1>9. ASSUME NEW x \in executed[c]
      PROVE  /\ x = [attempt |-> x.attempt, tenant |-> ResolvedTenant(q.request)']
             /\ x.attempt \in 1 .. m /\ work'[c][x.attempt] \in Over
  <2>1. x.attempt \in Nat /\ x.attempt >= 1 /\ x.attempt <= q.attempt
    BY <1>3, <1>8
  <2>2. x.attempt \in Attempts /\ x.attempt # m
    BY <2>1, <1>3, AttemptNumbers DEF Attempts
  <2>3. work'[c][x.attempt] = work[c][x.attempt]
    BY <2>2, <1>5
  <2>4. ResolvedTenant(q.request)' = ResolvedTenant(q.request)
    BY <1>4, <1>6, SameTenant
  <2> QED
    BY <1>1, <2>1, <2>3, <2>4, <1>3 DEF Truthful
<1>10. \A n \in Attempts : n > m => n > q.attempt /\ n # m
  <2>1. \A a, n \in Nat : n > a + 1 => n > a /\ n # a + 1
    OBVIOUS
  <2> HIDE DEF q
  <2> QED
    BY <1>3, <2>1, AttemptNumbers
<1>11. /\ \A n \in Attempts : n > m => work'[c][n] = "none"
       /\ \A n \in Attempts : work'[c][n] = "ok" => executed[c] # {}
  BY <1>1, <1>5, <1>10 DEF Truthful
<1>13. Truthful(c)'
  <2>1. Retried(call[c].request)' /\ call'[c].state \notin Refused
    BY <1>2, <1>4 DEF Retried, Refused
  <2>2. call'[c].attempt = m /\ call'[c].state = "waiting" /\ m >= 1
    BY <1>2, <1>3, <1>4
  <2>3. \A x \in executed'[c] :
          /\ x = [attempt |-> x.attempt, tenant |-> ResolvedTenant(call[c].request)']
          /\ x.attempt \in 1 .. call'[c].attempt /\ work'[c][x.attempt] \in Over
    BY <1>4, <1>6, <1>9
  <2> HIDE DEF m
  <2> QED
    BY <2>1, <2>2, <2>3, <1>6, <1>11 DEF Truthful
<1> QED
  BY <1>7, <1>13

\* A handler's answer, or its hand-over to a task.
LEMMA HandleTruthful ==
  ASSUME CallInv, NEW c \in Calls, NEW n \in Attempts, Handle(c, n)
  PROVE  CallTypes' /\ Truthful(c)'
<1>1. PICK status \in Refused \cup {"running"} : Reject(c, n, status)
  BY DEF Handle, Refused
<1>2. work[c][n] = "sent"
  BY DEF Handle
<1>3. call' = call /\ executed' = executed /\ auth' = auth
  BY <1>1 DEF Reject
<1>4. work' = [work EXCEPT ![c] = [work[c] EXCEPT ![n] = status]]
  BY <1>1 DEF Reject, CallInv, CallTypes
<1>5. status \in Stages /\ status \notin {"ok", "none"}
  BY DEF Stages, Refused, Ended
<1>6. [work[c] EXCEPT ![n] = status] \in [Attempts -> Stages]
  BY <1>5 DEF CallInv, CallTypes
<1>7. CallTypes'
  BY <1>3, <1>4, <1>6 DEF CallInv, CallTypes
<1>8. \A k \in Attempts : work'[c][k] = IF k = n THEN status ELSE work[c][k]
  BY <1>4 DEF CallInv, CallTypes
<1>9. Truthful(c)'
  <2>1. \A k \in Attempts :
          \/ work'[c][k] = work[c][k]
          \/ work[c][k] \in {"sent", "running", "detached"} /\ work'[c][k] \notin {"ok", "none"}
    BY <1>2, <1>5, <1>8
  <2> QED
    BY <2>1, <1>3, StagesTruthful DEF CallInv
<1> QED
  BY <1>7, <1>9

\* What Execute does, for one outcome of the engine's calls.
Executed(c, n, error, effect) ==
  /\ error = None => effect
  /\ error # None /\ effect => error # "input"
  /\ work' = [work EXCEPT ![c][n] =
       IF @ = "detached" THEN "lost" ELSE IF error = None THEN "ok" ELSE StatusOf(error)]
  /\ executed' = [executed EXCEPT ![c] =
       IF effect THEN @ \cup {[attempt |-> n, tenant |-> ResolvedTenant(call[c].request)]} ELSE @]

\* The engine ran an attempt, for the tenant of the request.
LEMMA ExecuteTruthful ==
  ASSUME CallInv, NEW c \in Calls, NEW n \in Attempts, Execute(c, n)
  PROVE  CallTypes' /\ Truthful(c)'
<1> DEFINE q == call[c]
<1> DEFINE T == ResolvedTenant(q.request)
<1>1. PICK status \in {"ok", "invalid", "missing", "unavailable", "internal"}, effect \in BOOLEAN :
        /\ status = "ok" => effect
        /\ status = "invalid" => ~effect
        /\ work' = [work EXCEPT ![c][n] = IF @ = "detached" THEN "lost" ELSE status]
        /\ executed' = [executed EXCEPT ![c] =
             IF effect THEN @ \cup {[attempt |-> n, tenant |-> T]} ELSE @]
  <2>1. PICK error \in EngineErrors \cup {None}, effect \in BOOLEAN :
          Executed(c, n, error, effect)
    BY DEF Execute, Executed
  <2> DEFINE status == IF error = None THEN "ok" ELSE StatusOf(error)
  <2>2. status \in {"ok", "invalid", "missing", "unavailable", "internal"}
    BY DEF EngineErrors, StatusOf
  <2>3. (status = "ok" => effect) /\ (status = "invalid" => ~effect)
    BY <2>1 DEF Executed, EngineErrors, StatusOf
  <2>4. /\ work' = [work EXCEPT ![c][n] = IF @ = "detached" THEN "lost" ELSE status]
        /\ executed' = [executed EXCEPT ![c] =
             IF effect THEN @ \cup {[attempt |-> n, tenant |-> T]} ELSE @]
    BY <2>1 DEF Executed
  <2> HIDE DEF status, T
  <2> QED
    BY <2>2, <2>3, <2>4
<1>2. work[c][n] \in {"running", "detached"} /\ call' = call /\ auth' = auth
  BY DEF Execute
<1>3. Truthful(c) /\ q.attempt \in 0 .. MaxRetries + 1
  BY DEF CallInv, CallTypes
<1>4. n \in 1 .. q.attempt
  <2>1. ~(n > q.attempt)
    BY <1>2, <1>3 DEF Truthful
  <2> QED
    BY <2>1, <1>3, AttemptNumbers DEF Attempts
<1> DEFINE last == IF work[c][n] = "detached" THEN "lost" ELSE status
<1>5. /\ work' = [work EXCEPT ![c] = [work[c] EXCEPT ![n] = last]] /\ last \in Stages
      /\ effect => last \in Over
  BY <1>1 DEF CallInv, CallTypes, Over, Stages, Ended
<1>6. \A k \in Attempts : work'[c][k] = IF k = n THEN last ELSE work[c][k]
  <2> HIDE DEF last
  <2> QED
    BY <1>5 DEF CallInv, CallTypes
<1>7. executed'[c] = IF effect THEN executed[c] \cup {[attempt |-> n, tenant |-> T]} ELSE executed[c]
  BY <1>1 DEF CallInv, CallTypes
<1>8. last = "ok" => executed'[c] # {}
  <2>1. last = "ok" => effect
    BY <1>1
  <2> HIDE DEF last
  <2> QED
    BY <2>1, <1>7
<1>9. CallTypes'
  <2> HIDE DEF last
  <2>1. [work[c] EXCEPT ![n] = last] \in [Attempts -> Stages]
    BY <1>5 DEF CallInv, CallTypes
  <2>2. work' \in [Calls -> [Attempts -> Stages]]
    BY <2>1, <1>5 DEF CallInv, CallTypes
  <2>3. executed' = [d \in Calls |-> executed'[d]]
    BY <1>1 DEF CallInv, CallTypes
  <2> QED
    BY <2>2, <2>3, <1>2 DEF CallInv, CallTypes
<1>10. T' = T
  BY <1>2, SameTenant
<1>11. executed[c] \subseteq executed'[c]
  BY <1>7
<1>12. ASSUME NEW x \in executed'[c]
       PROVE  /\ x = [attempt |-> x.attempt, tenant |-> T]
              /\ x.attempt \in 1 .. q.attempt /\ work'[c][x.attempt] \in Over
  <2> HIDE DEF last, T, q
  <2>1. CASE effect /\ x = [attempt |-> n, tenant |-> T]
    BY <2>1, <1>4, <1>5, <1>6
  <2>2. CASE x \in executed[c]
    <3>1. /\ x = [attempt |-> x.attempt, tenant |-> T]
          /\ x.attempt \in 1 .. q.attempt /\ work[c][x.attempt] \in Over
      BY <1>3, <2>2 DEF Truthful, T, q
    <3>2. x.attempt \in Attempts
      BY <3>1, <1>3, AttemptNumbers DEF Attempts
    <3>3. x.attempt # n
      BY <3>1, <1>2 DEF Over
    <3> QED
      BY <3>1, <3>2, <3>3, <1>6
  <2> QED
    BY <2>1, <2>2, <1>7
<1>13. q.state \in Refused /\ ~Retried(q.request) => q.attempt = 1 /\ work'[c][1] = q.state
  <2>1. SUFFICES ASSUME q.state \in Refused, ~Retried(q.request)
                 PROVE  FALSE
    OBVIOUS
  <2>2. q.attempt = 1 /\ work[c][1] \in Refused
    BY <2>1, <1>3 DEF Truthful
  <2>3. n = 1
    BY <2>2, <1>4
  <2> QED
    BY <2>2, <2>3, <1>2 DEF Refused
<1>14. \A k \in Attempts : k > q.attempt => work'[c][k] = "none"
  <2>1. \A k \in Attempts : k > q.attempt => k # n
    BY <1>3, <1>4, AttemptNumbers
  <2> QED
    BY <2>1, <1>3, <1>6 DEF Truthful
<1>15. \A k \in Attempts : work'[c][k] = "ok" => executed'[c] # {}
  BY <1>3, <1>6, <1>8, <1>11 DEF Truthful
<1> HIDE DEF last
<1>16. Truthful(c)'
  BY <1>2, <1>3, <1>10, <1>11, <1>12, <1>13, <1>14, <1>15 DEF Truthful, Retried
<1> QED
  BY <1>9, <1>16

\* The actions of a call's own client and of its handler and task.
Own(c) ==
  \/ Client(c) \/ \E r \in Requests[c] : Start(c, r)
  \/ \E n \in Attempts : Handle(c, n) \/ Execute(c, n)

\* Every other step leaves the calls alone or loses attempts of them.
Swept ==
  /\ UNCHANGED <<auth, call, executed>>
  /\ work' \in [Calls -> [Attempts -> Stages]]
  /\ \A c \in Calls, n \in Attempts :
       \/ work'[c][n] = work[c][n]
       \/ work[c][n] \in {"sent", "running", "detached"} /\ work'[c][n] \notin {"ok", "none"}

\* A drain hands running attempts to nobody and loses those not begun.
LEMMA DrainSweeps ==
  ASSUME CallTypes, NEW via \in Listeners, Drain(via)
  PROVE  Swept
<1> DEFINE new(c, n) == CASE work[c][n] = "running" -> "detached"
                          [] work[c][n] = "sent" -> "lost"
                          [] OTHER -> work[c][n]
<1>1. work' = [c \in Calls |-> [n \in Attempts |-> new(c, n)]]
  BY DEF Drain
<1>2. ASSUME NEW c \in Calls, NEW n \in Attempts
      PROVE  /\ new(c, n) \in Stages
             /\ \/ new(c, n) = work[c][n]
                \/ work[c][n] \in {"sent", "running", "detached"} /\ new(c, n) \notin {"ok", "none"}
  <2>1. work[c][n] \in Stages
    BY DEF CallTypes
  <2>2. CASE work[c][n] = "running"
    <3>1. new(c, n) = "detached"
      BY <2>2
    <3> QED
      BY <3>1, <2>2 DEF Stages
  <2>3. CASE work[c][n] = "sent"
    <3>1. new(c, n) = "lost"
      BY <2>3
    <3> QED
      BY <3>1, <2>3 DEF Stages
  <2>4. CASE work[c][n] \notin {"sent", "running"}
    <3>1. new(c, n) = work[c][n]
      BY <2>4
    <3> QED
      BY <3>1, <2>1
  <2> QED
    BY <2>2, <2>3, <2>4
<1> HIDE DEF new
<1> QED
  BY <1>1, <1>2 DEF Swept, Drain, keyVars, bucketVars

\* The end of the process loses every attempt that is not over.
LEMMA GoneSweeps ==
  ASSUME CallTypes, Gone
  PROVE  Swept
<1> DEFINE new(c, n) == IF work[c][n] \in {"running", "detached", "sent"} THEN "lost" ELSE work[c][n]
<1>1. work' = [c \in Calls |-> [n \in Attempts |-> new(c, n)]]
  BY DEF Gone
<1>2. ASSUME NEW c \in Calls, NEW n \in Attempts
      PROVE  /\ new(c, n) \in Stages
             /\ \/ new(c, n) = work[c][n]
                \/ work[c][n] \in {"sent", "running", "detached"} /\ new(c, n) \notin {"ok", "none"}
  <2>1. work[c][n] \in Stages
    BY DEF CallTypes
  <2> QED
    BY <2>1 DEF Stages
<1> HIDE DEF new
<1> QED
  BY <1>1, <1>2 DEF Swept, Gone

\* Every step is a call's own, or none does more than lose attempts.
LEMMA StepOfCalls ==
  CallTypes /\ [Next]_vars => Swept \/ \E c \in Calls : Own(c)
<1> SUFFICES ASSUME CallTypes, [Next]_vars, ~(\E c \in Calls : Own(c)) PROVE Swept
  OBVIOUS
<1>1. CASE UNCHANGED <<auth, call, work, executed>>
  BY <1>1 DEF Swept, CallTypes
<1>2. CASE \E c \in Calls : Client(c) \/ \E r \in Requests[c] : Start(c, r)
  BY <1>2 DEF Own
<1>3. CASE \E c \in Calls, n \in Attempts : Handle(c, n) \/ Execute(c, n)
  BY <1>3 DEF Own
<1>4. CASE Load \/ PutBootKey \/ CacheBootKey \/ TellBootKey \/ Serve \/ Signal \/ Tick
  <2>1. UNCHANGED <<auth, call, work, executed>>
    BY <1>4 DEF Load, PutBootKey, CacheBootKey, TellBootKey, Serve, Signal, Tick
  <2> QED
    BY <2>1, <1>1
<1>5. CASE (\E via \in Listeners : Drain(via)) \/ Exit \/ Crash
  BY <1>5, DrainSweeps, GoneSweeps DEF Exit, Crash
<1>6. CASE UNCHANGED vars
  BY <1>6, <1>1 DEF vars
<1> QED
  BY <1>2, <1>3, <1>4, <1>5, <1>6 DEF Next

\* A call's own steps do nothing to the others.
LEMMA OwnIsolated ==
  ASSUME CallTypes, NEW c \in Calls, Own(c), NEW d \in Calls, d # c
  PROVE  auth' = auth /\ call'[d] = call[d] /\ work'[d] = work[d] /\ executed'[d] = executed[d]
<1>1. CASE Client(c)
  BY <1>1 DEF Client, Receive, GiveUp, Resend, CallTypes
<1>2. CASE \E r \in Requests[c] : Start(c, r)
  BY <1>2 DEF Start, CallTypes
<1>3. ASSUME NEW n \in Attempts, Handle(c, n)
      PROVE  auth' = auth /\ call'[d] = call[d] /\ work'[d] = work[d] /\ executed'[d] = executed[d]
  <2>1. \E status : Reject(c, n, status)
    BY <1>3 DEF Handle
  <2> QED
    BY <2>1 DEF Reject, CallTypes
<1>4. ASSUME NEW n \in Attempts, Execute(c, n)
      PROVE  auth' = auth /\ call'[d] = call[d] /\ work'[d] = work[d] /\ executed'[d] = executed[d]
  BY <1>4 DEF Execute, CallTypes
<1> QED
  BY <1>1, <1>2, <1>3, <1>4 DEF Own

\* The invariant is inductive.
LEMMA CallsInductive == CallInv /\ [Next]_vars => CallInv'
<1> SUFFICES ASSUME CallInv, [Next]_vars PROVE CallInv'
  OBVIOUS
<1>1. CallTypes
  BY DEF CallInv
<1>2. CASE Swept
  <2>1. CallTypes'
    BY <1>1, <1>2 DEF Swept, CallTypes
  <2>2. ASSUME NEW c \in Calls PROVE Truthful(c)'
    BY <1>1, <1>2, StagesTruthful DEF Swept, CallInv
  <2> QED
    BY <2>1, <2>2 DEF CallInv
<1>3. ASSUME NEW c \in Calls, Own(c) PROVE CallInv'
  <2>1. CallTypes' /\ Truthful(c)'
    BY <1>3, StartTruthful, ReceiveTruthful, ResendTruthful, HandleTruthful, ExecuteTruthful
       DEF Own, Client
  <2>2. ASSUME NEW d \in Calls, d # c PROVE Truthful(d)'
    BY <1>1, <1>3, <2>2, OwnIsolated, UntouchedTruthful DEF CallInv
  <2> QED
    BY <2>1, <2>2 DEF CallInv
<1> QED
  BY <1>1, <1>2, <1>3, StepOfCalls

\* The invariant holds before the first call.
LEMMA CallsInit == Init => CallInv
<1> SUFFICES ASSUME Init PROVE CallInv
  OBVIOUS
<1>1. \A c \in Calls :
        /\ call[c] = Fresh /\ executed[c] = {}
        /\ \A n \in Attempts : work[c][n] = "none"
  BY DEF Init
<1>2. Fresh \in [state : States, request : Asked, attempt : 0 .. MaxRetries + 1]
  <2>1. None \in Asked
    BY DEF Asked
  <2>2. 0 \in 0 .. MaxRetries + 1
    <3>1. \A m \in Nat : 0 \in 0 .. m + 1
      OBVIOUS
    <3> QED
      BY <3>1, AttemptNumbers
  <2> QED
    BY <2>1, <2>2 DEF Fresh, States
<1>3. CallTypes
  BY <1>2 DEF Init, CallTypes, Stages
<1>4. \A c \in Calls : Truthful(c)
  BY <1>1 DEF Truthful, Fresh, Refused
<1> QED
  BY <1>3, <1>4 DEF CallInv

\* There are no more executions than attempts.
LEMMA ExecutionsCounted ==
  ASSUME CallInv, NEW c \in Calls
  PROVE  Cardinality(executed[c]) <= call[c].attempt /\ Cardinality(executed[c]) \in Nat
<1> DEFINE k == call[c].attempt
<1> DEFINE T == ResolvedTenant(call[c].request)
<1> DEFINE f == [n \in 1 .. k |-> [attempt |-> n, tenant |-> T]]
<1> DEFINE R == {f[n] : n \in 1 .. k}
<1>1. k \in Nat
  BY AttemptNumbers DEF CallInv, CallTypes
<1>2. executed[c] \subseteq R
  <2>1. ASSUME NEW x \in executed[c] PROVE x \in R
    <3>1. x = [attempt |-> x.attempt, tenant |-> T] /\ x.attempt \in 1 .. k
      BY DEF CallInv, Truthful
    <3>2. f[x.attempt] = x
      BY <3>1
    <3> HIDE DEF f
    <3> QED
      BY <3>1, <3>2
  <2> QED
    BY <2>1
<1>3. IsFiniteSet(1 .. k) /\ Cardinality(1 .. k) = k
  <2>1. \A j \in Nat : 1 \in Int /\ j \in Int /\ (IF 1 > j THEN 0 ELSE j - 1 + 1) = j
    OBVIOUS
  <2> HIDE DEF k
  <2> QED
    BY <1>1, <2>1, FS_Interval
<1>4. f \in Surjection(1 .. k, R)
  <2> HIDE DEF f
  <2>1. f = [n \in 1 .. k |-> f[n]]
    BY DEF f
  <2> QED
    BY <2>1 DEF Surjection
<1> HIDE DEF k, T, f, R
<1>5. IsFiniteSet(R) /\ Cardinality(R) <= k
  BY <1>3, <1>4, FS_Surjection
<1>6. IsFiniteSet(executed[c]) /\ Cardinality(executed[c]) <= Cardinality(R)
  BY <1>2, <1>5, FS_Subset
<1>7. Cardinality(R) \in Nat /\ Cardinality(executed[c]) \in Nat
  BY <1>5, <1>6, FS_CardinalityType
<1> QED
  BY <1>1, <1>5, <1>6, <1>7 DEF k

\* What the calls' invariant says is what OutcomesTrue does.
LEMMA CallInvImplies == CallInv => OutcomesTrue
<1> SUFFICES ASSUME CallInv, NEW c \in Calls
             PROVE  /\ call[c].state = "ok" => executed[c] # {}
                    /\ call[c].state \in Ended \ {"ok"} /\ ~Retried(call[c].request)
                         => (call[c].state \in Refused => executed[c] = {})
                    /\ Cardinality(executed[c])
                         <= IF Retried(call[c].request) THEN MaxRetries + 1 ELSE 1
                    /\ \A x \in executed[c] :
                         auth /\ Keyed(call[c].request)
                           => x.tenant = call[c].request.key.tenant
  BY DEF OutcomesTrue, Refused
<1>1. Truthful(c) /\ call[c].attempt \in 0 .. MaxRetries + 1 /\ MaxRetries \in Nat
  BY AttemptNumbers DEF CallInv, CallTypes
<1>2. ASSUME call[c].state \in Refused, ~Retried(call[c].request) PROVE executed[c] = {}
  <2>1. call[c].attempt = 1 /\ work[c][1] \notin Over
    BY <1>1, <1>2 DEF Truthful, Refused, Over
  <2>2. \A x \in executed[c] : x.attempt = 1 /\ work[c][x.attempt] \in Over
    BY <1>1, <2>1 DEF Truthful
  <2> QED
    BY <2>1, <2>2
<1>3. Cardinality(executed[c]) <= call[c].attempt /\ Cardinality(executed[c]) \in Int
  BY ExecutionsCounted
<1>4. call[c].attempt <= MaxRetries + 1 /\ (~Retried(call[c].request) => call[c].attempt <= 1)
  BY <1>1 DEF Truthful
<1>5. Cardinality(executed[c]) <= IF Retried(call[c].request) THEN MaxRetries + 1 ELSE 1
  BY <1>1, <1>3, <1>4
<1>6. \A x \in executed[c] : x.tenant = ResolvedTenant(call[c].request)
  BY <1>1 DEF Truthful
<1>7. auth /\ Keyed(call[c].request)
        => ResolvedTenant(call[c].request) = call[c].request.key.tenant
  BY DEF ResolvedTenant, AuthTenant, Keyed
<1> QED
  BY <1>1, <1>2, <1>5, <1>6, <1>7 DEF Truthful

\* HebbsClient and the gRPC handlers, for any number of calls, any keys and
\* any number of retries, through lost answers, crashes and drains: what a
\* call ends with is what the engine did for it.
THEOREM OutcomesStayTrue == Spec => []OutcomesTrue
<1>1. CallInv => OutcomesTrue
  BY CallInvImplies
<1> QED
  BY <1>1, CallsInductive, CallsInit, PTL DEF Spec

----------------------------------------------------------------------------
(* The keys. *)

OneBootKey == \A j, k \in keyStore : j.name < 0 /\ k.name < 0 => j = k

\* What the cache holds in each phase of the process: nothing before the load
\* and nothing beyond the store ever; without failures all of it but for the
\* bootstrap key between its put and its insertion.
KeyInv ==
  /\ failures \in Nat /\ bounds \in Bounds
  /\ keyCache \subseteq keyStore
  /\ server = "down" => keyCache = {}
  /\ server = "stored" => BootKey(boots) \in keyStore
  /\ failures = 0 =>
       /\ OneBootKey
       /\ server \in {"loaded", "cached", "serving", "draining", "stopping"} => keyCache = keyStore
       /\ server = "stored" => keyCache = {} /\ keyStore = {BootKey(boots)}

\* Requests, ticks and the drain leave the keys alone.
KeysAlone == UNCHANGED <<keyStore, keyCache, boots, failures, bounds>>

\* Every action but those of the start, and the end, leaves the keys alone.
LEMMA KeysOfOthers ==
  ASSUME Next
  PROVE  \/ KeysAlone /\ server' = server
         \/ KeysAlone /\ (server \in {"serving", "draining"} /\ server' \in {"draining", "stopping"})
         \/ Load \/ PutBootKey \/ CacheBootKey \/ TellBootKey \/ Serve \/ Gone
<1> USE DEF KeysAlone, keyVars, serverVars, Goto
<1>1. CASE \E c \in Calls : Client(c) \/ \E r \in Requests[c] : Start(c, r)
  BY <1>1 DEF Client, Receive, GiveUp, Resend, Start
<1>2. ASSUME NEW c \in Calls, NEW n \in Attempts, Handle(c, n)
      PROVE  KeysAlone /\ server' = server
  BY <1>2 DEF Handle, Reject
<1>3. ASSUME NEW c \in Calls, NEW n \in Attempts, Execute(c, n)
      PROVE  KeysAlone /\ server' = server
  BY <1>3 DEF Execute
<1>4. CASE Signal \/ (\E via \in Listeners : Drain(via)) \/ Tick
  BY <1>4 DEF Signal, Drain, Tick
<1>5. CASE Exit \/ Crash
  BY <1>5 DEF Exit, Crash
<1> QED BY <1>1, <1>2, <1>3, <1>4, <1>5 DEF Next

\* Every step keeps it.
LEMMA KeysKept == KeyInv /\ [Next]_vars => KeyInv'
<1> SUFFICES ASSUME KeyInv, [Next]_vars PROVE KeyInv'
  OBVIOUS
<1> USE DEF KeyInv, OneBootKey
<1>1. CASE UNCHANGED vars
  BY <1>1 DEF vars, keyVars, serverVars, BootKey
<1>2. CASE KeysAlone /\ server' = server
  BY <1>2 DEF KeysAlone, BootKey
<1>3. CASE KeysAlone /\ (server \in {"serving", "draining"} /\ server' \in {"draining", "stopping"})
  BY <1>3 DEF KeysAlone
<1>4. CASE Load
  <2>1. failures' \in Nat /\ (failures' = 0 => failures = 0 /\ keyCache' = keyStore)
    BY <1>4 DEF Load, Fails
  <2> QED BY <1>4, <2>1 DEF Load
<1>5. CASE PutBootKey
  <2>1. CASE server' = "serving"
    <3>1. failures' \in Nat /\ failures' # 0
      BY <1>5, <2>1 DEF PutBootKey, Fails, Goto
    <3> QED BY <1>5, <2>1, <3>1 DEF PutBootKey, Goto
  <2>2. CASE server' = "stored"
    <3>1. /\ keyStore' = keyStore \cup {BootKey(boots)'} /\ keyCache = {} /\ keyCache' = {}
          /\ failures' = failures /\ bounds' = bounds
      BY <1>5, <2>2 DEF PutBootKey, Goto, BootKey
    <3>2. failures = 0 => keyStore' = {BootKey(boots)'}
      BY <1>5, <3>1 DEF PutBootKey
    <3> QED BY <2>2, <3>1, <3>2
  <2> QED BY <1>5, <2>1, <2>2 DEF PutBootKey, Goto
<1>6. CASE CacheBootKey
  BY <1>6 DEF CacheBootKey, Goto
<1>7. CASE TellBootKey \/ Serve
  BY <1>7 DEF TellBootKey, Serve, Goto, keyVars
<1>8. CASE Gone
  BY <1>8 DEF Gone
<1> QED BY <1>1, <1>2, <1>3, <1>4, <1>5, <1>6, <1>7, <1>8, KeysOfOthers

\* A server that serves has the keys of the store, and nothing else, and a
\* store has one bootstrap key, through crashes at every step of the start.
THEOREM ServersKnowTheKeys == Spec => []KeysAgree
<1>1. Init => KeyInv
  BY BoundsAreNumbers, OneBootKeyAtFirst DEF Init, KeyInv, OneBootKey
<1>2. KeyInv => KeysAgree
  <2> SUFFICES ASSUME KeyInv PROVE KeysAgree
    OBVIOUS
  <2> DEFINE T == {k \in keyStore : k.name < 0}
  <2>a. keyCache \subseteq keyStore
    BY DEF KeyInv
  <2>b. ASSUME server \in {"serving", "draining"} /\ failures = 0 PROVE keyCache = keyStore
    BY <2>b DEF KeyInv
  <2>1. ASSUME failures = 0 PROVE \A j, k \in T : j = k
    BY <2>1 DEF KeyInv, OneBootKey
  <2>2. ASSUME failures = 0 PROVE Cardinality(T) <= 1
    <3> HIDE DEF T
    <3>1. CASE T = {}
      BY <3>1, FS_EmptySet
    <3>2. CASE T # {}
      <4>1. PICK k : T = {k}
        BY <2>1, <2>2, <3>2
      <4> QED BY <4>1, FS_Singleton
    <3> QED BY <3>1, <3>2
  <2> QED BY <2>a, <2>b, <2>2 DEF KeysAgree
<1> QED BY <1>1, <1>2, KeysKept, PTL DEF Spec
============================================================================
