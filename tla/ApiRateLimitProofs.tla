--------------------------- MODULE ApiRateLimitProofs --------------------------
(***************************************************************************)
(* Proofs about ApiRateLimit: for any number of clients, instances and     *)
(* requests and any policy, whatever the order in which statements get the *)
(* lock and rows are pruned, a client gets no more than a plain bucket     *)
(* gives it, and no memo refuses it for longer than the bucket would.      *)
(*                                                                         *)
(* What is asked of the environment: no statement waits for the lock for   *)
(* longer than a token takes to refill, and a row is kept until its bucket *)
(* would be full again and its refusals are over, with the waits for the   *)
(* lock on top.  As shipped that is a second, and an hour against minutes. *)
(***************************************************************************)
EXTENDS ApiRateLimit, TLAPS

LockIsBrief == MaxLockWait <= TokenTicks

RowsAreKept ==
    /\ Full + 2 * MaxLockWait <= IdleTicks + 1
    /\ 2 * TokenTicks + Second + MaxLockWait <= IdleTicks + 2

Environment == LockIsBrief /\ RowsAreKept

Rows == [present : BOOLEAN, tokens : Int, at : Int]

Request == [pc    : {"free", "asking", "locking", "sweeping", "denied"},
            key   : Keys \cup {"none"},
            inst  : Instances \cup {"none"},
            at    : Int,
            began : Int,
            wait  : Int]

Typed ==
    /\ now \in Nat
    /\ row \in [Keys -> Rows]
    /\ deny \in [Instances -> [Keys -> Int]]
    /\ req \in [Requests -> Request]
    /\ plain \in [Keys -> [tokens : Int, at : Int]]

\* A request in the handler has a client and an instance, and its statement started no
\* longer ago than a wait for the lock.
Timely(r) ==
    /\ req[r].pc # "free" => req[r].key \in Keys /\ req[r].inst \in Instances
    /\ req[r].pc = "asking" => req[r].at <= now
    /\ req[r].pc = "locking" =>
          /\ req[r].at <= req[r].began
          /\ req[r].began <= now /\ now <= req[r].began + MaxLockWait

\* What a bucket would hold at time 0, had it never been full: the part of its balance
\* that the passing of time does not change.
Credit(bucket) == bucket.tokens - bucket.at

\* The plain bucket is never behind the row by more than one wait for the lock; a row
\* that was pruned stood for a full bucket.
Bucket(k) ==
    /\ plain[k].at <= now
    /\ plain[k].tokens >= -MaxLockWait
    /\ row[k].present =>
          /\ row[k].at <= now
          /\ plain[k].at <= row[k].at + MaxLockWait
          /\ Credit(row[k]) <= Credit(plain[k]) + MaxLockWait
    /\ ~row[k].present => Full <= Credit(plain[k]) + now

\* A refusal of a client until a time, remembered or about to be: it is over, or it was
\* given no longer ago than the row was last written, and lasts no longer than the row.
Refusal(k, until) ==
    \/ until <= now
    \/ /\ row[k].present
       /\ until < now + 2 * TokenTicks + Second
       /\ until < row[k].at + 2 * TokenTicks + Second + MaxLockWait
       /\ until < ClearAt(row[k]) + Second + MaxLockWait

Remembered == \A i \in Instances, k \in Keys : Refusal(k, deny[i][k])

Until(r) == req[r].at + req[r].wait * Second

Pending == \A r \in Requests : req[r].pc = "denied" => Refusal(req[r].key, Until(r))

Inv ==
    /\ Typed
    /\ \A r \in Requests : Timely(r)
    /\ \A k \in Keys : Bucket(k)
    /\ Remembered
    /\ Pending

--------------------------------------------------------------------------------
(* Arithmetic.                                                             *)

LEMMA MinOfTwo ==
    ASSUME NEW a \in Int, NEW b \in Int
    PROVE  Min({a, b}) = IF a <= b THEN a ELSE b
<1>1. \E x \in {a, b} : \A y \in {a, b} : x <= y
  OBVIOUS
<1> QED
  BY <1>1 DEF Min

LEMMA MaxOfTwo ==
    ASSUME NEW a \in Int, NEW b \in Int
    PROVE  Max({a, b}) = IF a >= b THEN a ELSE b
<1>1. \E x \in {a, b} : \A y \in {a, b} : x >= y
  OBVIOUS
<1> QED
  BY <1>1 DEF Max

\* The constants, and a full bucket: it serves a request at least.
LEMMA Constants ==
    /\ TokenTicks \in Int /\ TokenTicks > 0
    /\ Second \in Int /\ Second > 0
    /\ IdleTicks \in Int
    /\ MaxLockWait \in Int /\ MaxLockWait >= 0
    /\ Full \in Int /\ Full >= TokenTicks
<1>1. Burst \in Nat \ {0} /\ TokenTicks \in Nat \ {0}
  BY ApiRateLimitAssumption
<1>2. Burst * TokenTicks \in Int /\ Burst * TokenTicks >= TokenTicks
  BY <1>1, Z3
<1> QED
  BY <1>2, ApiRateLimitAssumption DEF Full

\* What a spend leaves in the bucket, as credit.
LEMMA SpentIs ==
    ASSUME NEW bucket \in Rows, NEW at \in Int
    PROVE  /\ Spent(bucket, at) \in Int
           /\ Spent(bucket, at) >= -TokenTicks
           /\ ~bucket.present => Spent(bucket, at) = Full - TokenTicks
           /\ bucket.present =>
                \/ Spent(bucket, at) = -TokenTicks
                \/ /\ Spent(bucket, at) <= Full - TokenTicks
                   /\ Spent(bucket, at) <= Credit(bucket) + at - TokenTicks
<1>1. bucket.tokens \in Int /\ bucket.at \in Int /\ bucket.present \in BOOLEAN
  BY DEF Rows
<1> DEFINE refilled == Refilled(bucket, at)
<1>2. /\ refilled \in Int
      /\ refilled <= Full /\ refilled <= bucket.tokens + (at - bucket.at)
  BY <1>1, Constants, MinOfTwo DEF Refilled
<1> HIDE DEF refilled
<1>3. CASE bucket.present
  <2>1. Spent(bucket, at) = IF refilled - TokenTicks >= -TokenTicks
                            THEN refilled - TokenTicks ELSE -TokenTicks
    BY <1>2, <1>3, Constants, MaxOfTwo DEF Spent, refilled
  <2> QED
    BY <1>1, <1>2, <1>3, <2>1, Constants DEF Credit
<1>4. CASE ~bucket.present
  BY <1>4, Constants DEF Spent
<1> QED
  BY <1>3, <1>4

\* Retry-After rounds a positive wait up by less than a second.
LEMMA RetryAfterRounds ==
    ASSUME NEW tokens \in Int, tokens < TokenTicks
    PROVE  /\ RetryAfter(tokens) \in Int
           /\ RetryAfter(tokens) * Second < TokenTicks - tokens + Second
<1> DEFINE a == TokenTicks - tokens
<1>1. a \in Int /\ a > 0 /\ Second \in Int /\ Second > 0
  BY Constants
<1> HIDE DEF a
<1>2. CeilDiv(a, Second) \in Int /\ CeilDiv(a, Second) * Second < a + Second
  BY <1>1, Z3 DEF CeilDiv
<1>3. RetryAfter(tokens) = IF 1 >= CeilDiv(a, Second) THEN 1 ELSE CeilDiv(a, Second)
  BY <1>2, MaxOfTwo DEF RetryAfter, a
<1>4. RetryAfter(tokens) \in {1, CeilDiv(a, Second)}
  BY <1>3
<1>5. CASE RetryAfter(tokens) = 1
  BY <1>1, <1>5 DEF a
<1>6. CASE RetryAfter(tokens) = CeilDiv(a, Second)
  BY <1>2, <1>6 DEF a
<1> QED
  BY <1>4, <1>5, <1>6

--------------------------------------------------------------------------------
(* What one step does to a refusal, and to a bucket.                       *)

\* The row stays and the clock goes on, if it does.
LEMMA RefusalStays ==
    ASSUME NEW k \in Keys, NEW until \in Int, Typed, now' \in Int, now <= now',
           row'[k] = row[k], Refusal(k, until)
    PROVE  Refusal(k, until)'
<1>1. CASE until <= now
  BY <1>1 DEF Typed, Refusal
<1>2. CASE ~(until <= now)
  <2>1. /\ row'[k].present
        /\ until < now + 2 * TokenTicks + Second
        /\ until < row'[k].at + 2 * TokenTicks + Second + MaxLockWait
        /\ until < ClearAt(row'[k]) + Second + MaxLockWait
    BY <1>2 DEF Refusal
  <2>2. until < now' + 2 * TokenTicks + Second
    <3> DEFINE span == 2 * TokenTicks + Second
    <3>1. span \in Int /\ now \in Int /\ now + 2 * TokenTicks + Second = now + span
      BY Constants DEF Typed
    <3>2. now' + 2 * TokenTicks + Second = now' + span
      BY Constants
    <3> HIDE DEF span
    <3> QED
      BY <2>1, <3>1, <3>2
  <2> QED
    BY <2>1, <2>2 DEF Refusal
<1> QED
  BY <1>1, <1>2

\* A statement spends from the row: a refusal in force lasts no longer than what the row
\* now owes, even when the statement started before the last one did.
LEMMA RefusalSpent ==
    ASSUME NEW k \in Keys, NEW until \in Int, NEW began \in Int, Typed, now' = now,
           began <= now, now <= began + MaxLockWait,
           row'[k] = [present |-> TRUE, tokens |-> Spent(row[k], began), at |-> began],
           Refusal(k, until)
    PROVE  Refusal(k, until)'
<1>1. CASE until <= now
  BY <1>1 DEF Refusal
<1>2. CASE ~(until <= now)
  <2> DEFINE spent == Spent(row[k], began)
  <2>1. row[k] \in Rows /\ row[k].tokens \in Int /\ row[k].at \in Int
    BY DEF Typed, Rows
  <2>2. /\ row[k].present
        /\ until < now + 2 * TokenTicks + Second
        /\ until < row[k].at + 2 * TokenTicks + Second + MaxLockWait
        /\ until < ClearAt(row[k]) + Second + MaxLockWait
    BY <1>2 DEF Refusal
  <2>3. /\ spent \in Int
        /\ \/ spent = -TokenTicks
           \/ spent <= Credit(row[k]) + began - TokenTicks
    BY <2>1, <2>2, SpentIs
  <2> HIDE DEF spent
  <2>4. row'[k].present /\ row'[k].tokens = spent /\ row'[k].at = began
    BY DEF spent
  <2>5. ClearAt(row'[k]) = began + (TokenTicks - spent)
    BY <2>4 DEF ClearAt
  <2>6. until < ClearAt(row'[k]) + Second + MaxLockWait
    BY <2>1, <2>2, <2>3, <2>5, Constants DEF Typed, ClearAt, Credit
  <2> QED
    BY <2>2, <2>4, <2>6, Constants DEF Typed, Refusal
<1> QED
  BY <1>1, <1>2

\* A row is pruned only when every refusal it stood for is over.
LEMMA RefusalPruned ==
    ASSUME NEW k \in Keys, NEW until \in Int, Typed, RowsAreKept, now' = now,
           row'[k] = IF row[k].present /\ row[k].at < now - IdleTicks THEN NoRow ELSE row[k],
           Refusal(k, until)
    PROVE  Refusal(k, until)'
<1>0. row[k].tokens \in Int /\ row[k].at \in Int
  BY DEF Typed, Rows
<1>1. CASE row[k].present /\ row[k].at < now - IdleTicks
  BY <1>0, <1>1, Constants DEF Typed, RowsAreKept, Refusal
<1>2. CASE ~(row[k].present /\ row[k].at < now - IdleTicks)
  BY <1>0, <1>2, RefusalStays DEF Typed
<1> QED
  BY <1>1, <1>2

\* The refusal a denied request carries: counted from before its statement, it is over
\* less than a second after the row it leaves is clear.
LEMMA RefusalGiven ==
    ASSUME NEW k \in Keys, NEW began \in Int, NEW at \in Int, NEW spent \in Int,
           Typed, now' = now, at <= began, began <= now, now <= began + MaxLockWait,
           row'[k] = [present |-> TRUE, tokens |-> spent, at |-> began],
           -TokenTicks <= spent, spent < 0
    PROVE  Refusal(k, at + RetryAfter(spent) * Second)'
<1> DEFINE wait == RetryAfter(spent) * Second
<1>1. RetryAfter(spent) \in Int /\ wait < TokenTicks - spent + Second
  BY RetryAfterRounds, Constants
<1>2. wait \in Int
  BY <1>1, Constants
<1> HIDE DEF wait
<1>3. row'[k].present /\ row'[k].tokens = spent /\ row'[k].at = began
  OBVIOUS
<1>4. ClearAt(row'[k]) = began + (TokenTicks - spent)
  BY <1>3 DEF ClearAt
<1>5. /\ at + wait < now' + 2 * TokenTicks + Second
      /\ at + wait < row'[k].at + 2 * TokenTicks + Second + MaxLockWait
      /\ at + wait < ClearAt(row'[k]) + Second + MaxLockWait
  BY <1>1, <1>2, <1>3, <1>4, Constants DEF Typed
<1>6. Refusal(k, at + wait)'
  BY <1>3, <1>5 DEF Refusal
<1> QED
  BY <1>6 DEF wait

\* A statement that serves: the plain bucket is spent when it runs, the row as of when it
\* started.
LEMMA BucketServes ==
    ASSUME NEW k \in Keys, NEW began \in Int, Typed, Bucket(k), now' = now,
           began <= now, now <= began + MaxLockWait, Spent(row[k], began) >= 0,
           row'[k] = [present |-> TRUE, tokens |-> Spent(row[k], began), at |-> began],
           plain'[k] = [tokens |-> Refilled(plain[k], now) - TokenTicks, at |-> now]
    PROVE  Bucket(k)'
<1> DEFINE spent == Spent(row[k], began)
           drawn == Refilled(plain[k], now)
<1>1. /\ row[k] \in Rows /\ row[k].tokens \in Int /\ row[k].at \in Int
      /\ plain[k].tokens \in Int /\ plain[k].at \in Int /\ now \in Int
  BY DEF Typed, Rows
<1>2. /\ spent \in Int /\ spent >= 0
      /\ spent <= Full - TokenTicks
      /\ row[k].present => spent <= Credit(row[k]) + began - TokenTicks
  BY <1>1, SpentIs, Constants
<1>3. drawn \in {Full, plain[k].tokens + (now - plain[k].at)}
  BY <1>1, Constants, MinOfTwo DEF Refilled
<1> HIDE DEF spent, drawn
<1>4. /\ row'[k].present /\ row'[k].tokens = spent /\ row'[k].at = began
      /\ plain'[k].tokens = drawn - TokenTicks /\ plain'[k].at = now
  BY DEF spent, drawn
<1>5. drawn - TokenTicks >= -MaxLockWait
  <2>1. CASE row[k].present
    BY <1>1, <1>2, <1>3, <2>1, Constants DEF Bucket, Credit
  <2>2. CASE ~row[k].present
    BY <1>1, <1>2, <1>3, <2>2, Constants DEF Bucket, Credit
  <2> QED
    BY <2>1, <2>2
<1>6. spent - began <= (drawn - TokenTicks) - now + MaxLockWait
  <2>1. CASE row[k].present
    BY <1>1, <1>2, <1>3, <2>1, Constants DEF Bucket, Credit
  <2>2. CASE ~row[k].present
    BY <1>1, <1>2, <1>3, <2>2, Constants DEF Bucket, Credit
  <2> QED
    BY <2>1, <2>2
<1> QED
  BY <1>1, <1>2, <1>3, <1>4, <1>5, <1>6, Constants DEF Bucket, Credit

\* A statement that denies: the floor under the debt gives nothing back.
LEMMA BucketDenies ==
    ASSUME NEW k \in Keys, NEW began \in Int, Typed, Bucket(k), LockIsBrief, now' = now,
           began <= now, now <= began + MaxLockWait, Spent(row[k], began) < 0,
           row'[k] = [present |-> TRUE, tokens |-> Spent(row[k], began), at |-> began],
           plain'[k] = plain[k]
    PROVE  Bucket(k)'
<1> DEFINE spent == Spent(row[k], began)
<1>1. /\ row[k] \in Rows /\ row[k].tokens \in Int /\ row[k].at \in Int
      /\ plain[k].tokens \in Int /\ plain[k].at \in Int /\ now \in Int
  BY DEF Typed, Rows
<1>2. /\ row[k].present
      /\ spent \in Int
      /\ \/ spent = -TokenTicks
         \/ spent <= Credit(row[k]) + began - TokenTicks
  BY <1>1, SpentIs, Constants
<1> HIDE DEF spent
<1>3. row'[k].present /\ row'[k].tokens = spent /\ row'[k].at = began
  BY DEF spent
<1>4. spent - began <= Credit(plain[k]) + MaxLockWait
  BY <1>1, <1>2, Constants DEF Bucket, Credit, LockIsBrief
<1> QED
  BY <1>1, <1>2, <1>3, <1>4, Constants DEF Bucket, Credit

\* Only a row whose bucket would be full again is pruned.
LEMMA BucketPruned ==
    ASSUME NEW k \in Keys, Typed, Bucket(k), RowsAreKept, now' = now,
           row'[k] = IF row[k].present /\ row[k].at < now - IdleTicks THEN NoRow ELSE row[k],
           plain'[k] = plain[k]
    PROVE  Bucket(k)'
<1>0. /\ row[k].tokens \in Int /\ row[k].at \in Int
      /\ plain[k].tokens \in Int /\ plain[k].at \in Int
  BY DEF Typed, Rows
<1>1. CASE row[k].present /\ row[k].at < now - IdleTicks
  <2>1. ~row'[k].present
    BY <1>1 DEF NoRow
  <2>2. Full <= Credit(plain[k]) + now
    BY <1>0, <1>1, Constants DEF Typed, Bucket, Credit, RowsAreKept
  <2> QED
    BY <2>1, <2>2 DEF Bucket, Credit
<1>2. CASE ~(row[k].present /\ row[k].at < now - IdleTicks)
  BY <1>2 DEF Bucket, Credit
<1> QED
  BY <1>1, <1>2

LEMMA BucketStays ==
    ASSUME NEW k \in Keys, Typed, Bucket(k), now' \in Int, now <= now',
           row'[k] = row[k], plain'[k] = plain[k]
    PROVE  Bucket(k)'
<1>0. /\ row[k].tokens \in Int /\ row[k].at \in Int
      /\ plain[k].tokens \in Int /\ plain[k].at \in Int
  BY DEF Typed, Rows
<1> QED
  BY <1>0, Constants DEF Typed, Bucket, Credit

--------------------------------------------------------------------------------
(* The steps.                                                              *)

\* What is left to show of a step once its buckets and its rows are dealt with.
LEMMA Assembled ==
    ASSUME Inv, Typed', 
           \A k \in Keys : Bucket(k)',
           \A k \in Keys, until \in Int : Refusal(k, until) => Refusal(k, until)',
           \A r \in Requests : Timely(r)',
           \A i \in Instances, k \in Keys :
              deny'[i][k] \in {deny[i][k], 0} \/ Refusal(k, deny[i][k])',
           \A r \in Requests :
              \/ req'[r] = req[r]
              \/ req'[r].pc = "denied" => Refusal(req[r].key, Until(r))'
    PROVE  Inv'
<1>1. Remembered'
  <2> SUFFICES ASSUME NEW i \in Instances, NEW k \in Keys
               PROVE  Refusal(k, deny[i][k])'
    BY DEF Remembered
  <2>1. deny[i][k] \in Int /\ Refusal(k, deny[i][k])
    BY DEF Inv, Typed, Remembered
  <2> DEFINE old == deny[i][k]
  <2>2. CASE deny'[i][k] = deny[i][k]
    <3>1. \A until \in Int : until = deny[i][k] => Refusal(k, until)'
      BY <2>1
    <3>2. \A until \in Int : Refusal(k, until)' => (until = deny'[i][k] => Refusal(k, deny[i][k])')
      BY DEF Refusal
    <3> QED
      BY <2>1, <2>2, <3>1, <3>2
  <2>3. CASE deny'[i][k] = 0
    <3>1. now' \in Nat
      BY DEF Typed
    <3> QED
      BY <2>3, <3>1 DEF Refusal
  <2> QED
    BY <2>2, <2>3
<1>2. Pending'
  <2> SUFFICES ASSUME NEW r \in Requests, req'[r].pc = "denied"
               PROVE  Refusal(req[r].key, Until(r))'
    BY DEF Pending
  <2>1. CASE req'[r] = req[r]
    <3>1. /\ req[r] \in Request /\ req[r].pc = "denied"
          /\ req[r].key \in Keys
          /\ Refusal(req[r].key, Until(r))
      BY <2>1 DEF Inv, Typed, Timely, Pending
    <3>2. Until(r) \in Int
      BY <3>1, Constants DEF Request, Until
    <3>3. \A k \in Keys, until \in Int : k = req[r].key /\ until = Until(r) => Refusal(k, until)'
      BY <3>1
    <3>4. Until(r)' = Until(r) /\ req'[r].key = req[r].key
      BY <2>1 DEF Until
    <3>5. \A k \in Keys, until \in Int :
            Refusal(k, until)' /\ k = req'[r].key /\ until = Until(r)'
                => Refusal(req[r].key, Until(r))'
      BY DEF Refusal
    <3> QED
      BY <3>1, <3>2, <3>3, <3>4, <3>5
  <2> QED
    BY <2>1
<1> QED
  BY <1>1, <1>2 DEF Inv

\* The handler's record of one request is replaced.
LEMMA Replaced ==
    ASSUME Typed, NEW r \in Requests, NEW rec \in Request, req' = [req EXCEPT ![r] = rec]
    PROVE  /\ req' \in [Requests -> Request]
           /\ req'[r] = rec
           /\ \A s \in Requests : s # r => req'[s] = req[s]
BY DEF Typed

LEMMA FreeType == Free \in Request /\ Free.pc = "free"
BY DEF Free, Request

\* The other requests do not notice.
LEMMA TimelyStays ==
    ASSUME NEW s \in Requests, Timely(s), req'[s] = req[s], now' = now
    PROVE  Timely(s)'
BY DEF Timely

\* A step that leaves the clock, the rows and the plain buckets alone.
LEMMA RowsStay ==
    ASSUME Inv, now' = now, row' = row, plain' = plain
    PROVE  /\ \A k \in Keys : Bucket(k)'
           /\ \A k \in Keys, until \in Int : Refusal(k, until) => Refusal(k, until)'
<1>1. Typed /\ now' \in Int /\ now <= now'
  BY DEF Inv, Typed
<1>2. ASSUME NEW k \in Keys PROVE Bucket(k)'
  BY <1>1, BucketStays DEF Inv
<1>3. ASSUME NEW k \in Keys, NEW until \in Int, Refusal(k, until) PROVE Refusal(k, until)'
  BY <1>1, <1>3, RefusalStays
<1> QED
  BY <1>2, <1>3

LEMMA ArriveStep ==
    ASSUME Inv, NEW r \in Requests, Arrive(r)
    PROVE  Inv'
<1>0. Typed
  BY DEF Inv
<1>1. PICK i \in Instances, k \in Keys :
         /\ deny' = [deny EXCEPT ![i][k] = 0]
         /\ req' = [req EXCEPT ![r] = [pc |-> "asking", key |-> k, inst |-> i,
                                       at |-> now, began |-> 0, wait |-> 0]]
  BY DEF Arrive
<1> DEFINE rec == [pc |-> "asking", key |-> k, inst |-> i, at |-> now, began |-> 0, wait |-> 0]
<1>2. rec \in Request /\ rec.pc = "asking"
  BY <1>0 DEF Request, Typed
<1>3. now' = now /\ row' = row /\ plain' = plain
  BY DEF Arrive
<1>4. /\ req' \in [Requests -> Request] /\ req'[r] = rec
      /\ \A s \in Requests : s # r => req'[s] = req[s]
  BY <1>0, <1>1, <1>2, Replaced
<1>5. \A s \in Requests : Timely(s)'
  <2>1. Timely(r)'
    BY <1>0, <1>3, <1>4 DEF Timely, Typed
  <2> QED
    BY <1>3, <1>4, <2>1, TimelyStays DEF Inv
<1>6. /\ deny' \in [Instances -> [Keys -> Int]]
      /\ \A j \in Instances, l \in Keys : deny'[j][l] \in {deny[j][l], 0}
  BY <1>0, <1>1 DEF Typed
<1>7. Typed'
  BY <1>0, <1>3, <1>4, <1>6 DEF Typed
<1>8. \A s \in Requests : \/ req'[s] = req[s]
                          \/ req'[s].pc = "denied" => Refusal(req[s].key, Until(s))'
  BY <1>2, <1>4
<1> QED
  BY <1>3, <1>5, <1>6, <1>7, <1>8, RowsStay, Assembled

LEMMA BeginStep ==
    ASSUME Inv, NEW r \in Requests, Begin(r)
    PROVE  Inv'
<1>0. Typed /\ Timely(r)
  BY DEF Inv
<1> DEFINE rec == [req[r] EXCEPT !.pc = "locking", !.began = now]
<1>1. /\ req[r].pc = "asking" /\ req' = [req EXCEPT ![r] = rec]
      /\ now' = now /\ row' = row /\ plain' = plain /\ deny' = deny
  BY DEF Begin
<1>2. /\ rec \in Request /\ rec.pc = "locking" /\ rec.began = now
      /\ rec.at = req[r].at /\ rec.key = req[r].key /\ rec.inst = req[r].inst
  <2>1. req[r] \in Request /\ now \in Int
    BY <1>0 DEF Typed
  <2> QED
    BY <2>1 DEF Request
<1> HIDE DEF rec
<1>4. /\ req' \in [Requests -> Request] /\ req'[r] = rec
      /\ \A s \in Requests : s # r => req'[s] = req[s]
  BY <1>0, <1>1, <1>2, Replaced
<1>5. \A s \in Requests : Timely(s)'
  <2>1. Timely(r)'
    BY <1>0, <1>1, <1>2, <1>4, Constants DEF Timely, Typed
  <2> QED
    BY <1>1, <1>4, <2>1, TimelyStays DEF Inv
<1>7. Typed'
  BY <1>0, <1>1, <1>4 DEF Typed
<1>8. \A s \in Requests : \/ req'[s] = req[s]
                          \/ req'[s].pc = "denied" => Refusal(req[s].key, Until(s))'
  BY <1>2, <1>4
<1> QED
  BY <1>1, <1>5, <1>7, <1>8, RowsStay, Assembled

\* FailOpen's step, and what it shares with a request that is over otherwise.
LEMMA FailOpenStep ==
    ASSUME Inv, NEW r \in Requests, FailOpen(r)
    PROVE  Inv'
<1>0. Typed
  BY DEF Inv
<1>1. /\ req' = [req EXCEPT ![r] = Free]
      /\ now' = now /\ row' = row /\ plain' = plain /\ deny' = deny
  BY DEF FailOpen
<1>4. /\ req' \in [Requests -> Request] /\ req'[r] = Free
      /\ \A s \in Requests : s # r => req'[s] = req[s]
  BY <1>0, <1>1, FreeType, Replaced
<1>5. \A s \in Requests : Timely(s)'
  <2>1. Timely(r)'
    BY <1>4, FreeType DEF Timely
  <2> QED
    BY <1>1, <1>4, <2>1, TimelyStays DEF Inv
<1>7. Typed'
  BY <1>0, <1>1, <1>4 DEF Typed
<1>8. \A s \in Requests : \/ req'[s] = req[s]
                          \/ req'[s].pc = "denied" => Refusal(req[s].key, Until(s))'
  BY <1>4, FreeType
<1> QED
  BY <1>1, <1>5, <1>7, <1>8, RowsStay, Assembled

LEMMA RefuseStep ==
    ASSUME Inv, NEW r \in Requests, Refuse(r)
    PROVE  Inv'
<1>0. /\ Typed /\ Timely(r)
      /\ req[r].pc = "denied" /\ Refusal(req[r].key, Until(r))
  BY DEF Inv, Pending, Refuse
<1> DEFINE i     == req[r].inst
           k     == req[r].key
           kept  == IF Cardinality(Entries(i)) >= MaxEntries /\ k \notin Entries(i)
                    THEN [j \in Keys |-> 0] ELSE deny[i]
           until == Until(r)
<1>1. /\ deny' = [deny EXCEPT ![i] = [kept EXCEPT ![k] = until]]
      /\ req' = [req EXCEPT ![r] = Free]
      /\ now' = now /\ row' = row /\ plain' = plain
  BY DEF Refuse, Until
<1>2. /\ i \in Instances /\ k \in Keys
      /\ until \in Int
  BY <1>0, Constants DEF Timely, Typed, Request, Until
<1>3. /\ kept \in [Keys -> Int]
      /\ \A j \in Keys : kept[j] \in {deny[i][j], 0}
  BY <1>0, <1>2 DEF Typed
<1> HIDE DEF kept, i, k, until
<1>4. /\ req' \in [Requests -> Request] /\ req'[r] = Free
      /\ \A s \in Requests : s # r => req'[s] = req[s]
  BY <1>0, <1>1, FreeType, Replaced
<1>5. \A s \in Requests : Timely(s)'
  <2>1. Timely(r)'
    BY <1>4, FreeType DEF Timely
  <2> QED
    BY <1>1, <1>4, <2>1, TimelyStays DEF Inv
<1>6. /\ deny' \in [Instances -> [Keys -> Int]]
      /\ \A j \in Instances, l \in Keys :
            \/ deny'[j][l] \in {deny[j][l], 0}
            \/ l = k /\ deny'[j][l] = until
  BY <1>0, <1>1, <1>2, <1>3 DEF Typed
<1>7. Typed'
  BY <1>0, <1>1, <1>4, <1>6 DEF Typed
<1>8. \A s \in Requests : \/ req'[s] = req[s]
                          \/ req'[s].pc = "denied" => Refusal(req[s].key, Until(s))'
  BY <1>4, FreeType
<1>9. \A j \in Instances, l \in Keys :
         deny'[j][l] \in {deny[j][l], 0} \/ Refusal(l, deny[j][l])'
  <2> SUFFICES ASSUME NEW j \in Instances, NEW l \in Keys, l = k, deny'[j][l] = until
               PROVE  Refusal(l, deny[j][l])'
    BY <1>6
  <2>1. Refusal(l, until)
    BY <1>0 DEF k, until
  <2> QED
    BY <1>1, <2>1 DEF Refusal
<1> QED
  BY <1>1, <1>5, <1>7, <1>8, <1>9, RowsStay, Assembled

LEMMA RecycleStep ==
    ASSUME Inv, NEW i \in Instances, Recycle(i)
    PROVE  Inv'
<1>0. Typed
  BY DEF Inv
<1>1. /\ deny' = [deny EXCEPT ![i] = [k \in Keys |-> 0]]
      /\ req' = [r \in Requests |-> IF req[r].inst = i THEN Free ELSE req[r]]
      /\ now' = now /\ row' = row /\ plain' = plain
  BY DEF Recycle
<1>4. /\ req' \in [Requests -> Request]
      /\ \A s \in Requests : req'[s] = Free \/ req'[s] = req[s]
  BY <1>0, <1>1, FreeType DEF Typed
<1>5. \A s \in Requests : Timely(s)'
  <2> SUFFICES ASSUME NEW s \in Requests
               PROVE  Timely(s)'
    OBVIOUS
  <2>1. CASE req'[s] = Free
    BY <2>1, FreeType DEF Timely
  <2>2. CASE req'[s] = req[s]
    BY <1>1, <2>2, TimelyStays DEF Inv
  <2> QED
    BY <1>4, <2>1, <2>2
<1>6. /\ deny' \in [Instances -> [Keys -> Int]]
      /\ \A j \in Instances, l \in Keys : deny'[j][l] \in {deny[j][l], 0}
  BY <1>0, <1>1 DEF Typed
<1>7. Typed'
  BY <1>0, <1>1, <1>4, <1>6 DEF Typed
<1>8. \A s \in Requests : \/ req'[s] = req[s]
                          \/ req'[s].pc = "denied" => Refusal(req[s].key, Until(s))'
  BY <1>4, FreeType
<1> QED
  BY <1>1, <1>5, <1>6, <1>7, <1>8, RowsStay, Assembled

LEMMA TickStep ==
    ASSUME Inv, Tick
    PROVE  Inv'
<1>0. Typed
  BY DEF Inv
<1>1. /\ now' = now + 1 /\ row' = row /\ plain' = plain /\ deny' = deny /\ req' = req
      /\ \A r \in Requests : req[r].pc = "locking" => now < req[r].began + MaxLockWait
  BY DEF Tick
<1>2. Typed' /\ now' \in Int /\ now <= now'
  BY <1>0, <1>1 DEF Typed
<1>3. ASSUME NEW k \in Keys PROVE Bucket(k)'
  BY <1>0, <1>1, <1>2, BucketStays DEF Inv
<1>4. ASSUME NEW k \in Keys, NEW until \in Int, Refusal(k, until) PROVE Refusal(k, until)'
  BY <1>0, <1>1, <1>2, <1>4, RefusalStays
<1>5. ASSUME NEW r \in Requests PROVE Timely(r)'
  <2>1. req[r] \in Request /\ now \in Int /\ Timely(r)
    BY <1>0 DEF Inv, Typed
  <2>2. req[r].at \in Int /\ req[r].began \in Int
    BY <2>1 DEF Request
  <2> QED
    BY <1>1, <2>1, <2>2, Constants DEF Timely
<1> QED
  BY <1>1, <1>2, <1>3, <1>4, <1>5, Assembled

\* The row after a statement of request r, whatever it decides.
LEMMA SpendType ==
    ASSUME Typed, NEW k \in Keys, NEW began \in Int,
           row' = [row EXCEPT ![k] = [present |-> TRUE, tokens |-> Spent(row[k], began),
                                      at |-> began]]
    PROVE  /\ row' \in [Keys -> Rows]
           /\ row'[k] = [present |-> TRUE, tokens |-> Spent(row[k], began), at |-> began]
           /\ \A l \in Keys : l # k => row'[l] = row[l]
<1>1. row[k] \in Rows
  BY DEF Typed
<1>2. Spent(row[k], began) \in Int
  BY <1>1, SpentIs
<1>3. [present |-> TRUE, tokens |-> Spent(row[k], began), at |-> began] \in Rows
  BY <1>2 DEF Rows
<1> QED
  BY <1>3 DEF Typed

\* Refusals of any client across a statement on client k's row.
LEMMA RefusalsSpent ==
    ASSUME Typed, NEW k \in Keys, NEW began \in Int, now' = now,
           began <= now, now <= began + MaxLockWait,
           row' = [row EXCEPT ![k] = [present |-> TRUE, tokens |-> Spent(row[k], began),
                                      at |-> began]]
    PROVE  \A l \in Keys, until \in Int : Refusal(l, until) => Refusal(l, until)'
<1> SUFFICES ASSUME NEW l \in Keys, NEW until \in Int, Refusal(l, until)
             PROVE  Refusal(l, until)'
  OBVIOUS
<1>1. CASE l = k
  BY <1>1, SpendType, RefusalSpent
<1>2. CASE l # k
  BY <1>2, SpendType, RefusalStays DEF Typed
<1> QED
  BY <1>1, <1>2

LEMMA ServeStep ==
    ASSUME Inv, NEW r \in Requests, Serve(r)
    PROVE  Inv'
<1>0. Typed /\ Timely(r) /\ req[r].pc = "locking"
  BY DEF Inv, Serve
<1> DEFINE k     == req[r].key
           began == req[r].began
<1>1. /\ Spent(row[k], began) >= 0
      /\ row' = [row EXCEPT ![k] = [present |-> TRUE, tokens |-> Spent(row[k], began),
                                    at |-> began]]
      /\ plain' = [plain EXCEPT ![k] = [tokens |-> Refilled(plain[k], now) - TokenTicks,
                                        at |-> now]]
      /\ now' = now /\ deny' = deny
  BY DEF Serve
<1>2. PICK rec : /\ rec \in {Free, [req[r] EXCEPT !.pc = "sweeping"]}
                 /\ req' = [req EXCEPT ![r] = rec]
  BY DEF Serve
<1>3. /\ k \in Keys /\ began \in Int /\ began <= now /\ now <= began + MaxLockWait
      /\ req[r] \in Request
  BY <1>0 DEF Timely, Typed, Request
<1>4. /\ rec \in Request /\ rec.pc \in {"free", "sweeping"}
      /\ rec.pc # "free" => rec.key \in Keys /\ rec.inst \in Instances
  <2>1. CASE rec = Free
    BY <2>1, FreeType
  <2>2. CASE rec = [req[r] EXCEPT !.pc = "sweeping"]
    BY <1>0, <1>3, <2>2 DEF Request, Timely
  <2> QED
    BY <1>2, <2>1, <2>2
<1> HIDE DEF k, began
<1>5. /\ req' \in [Requests -> Request] /\ req'[r] = rec
      /\ \A s \in Requests : s # r => req'[s] = req[s]
  BY <1>0, <1>2, <1>4, Replaced
<1>6. \A s \in Requests : Timely(s)'
  <2>1. Timely(r)'
    BY <1>4, <1>5 DEF Timely
  <2> QED
    BY <1>1, <1>5, <2>1, TimelyStays DEF Inv
<1>7. /\ row' \in [Keys -> Rows]
      /\ row'[k] = [present |-> TRUE, tokens |-> Spent(row[k], began), at |-> began]
      /\ \A l \in Keys : l # k => row'[l] = row[l]
  BY <1>0, <1>1, <1>3, SpendType
<1>8. /\ plain' \in [Keys -> [tokens : Int, at : Int]]
      /\ plain'[k] = [tokens |-> Refilled(plain[k], now) - TokenTicks, at |-> now]
      /\ \A l \in Keys : l # k => plain'[l] = plain[l]
  <2>1. plain[k].tokens \in Int /\ plain[k].at \in Int /\ now \in Int
    BY <1>0, <1>3 DEF Typed
  <2>2. Refilled(plain[k], now) \in Int
    BY <2>1, Constants, MinOfTwo DEF Refilled
  <2>3. [tokens |-> Refilled(plain[k], now) - TokenTicks, at |-> now] \in [tokens : Int, at : Int]
    BY <2>1, <2>2, Constants
  <2> QED
    BY <1>0, <1>1, <1>3, <2>3 DEF Typed
<1>9. \A l \in Keys : Bucket(l)'
  <2> SUFFICES ASSUME NEW l \in Keys
               PROVE  Bucket(l)'
    OBVIOUS
  <2>1. CASE l = k
    BY <1>0, <1>1, <1>3, <1>7, <1>8, <2>1, BucketServes DEF Inv
  <2>2. CASE l # k
    BY <1>0, <1>1, <1>7, <1>8, <2>2, BucketStays DEF Inv, Typed
  <2> QED
    BY <2>1, <2>2
<1>10. \A l \in Keys, until \in Int : Refusal(l, until) => Refusal(l, until)'
  BY <1>0, <1>1, <1>3, RefusalsSpent
<1>11. Typed'
  BY <1>0, <1>1, <1>5, <1>7, <1>8 DEF Typed
<1>12. \A s \in Requests : \/ req'[s] = req[s]
                           \/ req'[s].pc = "denied" => Refusal(req[s].key, Until(s))'
  BY <1>4, <1>5
<1> QED
  BY <1>1, <1>6, <1>9, <1>10, <1>11, <1>12, Assembled

LEMMA DenyStep ==
    ASSUME Inv, LockIsBrief, NEW r \in Requests, Deny(r)
    PROVE  Inv'
<1>0. Typed /\ Timely(r) /\ req[r].pc = "locking"
  BY DEF Inv, Deny
<1> DEFINE k     == req[r].key
           began == req[r].began
           spent == Spent(row[k], began)
           rec   == [req[r] EXCEPT !.pc = "denied", !.wait = RetryAfter(spent)]
<1>1. /\ spent < 0
      /\ row' = [row EXCEPT ![k] = [present |-> TRUE, tokens |-> spent, at |-> began]]
      /\ req' = [req EXCEPT ![r] = rec]
      /\ now' = now /\ deny' = deny /\ plain' = plain
  BY DEF Deny
<1>2. /\ req[r] \in Request /\ k \in Keys /\ req[r].inst \in Instances
      /\ began \in Int /\ began <= now /\ now <= began + MaxLockWait
      /\ req[r].at \in Int /\ req[r].at <= began
  BY <1>0 DEF Timely, Typed, Request
<1>3. row[k] \in Rows
  BY <1>0, <1>2 DEF Typed
<1>4. spent \in Int /\ -TokenTicks <= spent
  BY <1>2, <1>3, SpentIs
<1>5. RetryAfter(spent) \in Int
  BY <1>1, <1>4, RetryAfterRounds, Constants
<1>6. /\ rec \in Request /\ rec.pc = "denied" /\ rec.key = k /\ rec.inst = req[r].inst
      /\ rec.at = req[r].at /\ rec.wait = RetryAfter(spent)
  BY <1>2, <1>5 DEF Request
<1>7. /\ row' \in [Keys -> Rows]
      /\ row'[k] = [present |-> TRUE, tokens |-> spent, at |-> began]
      /\ \A l \in Keys : l # k => row'[l] = row[l]
  BY <1>0, <1>1, <1>2, SpendType
<1>8. \A l \in Keys, until \in Int : Refusal(l, until) => Refusal(l, until)'
  BY <1>0, <1>1, <1>2, RefusalsSpent
<1>9. \A l \in Keys : Bucket(l)'
  <2> SUFFICES ASSUME NEW l \in Keys
               PROVE  Bucket(l)'
    OBVIOUS
  <2>1. CASE l = k
    BY <1>0, <1>1, <1>2, <1>7, <2>1, BucketDenies DEF Inv
  <2>2. CASE l # k
    BY <1>0, <1>1, <1>7, <2>2, BucketStays DEF Inv, Typed
  <2> QED
    BY <2>1, <2>2
<1> HIDE DEF rec, spent, began, k
<1>10. /\ req' \in [Requests -> Request] /\ req'[r] = rec
       /\ \A s \in Requests : s # r => req'[s] = req[s]
  BY <1>0, <1>1, <1>6, Replaced
<1>11. \A s \in Requests : Timely(s)'
  <2>1. Timely(r)'
    BY <1>2, <1>6, <1>10 DEF Timely
  <2> QED
    BY <1>1, <1>10, <2>1, TimelyStays DEF Inv
<1>12. Typed'
  BY <1>0, <1>1, <1>7, <1>10 DEF Typed
<1>13. Refusal(req[r].key, Until(r))'
  <2>1. PICK c \in Keys, at \in Int, b \in Int, tokens \in Int :
           c = k /\ at = req[r].at /\ b = began /\ tokens = spent
    BY <1>2, <1>4 DEF k, began
  <2>2. Refusal(c, at + RetryAfter(tokens) * Second)'
    BY <1>0, <1>1, <1>2, <1>4, <1>7, <2>1, RefusalGiven DEF k, began
  <2>3. Until(r)' = at + RetryAfter(tokens) * Second /\ req'[r].key = c
    BY <1>6, <1>10, <2>1 DEF Until
  <2> QED
    BY <2>2, <2>3 DEF Refusal
<1>14. \A s \in Requests : \/ req'[s] = req[s]
                           \/ req'[s].pc = "denied" => Refusal(req[s].key, Until(s))'
  BY <1>10, <1>13
<1> QED
  BY <1>1, <1>8, <1>9, <1>11, <1>12, <1>14, Assembled

LEMMA PruneStep ==
    ASSUME Inv, RowsAreKept, NEW r \in Requests, Prune(r)
    PROVE  Inv'
<1>0. Typed
  BY DEF Inv
<1>1. /\ row' = [k \in Keys |-> IF row[k].present /\ row[k].at < now - IdleTicks
                                THEN NoRow ELSE row[k]]
      /\ req' = [req EXCEPT ![r] = Free]
      /\ now' = now /\ deny' = deny /\ plain' = plain
  BY DEF Prune
<1>2. row' \in [Keys -> Rows]
  <2>1. NoRow \in Rows
    BY DEF NoRow, Rows
  <2> QED
    BY <1>0, <1>1, <2>1 DEF Typed
<1>3. ASSUME NEW k \in Keys PROVE Bucket(k)'
  BY <1>0, <1>1, BucketPruned DEF Inv
<1>4. ASSUME NEW k \in Keys, NEW until \in Int, Refusal(k, until) PROVE Refusal(k, until)'
  BY <1>0, <1>1, <1>4, RefusalPruned
<1>5. /\ req' \in [Requests -> Request] /\ req'[r] = Free
      /\ \A s \in Requests : s # r => req'[s] = req[s]
  BY <1>0, <1>1, FreeType, Replaced
<1>6. \A s \in Requests : Timely(s)'
  <2>1. Timely(r)'
    BY <1>5, FreeType DEF Timely
  <2> QED
    BY <1>1, <1>5, <2>1, TimelyStays DEF Inv
<1>7. Typed'
  BY <1>0, <1>1, <1>2, <1>5 DEF Typed
<1>8. \A s \in Requests : \/ req'[s] = req[s]
                          \/ req'[s].pc = "denied" => Refusal(req[s].key, Until(s))'
  BY <1>5, FreeType
<1> QED
  BY <1>1, <1>3, <1>4, <1>6, <1>7, <1>8, Assembled

LEMMA Initially == Init => Inv
<1> SUFFICES ASSUME Init
             PROVE  Inv
  OBVIOUS
<1>1. /\ \A k \in Keys : row[k] = NoRow /\ plain[k] = [tokens |-> Full, at |-> 0]
      /\ \A i \in Instances, k \in Keys : deny[i][k] = 0
      /\ \A r \in Requests : req[r] = Free
      /\ now = 0
  BY DEF Init
<1>2. Typed
  <2>1. NoRow \in Rows
    BY DEF NoRow, Rows
  <2>2. [tokens |-> Full, at |-> 0] \in [tokens : Int, at : Int]
    BY Constants
  <2> QED
    BY <2>1, <2>2, FreeType DEF Init, Typed
<1>3. \A r \in Requests : Timely(r)
  BY <1>1, FreeType DEF Timely
<1>4. \A k \in Keys : Bucket(k)
  BY <1>1, Constants DEF Bucket, NoRow, Credit
<1>5. Remembered /\ Pending
  BY <1>1, FreeType DEF Remembered, Pending, Refusal
<1> QED
  BY <1>2, <1>3, <1>4, <1>5 DEF Inv

LEMMA Step == Environment /\ Inv /\ [Next]_vars => Inv'
<1> SUFFICES ASSUME Environment, Inv, [Next]_vars
             PROVE  Inv'
  OBVIOUS
<1>1. LockIsBrief /\ RowsAreKept
  BY DEF Environment
<1>2. CASE \E r \in Requests : Arrive(r) \/ Begin(r) \/ Serve(r) \/ Deny(r) \/ FailOpen(r)
                               \/ Refuse(r) \/ Prune(r)
  BY <1>1, <1>2, ArriveStep, BeginStep, ServeStep, DenyStep, FailOpenStep, RefuseStep, PruneStep
<1>3. CASE \E i \in Instances : Recycle(i)
  BY <1>3, RecycleStep
<1>4. CASE Tick
  BY <1>4, TickStep
<1>5. CASE UNCHANGED vars
  BY <1>5 DEF vars, Inv, Typed, Timely, Bucket, Credit, Remembered, Pending, Refusal,
              ClearAt, Until
<1> QED
  BY <1>2, <1>3, <1>4, <1>5 DEF Next

\* The three facts about Inv, put together.
LEMMA Invariant ==
    ASSUME Environment
    PROVE  Spec => []Inv
<1>1. Inv /\ [Next]_vars => Inv'
  BY Step
<1> QED
  BY <1>1, Initially, PTL DEF Spec

\* Whatever the policy, the clients and the instances: no client is served more than a
\* plain token bucket would serve it, give or take one wait for the lock, provided that
\* no statement waits longer than a token takes to refill and rows are kept long enough.
THEOREM ClientsNeverOverServed ==
    ASSUME Environment
    PROVE  Spec => []NeverOverServed
<1>1. Inv => NeverOverServed
  BY DEF Inv, Bucket, NeverOverServed
<1> QED
  BY <1>1, Invariant, PTL

\* And no instance's memo refuses a client for longer than Postgres would have, but for
\* Retry-After's rounding and one wait for the lock.
THEOREM MemosNeverOutlast ==
    ASSUME Environment
    PROVE  Spec => []MemoNeverOutlastsBucket
<1>1. Inv => MemoNeverOutlastsBucket
  <2> SUFFICES ASSUME Inv, NEW i \in Instances, NEW k \in Keys, deny[i][k] > now
               PROVE  row[k].present /\ deny[i][k] < ClearAt(row[k]) + Second + MaxLockWait
    BY DEF MemoNeverOutlastsBucket
  <2>1. Refusal(k, deny[i][k]) /\ deny[i][k] \in Int /\ now \in Int
    BY DEF Inv, Remembered, Typed
  <2> QED
    BY <2>1 DEF Refusal
<1> QED
  BY <1>1, Invariant, PTL
================================================================================
