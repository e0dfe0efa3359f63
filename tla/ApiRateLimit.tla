------------------------------ MODULE ApiRateLimit -----------------------------
(***************************************************************************)
(* The public API's per-client limiter: a token bucket kept as a row of    *)
(* api_rate_limits (db/src/rate-limit.ts), and enforceRateLimit with its   *)
(* per-instance memo of refused clients (dashboard/app/api/_shared.ts and  *)
(* _rate-limit.ts).  Requests of a client reach any instance and run side  *)
(* by side.  Three clock readings are involved: Date.now(), before the     *)
(* query; the statement's now(), when it starts; and the moment it gets    *)
(* the row lock and runs.                                                  *)
(*                                                                         *)
(* Time is in ticks, and a bucket holds ticks: it refills by one a tick    *)
(* and a request costs TokenTicks, so all arithmetic is on integers.       *)
(***************************************************************************)
EXTENDS Integers, FiniteSets, FiniteSetsExt

CONSTANTS
    Keys,           \* bucket keys, one for each client
    Instances,      \* warm server processes
    Requests,       \* requests that may be in a handler at once
    Burst,          \* policy.burst
    TokenTicks,     \* ticks for one token to refill
    Second,         \* ticks in a second: the unit of Retry-After
    IdleTicks,      \* how long a row must be untouched to be pruned
    MaxEntries,     \* createDenyCache's cap
    MaxLockWait,    \* environment: longest wait of the upsert for the row's lock
    MaxTime         \* bound on the clock

ASSUME ApiRateLimitAssumption ==
    /\ {Burst, TokenTicks, Second, IdleTicks, MaxEntries} \subseteq Nat \ {0}
    /\ {MaxLockWait, MaxTime} \subseteq Nat

VARIABLES
    now,        \* the clock, Postgres's and the instances'
    row,        \* api_rate_limits
    deny,       \* each instance's deny cache: blockedUntil, 0 for no entry
    req,        \* requests in the handler
    plain       \* history: a bucket with no debt and no pruning, spent by what was served

vars == <<now, row, deny, req, plain>>

NoRow  == [present |-> FALSE, tokens |-> 0, at |-> 0]
Free   == [pc |-> "free", key |-> "none", inst |-> "none",
           at |-> 0, began |-> 0, wait |-> 0]
Full   == Burst * TokenTicks

Init ==
    /\ now = 0
    /\ row = [k \in Keys |-> NoRow]
    /\ deny = [i \in Instances |-> [k \in Keys |-> 0]]
    /\ req = [r \in Requests |-> Free]
    /\ plain = [k \in Keys |-> [tokens |-> Full, at |-> 0]]

--------------------------------------------------------------------------------
(* The bucket's arithmetic.                                                *)

CeilDiv(a, b) == (a + b - 1) \div b

\* A balance brought up to a moment, which may lie before the row's own.
Refilled(bucket, at) == Min({Full, bucket.tokens + (at - bucket.at)})

\* TAKE_SQL: what the row holds after the spend.
Spent(bucket, at) ==
    IF bucket.present
    THEN Max({Refilled(bucket, at) - TokenTicks, -TokenTicks})
    ELSE Full - TokenTicks

\* decisionFromTokens: whole seconds until a token can be spent again.
RetryAfter(tokens) == Max({1, CeilDiv(TokenTicks - tokens, Second)})

\* When the next request would be served, if none came before it.
ClearAt(bucket) == bucket.at + (TokenTicks - bucket.tokens)

\* The deny cache's entries of an instance.
Entries(i) == {k \in Keys : deny[i][k] # 0}

--------------------------------------------------------------------------------
(* enforceRateLimit.                                                       *)

\* The memo knows no refusal in force (an expired one is forgotten): ask Postgres.
Arrive(r) ==
    /\ req[r].pc = "free"
    /\ \E i \in Instances, k \in Keys :
         /\ deny[i][k] <= now
         /\ deny' = [deny EXCEPT ![i][k] = 0]
         /\ req' = [req EXCEPT ![r] = [pc |-> "asking", key |-> k, inst |-> i,
                                       at |-> now, began |-> 0, wait |-> 0]]
    /\ UNCHANGED <<now, row, plain>>

\* The statement starts, and with it Postgres's now().
Begin(r) ==
    /\ req[r].pc = "asking"
    /\ req' = [req EXCEPT ![r].pc = "locking", ![r].began = now]
    /\ UNCHANGED <<now, row, deny, plain>>

\* The upsert runs and the balance covers the request: it is served.
Serve(r) ==
    /\ req[r].pc = "locking"
    /\ LET k == req[r].key
           tokens == Spent(row[k], req[r].began)
       IN  /\ tokens >= 0
           /\ row' = [row EXCEPT ![k] = [present |-> TRUE, tokens |-> tokens,
                                       at |-> req[r].began]]
           /\ plain' = [plain EXCEPT ![k] = [tokens |-> Refilled(@, now) - TokenTicks,
                                           at |-> now]]
    /\ \E next \in {"free", "sweeping"} :
         req' = [req EXCEPT ![r] = IF next = "free" THEN Free ELSE [@ EXCEPT !.pc = "sweeping"]]
    /\ UNCHANGED <<now, deny>>

\* The upsert runs and it does not: the request has spent all the same.
Deny(r) ==
    /\ req[r].pc = "locking"
    /\ LET k == req[r].key
           tokens == Spent(row[k], req[r].began)
       IN  /\ tokens < 0
           /\ row' = [row EXCEPT ![k] = [present |-> TRUE, tokens |-> tokens,
                                       at |-> req[r].began]]
           /\ req' = [req EXCEPT ![r].pc = "denied", ![r].wait = RetryAfter(tokens)]
    /\ UNCHANGED <<now, deny, plain>>

\* The query fails, or its answer is lost: the request is allowed.
FailOpen(r) ==
    /\ req[r].pc \in {"asking", "locking", "denied"}
    /\ req' = [req EXCEPT ![r] = Free]
    /\ UNCHANGED <<now, row, deny, plain>>

\* Mutant of Refuse: the wait counts from when the answer arrived.
RefuseFromAnswer(r) ==
    /\ req[r].pc = "denied"
    /\ LET i == req[r].inst
           k == req[r].key
           kept == IF Cardinality(Entries(i)) >= MaxEntries /\ k \notin Entries(i)
                   THEN [j \in Keys |-> 0]
                   ELSE deny[i]
       IN  deny' = [deny EXCEPT ![i] = [kept EXCEPT ![k] = now + req[r].wait * Second]]
    /\ req' = [req EXCEPT ![r] = Free]
    /\ UNCHANGED <<now, row, plain>>

\* The answer is back: remember the refusal, dropping the whole memo when it is full.
Refuse(r) ==
    /\ req[r].pc = "denied"
    /\ LET i == req[r].inst
           k == req[r].key
           kept == IF Cardinality(Entries(i)) >= MaxEntries /\ k \notin Entries(i)
                   THEN [j \in Keys |-> 0]
                   ELSE deny[i]
       IN  deny' = [deny EXCEPT ![i] = [kept EXCEPT ![k] = req[r].at + req[r].wait * Second]]
    /\ req' = [req EXCEPT ![r] = Free]
    /\ UNCHANGED <<now, row, plain>>

\* Mutant of Prune: a row counts as idle one tick after its last use.
PruneEarly(r) ==
    /\ req[r].pc = "sweeping"
    /\ row' = [k \in Keys |-> IF row[k].present /\ row[k].at < now THEN NoRow ELSE row[k]]
    /\ req' = [req EXCEPT ![r] = Free]
    /\ UNCHANGED <<now, deny, plain>>

\* PRUNE_SQL, on a few of the requests served.
Prune(r) ==
    /\ req[r].pc = "sweeping"
    /\ row' = [k \in Keys |-> IF row[k].present /\ row[k].at < now - IdleTicks
                              THEN NoRow ELSE row[k]]
    /\ req' = [req EXCEPT ![r] = Free]
    /\ UNCHANGED <<now, deny, plain>>

\* An instance goes cold: its memo and its requests are gone.
Recycle(i) ==
    /\ deny' = [deny EXCEPT ![i] = [k \in Keys |-> 0]]
    /\ req' = [r \in Requests |-> IF req[r].inst = i THEN Free ELSE req[r]]
    /\ UNCHANGED <<now, row, plain>>

Tick ==
    /\ now < MaxTime
    /\ \A r \in Requests : req[r].pc = "locking" => now < req[r].began + MaxLockWait
    /\ now' = now + 1
    /\ UNCHANGED <<row, deny, req, plain>>

Next ==
    \/ \E r \in Requests :
         Arrive(r) \/ Begin(r) \/ Serve(r) \/ Deny(r) \/ FailOpen(r) \/ Refuse(r) \/ Prune(r)
    \/ \E i \in Instances : Recycle(i)
    \/ Tick

Spec == Init /\ [][Next]_vars

--------------------------------------------------------------------------------
(* Properties.                                                             *)

\* Whatever instances serve a client and whenever its row is pruned, it never gets more
\* than a plain token bucket would give it, but for the refill of one wait for the lock:
\* the row counts from the statement's now(), and two statements can get the lock in the
\* other order, which takes updated_at back.
NeverOverServed == \A k \in Keys : plain[k].tokens >= -MaxLockWait

\* The memo refuses no one for longer than Retry-After's rounding: while an entry is in
\* force, Postgres too would have refused less than a second ago, or refuses still (give
\* or take one wait for the lock).
MemoNeverOutlastsBucket ==
    \A i \in Instances, k \in Keys : deny[i][k] > now =>
        row[k].present /\ deny[i][k] < ClearAt(row[k]) + Second + MaxLockWait
================================================================================
