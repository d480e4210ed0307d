----------------------------- MODULE RateLimit -----------------------------
(* The rate limiter of the HTTP surface (middleware/rate_limit.rs): a bucket *)
(* of requests per client address and route category, refilled when its      *)
(* window is over.  A request reads the clock, then waits for the entry of   *)
(* its bucket, so it may count with a time before the one the bucket has.    *)
(* Time is counted in ticks, PerSecond of them to the second, because the    *)
(* answer to a refused request is in whole seconds.                          *)
EXTENDS Integers

CONSTANTS Workers,       \* server tasks that handle requests
          Arrivals,      \* the requests that may come: headers, peer, category
          Categories,    \* of routes
          MaxRequests,   \* [Categories -> budget of a window]
          Window,        \* [Categories -> its length in ticks]
          PerSecond,     \* ticks in a second
          Skew,          \* longest time from reading the clock to the bucket
          Localhost,     \* the address of a request that shows none
          NoAddress,
          LastTick       \* bound of the clock

Addresses == {a.forwarded : a \in Arrivals} \cup {a.realIp : a \in Arrivals}
             \cup {a.peer : a \in Arrivals} \cup {Localhost}
Keys == (Addresses \ {NoAddress}) \X Categories

ASSUME LimitsAssumption ==
    /\ PerSecond \in Nat \ {0}
    /\ Skew \in Nat
    /\ MaxRequests \in [Categories -> Nat]
    /\ Window \in [Categories -> Nat \ {0}]
    /\ LastTick \in Nat

ASSUME ArrivalsAssumption ==
    /\ \A a \in Arrivals : a.category \in Categories
    /\ Localhost # NoAddress

(* A request waits for its bucket no longer than a window, and than a second *)
(* where windows are whole seconds, as in the default configuration.         *)
ASSUME SkewAssumption ==
    \A c \in Categories :
        /\ Skew <= Window[c]
        /\ Skew + (Window[c] % PerSecond) <= PerSecond

VARIABLES limiting,  \* the configuration's switch, fixed at start
          now,       \* the clock
          buckets,   \* [Keys -> Bucket or NoBucket]
          work,      \* [Workers -> request under way]
          \* history
          opened,    \* [Keys -> how many windows were opened, and when the last]
          granted,   \* [Keys -> requests let through in the current window]
          promised   \* [Keys -> the earliest time a client this window refused
                     \*   was told to come back at, or NoPromise]

impl == <<limiting, now, buckets, work>>
limiterVars == <<limiting, now, buckets, work, opened, granted, promised>>

NoBucket == [tokens |-> 0, start |-> -1]
NoPromise == -1
Bucket == [tokens : Nat, start : Nat]
NoWork == [state |-> "idle"]
Counting == [state : {"checking"}, key : Keys, stamp : Nat]
Cleaning == [state : {"cleaning"}, stamp : Nat]

Limit(k) == MaxRequests[k[2]]
Length(k) == Window[k[2]]

-----------------------------------------------------------------------------
LimiterInit ==
    /\ limiting \in BOOLEAN
    /\ now = 0
    /\ buckets = [k \in Keys |-> NoBucket]
    /\ work = [w \in Workers |-> NoWork]
    /\ opened = [k \in Keys |-> [windows |-> 0, at |-> 0]]
    /\ granted = [k \in Keys |-> 0]
    /\ promised = [k \in Keys |-> NoPromise]

(* extract_client_ip: the first source that shows an address. *)
ClientIp(a) ==
    IF a.forwarded # NoAddress THEN a.forwarded
    ELSE IF a.realIp # NoAddress THEN a.realIp
    ELSE IF a.peer # NoAddress THEN a.peer
    ELSE Localhost

(* The clock moves on unless that would leave a request waiting too long. *)
ClockTick ==
    /\ now < LastTick
    /\ \A w \in Workers : work[w] # NoWork => now < work[w].stamp + Skew
    /\ now' = now + 1
    /\ UNCHANGED <<limiting, buckets, work, opened, granted, promised>>

(* A request arrives and reads the clock; without a limit it passes on. *)
Arrive(w) ==
    /\ limiting
    /\ work[w] = NoWork
    /\ \E a \in Arrivals :
          work' = [work EXCEPT ![w] = [state |-> "checking",
                                       key   |-> <<ClientIp(a), a.category>>,
                                       stamp |-> now]]
    /\ UNCHANGED <<limiting, now, buckets, opened, granted, promised>>

(* duration_since saturates: a bucket younger than the stamp has age zero. *)
Elapsed(start, stamp) == IF stamp > start THEN stamp - start ELSE 0

WindowOver(k, stamp) ==
    \/ buckets[k] = NoBucket
    \/ Elapsed(buckets[k].start, stamp) >= Length(k)

(* Faulty: the bucket is refilled without its window starting anew. *)
RefreshedBug(k, stamp) ==
    IF buckets[k] = NoBucket THEN [tokens |-> Limit(k), start |-> stamp]
    ELSE IF WindowOver(k, stamp) THEN [buckets[k] EXCEPT !.tokens = Limit(k)]
    ELSE buckets[k]

(* The bucket as check leaves it before it takes a token from it. *)
Refreshed(k, stamp) ==
    IF WindowOver(k, stamp) THEN [tokens |-> Limit(k), start |-> stamp]
                            ELSE buckets[k]

RetryAfter(k, elapsed) ==
    LET seconds == (Length(k) - elapsed) \div PerSecond
    IN  IF seconds >= 1 THEN seconds ELSE 1

Finish(w) == work' = [work EXCEPT ![w] = NoWork]

(* What the history records of a window that is opened or goes on. *)
Opened(k, stamp) ==
    IF WindowOver(k, stamp) THEN [windows |-> opened[k].windows + 1, at |-> now]
                            ELSE opened[k]
GrantedIn(k, stamp) == IF WindowOver(k, stamp) THEN 0 ELSE granted[k]
PromisedIn(k, stamp) == IF WindowOver(k, stamp) THEN NoPromise ELSE promised[k]

(* Faulty: the last token is left in the bucket; a refused request starts    *)
(* the window anew.                                                          *)
TakenBug(b) == IF b.tokens > 1 THEN [b EXCEPT !.tokens = @ - 1] ELSE b
KeptBug(b, stamp) == [b EXCEPT !.start = stamp]

(* The bucket after a request that took a token, and after a refused one. *)
Taken(b) == [b EXCEPT !.tokens = @ - 1]
Kept(b, stamp) == b

Allow(w) ==
    /\ work[w].state = "checking"
    /\ LET k == work[w].key
           stamp == work[w].stamp
           b == Refreshed(k, stamp)
       IN  /\ b.tokens > 0
           /\ buckets' = [buckets EXCEPT ![k] = Taken(b)]
           /\ opened' = [opened EXCEPT ![k] = Opened(k, stamp)]
           /\ granted' = [granted EXCEPT ![k] = GrantedIn(k, stamp) + 1]
           /\ promised' = [promised EXCEPT ![k] = PromisedIn(k, stamp)]
    /\ Finish(w)
    /\ UNCHANGED <<limiting, now>>

Earliest(p, due) == IF p = NoPromise \/ due < p THEN due ELSE p

(* 429 with the seconds to wait. *)
Refuse(w) ==
    /\ work[w].state = "checking"
    /\ LET k == work[w].key
           stamp == work[w].stamp
           b == Refreshed(k, stamp)
           retry == RetryAfter(k, Elapsed(b.start, stamp))
       IN  /\ b.tokens = 0
           /\ buckets' = [buckets EXCEPT ![k] = Kept(b, stamp)]
           /\ opened' = [opened EXCEPT ![k] = Opened(k, stamp)]
           /\ granted' = [granted EXCEPT ![k] = GrantedIn(k, stamp)]
           /\ promised' = [promised EXCEPT ![k] =
                  Earliest(PromisedIn(k, stamp), stamp + retry * PerSecond)]
    /\ Finish(w)
    /\ UNCHANGED <<limiting, now>>

(* cleanup reads the clock once, then walks over the shards of the map. *)
StartCleanup(w) ==
    /\ work[w] = NoWork
    /\ work' = [work EXCEPT ![w] = [state |-> "cleaning", stamp |-> now]]
    /\ UNCHANGED <<limiting, now, buckets, opened, granted, promised>>

Stale(k, stamp) ==
    /\ buckets[k] # NoBucket
    /\ Elapsed(buckets[k].start, stamp) >= 2 * Length(k)

Remove(w, k) ==
    /\ work[w].state = "cleaning"
    /\ Stale(k, work[w].stamp)
    /\ buckets' = [buckets EXCEPT ![k] = NoBucket]
    /\ UNCHANGED <<limiting, now, work, opened, granted, promised>>

EndCleanup(w) ==
    /\ work[w].state = "cleaning"
    /\ Finish(w)
    /\ UNCHANGED <<limiting, now, buckets, opened, granted, promised>>

LimiterNext ==
    \/ ClockTick
    \/ \E w \in Workers : \/ Arrive(w)
                          \/ Allow(w)
                          \/ Refuse(w)
                          \/ StartCleanup(w)
                          \/ EndCleanup(w)
                          \/ \E k \in Keys : Remove(w, k)

LimiterSpec == LimiterInit /\ [][LimiterNext]_limiterVars

-----------------------------------------------------------------------------
LimiterTypeOK ==
    /\ limiting \in BOOLEAN
    /\ now \in 0 .. LastTick
    /\ buckets \in [Keys -> Bucket \cup {NoBucket}]
    /\ work \in [Workers -> {NoWork} \cup Counting \cup Cleaning]
    /\ opened \in [Keys -> [windows : Nat, at : Nat]]
    /\ granted \in [Keys -> Nat]
    /\ promised \in [Keys -> Nat \cup {NoPromise}]

(* A window hands out its budget and not one request more, whatever the      *)
(* order in which requests with older and newer times reach the bucket.      *)
WindowBudget == \A k \in Keys : granted[k] <= Limit(k)

(* Nobody is put off for ever: Retry-After is truncated to seconds, so a     *)
(* client may have to come once more, but a second later than it was told    *)
(* the window that refused it is over.                                       *)
RetryWithinASecond ==
    \A k \in Keys :
        buckets[k] # NoBucket /\ promised[k] # NoPromise
            => buckets[k].start + Length(k) <= promised[k] + PerSecond

(* Two windows of one client are opened at least a window's length, less the *)
(* time a request may wait, apart, although late requests open windows in    *)
(* the past and the clean-up forgets buckets.  With WindowBudget: in any     *)
(* such stretch of time two budgets may pass, never three - and not one, the *)
(* windows do not slide.                                                     *)
WindowsApart ==
    [][\A k \in Keys :
          opened'[k] # opened[k] /\ opened[k].windows > 0
              => opened'[k].at >= opened[k].at + Length(k) - Skew]_limiterVars


(* What makes WindowBudget and RetryWithinASecond inductive: a bucket and the     *)
(* history of its window add up to the budget, a request is no older than    *)
(* Skew, a window starts at most Skew before it is opened, and a bucket is   *)
(* forgotten only when its window is long over.                              *)
Conserved ==
    \A k \in Keys :
        /\ granted[k] <= Limit(k)
        /\ buckets[k] # NoBucket => buckets[k].tokens + granted[k] = Limit(k)

StampsAreFresh ==
    \A w \in Workers :
        work[w] # NoWork => work[w].stamp <= now /\ now <= work[w].stamp + Skew

WindowsAreDated ==
    \A k \in Keys :
        /\ opened[k].at <= now
        /\ buckets[k] # NoBucket =>
              /\ buckets[k].start <= opened[k].at
              /\ opened[k].at <= buckets[k].start + Skew
        /\ buckets[k] = NoBucket /\ opened[k].windows > 0 =>
              now >= opened[k].at + Length(k) - Skew

LimiterInv ==
    /\ LimiterTypeOK
    /\ Conserved
    /\ StampsAreFresh
    /\ WindowsAreDated
    /\ RetryWithinASecond
=============================================================================
