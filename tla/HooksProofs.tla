---------------------------- MODULE HooksProofs ----------------------------
(***************************************************************************)
(* Hooks for any number of requests, files, webhooks and administrators,   *)
(* any registry and any number of attempts.  IInv is inductive; its parts  *)
(* are about the engine, the requests and the deliveries.                  *)
(***************************************************************************)
EXTENDS Hooks, FunctionTheorems, FiniteSetTheorems, TLAPS

----------------------------------------------------------------------------
(* The inductive invariant                                                 *)

RequestState == [pc : {"before", "after", "refused", "failed", "done", "lost"},
                 at : 1 .. Len(Chain) + 1, operation : Operations,
                 collection : Collections, objected : BOOLEAN]
AdminCall == [pc : {"updating"}, webhook : Webhooks, merged : Webhook]
Entry == [attempt : 1 .. MaxAttempts, ok : BOOLEAN]

Types ==
    /\ files \in [1 .. Files -> Sources \cup {Absent, Broken}]
    /\ changed \in BOOLEAN
    /\ DOMAIN loaded \subseteq 1 .. Files
    /\ loaded \in [DOMAIN loaded -> Sources]
    /\ loader \in [next : 1 .. Files + 1, listed : SUBSET (1 .. Files)] \cup {NotLoading}
    /\ requests \in [Requests -> RequestState \cup {Idle}]
    /\ webhooks \in [Webhooks -> Webhook \cup {Gone}]
    /\ admins \in [Admins -> AdminCall \cup {Idle}]
    /\ deliveries \in [Requests -> [Webhooks -> Delivery]]
    /\ born \subseteq Webhooks
    /\ arrived \in [Requests -> [Webhooks -> Nat]]
    /\ log \in [Requests -> [Webhooks -> Seq(Entry)]]

\* The files from the first to the n-th that are there.
Listed(n) == {i \in 1 .. n : files[i] # Absent}

\* As long as nothing has changed since it began, a reload holds the files it
\* has got to, all of them without fault, and will find the others as listed.
EngineInv ==
    ~ changed =>
        IF loader = NotLoading THEN loaded = Scripts(files)
        ELSE /\ loader.listed = Listed(Files)
             /\ \A i \in 1 .. loader.next - 1 : files[i] # Broken
             /\ loaded = [i \in Listed(loader.next - 1) |-> files[i]]

\* The change was announced to the webhooks, or may have been.
Announced(r) ==
    \/ requests[r].pc \in {"done", "lost"}
    \/ /\ requests[r].pc = "after"
       /\ \E p \in 1 .. requests[r].at - 1 : Chain[p] = "webhooks"

RequestsInv ==
    \A r \in Requests : ~ Announced(r) => \A w \in Webhooks : deliveries[r][w].state = "none"

\* Of a delivery d that the receiver got n times: attempts are counted, and the
\* log is behind the attempt under way.
Sound(d, n, entries) ==
    /\ IF d.state = "none" THEN d.attempt = 0 /\ entries = <<>> ELSE d.attempt >= 1
    /\ d.state = "waiting" => d.attempt < MaxAttempts
    /\ n <= d.attempt
    /\ d.state = "posting" => n < d.attempt
    /\ d.state = "logging" /\ d.ok => n >= 1
    /\ \A i \in 1 .. Len(entries) :
          /\ entries[i].attempt <= d.attempt
          /\ d.state \in {"posting", "logging"} => entries[i].attempt < d.attempt
          /\ entries[i].ok => n >= 1 /\ d.state \notin {"posting", "logging", "waiting"}
    /\ \A i, j \in 1 .. Len(entries) :
          i < j => entries[i].attempt < entries[j].attempt /\ ~ entries[i].ok

DeliveryInv(r, w) == Sound(deliveries[r][w], arrived[r][w], log[r][w])
DeliveriesInv == \A r \in Requests, w \in Webhooks : DeliveryInv(r, w)

IInv == Types /\ EngineInv /\ RequestsInv /\ DeliveriesInv

----------------------------------------------------------------------------
(* The chain of hooks                                                      *)

\* The registrations that come before i in the chain, and i itself.
UpTo(i) == {j \in DOMAIN Registered :
               \/ Registered[j].priority < Registered[i].priority
               \/ Registered[j].priority = Registered[i].priority /\ j <= i}

LEMMA RegisteredTyped ==
  /\ Len(Registered) \in Nat /\ DOMAIN Registered = 1 .. Len(Registered)
  /\ \A i \in DOMAIN Registered : /\ Registered[i].hook \in Hook
                                  /\ Registered[i].priority \in Int
  <1> DEFINE R == [hook : Hook, priority : Int]
  <1>1. Registered \in Seq(R)
    BY HooksAssumption
  <1>2. \A x \in R : x.hook \in Hook /\ x.priority \in Int
    OBVIOUS
  <1> HIDE DEF R
  <1> QED
    BY <1>1, <1>2

LEMMA Counting ==
  ASSUME NEW n \in Nat
  PROVE  IsFiniteSet(1 .. n) /\ Cardinality(1 .. n) = n
  <1>1. /\ IsFiniteSet(1 .. n)
        /\ Cardinality(1 .. n) = IF 1 > n THEN 0 ELSE n - 1 + 1
    BY FS_Interval
  <1> QED
    BY <1>1

\* No two registrations have the same place.
LEMMA PlacesApart ==
  ASSUME NEW i \in DOMAIN Registered, NEW j \in DOMAIN Registered, Place(i) = Place(j)
  PROVE  i = j
  <1>1. \A k \in DOMAIN Registered : IsFiniteSet(UpTo(k)) /\ Place(k) = Cardinality(UpTo(k))
    <2>1. IsFiniteSet(DOMAIN Registered)
      BY RegisteredTyped, Counting
    <2>2. \A k : UpTo(k) \in SUBSET DOMAIN Registered
      BY DEF UpTo
    <2>3. \A k : IsFiniteSet(UpTo(k))
      BY <2>1, <2>2, FS_Subset
    <2> QED
      BY <2>3 DEF Place, UpTo
  <1>2. ASSUME NEW k \in DOMAIN Registered, NEW m \in DOMAIN Registered, k # m, k \in UpTo(m),
               Place(k) = Place(m)
        PROVE  FALSE
    <2>1. UpTo(k) \in SUBSET UpTo(m) /\ m \notin UpTo(k) /\ m \in UpTo(m)
      BY <1>2, RegisteredTyped DEF UpTo
    <2>2. UpTo(m) = UpTo(k)
      BY <1>1, <1>2, <2>1, FS_Subset
    <2> QED
      BY <2>1, <2>2
  <1>3. i \in UpTo(j) \/ j \in UpTo(i)
    BY RegisteredTyped DEF UpTo
  <1> QED
    BY <1>2, <1>3

\* Every place has a registration.
LEMMA PlacesTaken ==
  ASSUME NEW p \in DOMAIN Registered
  PROVE  \E i \in DOMAIN Registered : Place(i) = p
  <1> DEFINE D == DOMAIN Registered
             place == [i \in D |-> Place(i)]
  <1>1. IsFiniteSet(D) /\ Cardinality(D) = Len(Registered)
    BY RegisteredTyped, Counting
  <1>2. \A i \in D : Place(i) \in D
    <2> SUFFICES ASSUME NEW i \in D PROVE Place(i) \in D
      OBVIOUS
    <2>1. UpTo(i) \in SUBSET D /\ i \in UpTo(i)
      BY RegisteredTyped DEF UpTo
    <2>2. IsFiniteSet(UpTo(i)) /\ Cardinality(UpTo(i)) <= Len(Registered)
      BY <1>1, <2>1, FS_Subset
    <2>3. Cardinality(UpTo(i)) \in Nat /\ Cardinality(UpTo(i)) # 0
      BY <2>1, <2>2, FS_CardinalityType, FS_EmptySet
    <2>4. Place(i) = Cardinality(UpTo(i))
      BY DEF Place, UpTo
    <2> QED
      BY <2>2, <2>3, <2>4, RegisteredTyped
  <1>3. place \in [D -> D]
    BY <1>2
  <1>4. place \in Injection(D, D)
    <2>1. \A i, j \in D : place[i] = place[j] => i = j
      BY PlacesApart
    <2> HIDE DEF place
    <2> QED
      BY <1>3, <2>1, Fun_IsInj
  <1>5. place \in Surjection(D, D)
    BY <1>1, <1>4, FS_Injection
  <1>6. \E i \in D : place[i] = p
    BY <1>5, Fun_SurjectionProperties
  <1> QED
    BY <1>6

\* The webhooks are in the chain once.
LEMMA WebhooksOnce ==
  ASSUME NEW p \in DOMAIN Chain, NEW q \in DOMAIN Chain,
         Chain[p] = "webhooks", Chain[q] = "webhooks"
  PROVE  p = q
  <1> DEFINE Of(n) == CHOOSE i \in DOMAIN Registered : Place(i) = n
  <1>1. \A n \in DOMAIN Registered : Of(n) \in DOMAIN Registered /\ Place(Of(n)) = n
    BY PlacesTaken
  <1>2. DOMAIN Chain = DOMAIN Registered /\ \A n \in DOMAIN Chain : Chain[n] = Registered[Of(n)].hook
    BY DEF Chain
  <1>3. Of(p) = Of(q)
    BY <1>1, <1>2, StartsAssumption
  <1> QED
    BY <1>1, <1>2, <1>3

\* The places of the chain.
LEMMA ChainTyped == Len(Chain) \in Nat /\ DOMAIN Chain = 1 .. Len(Chain)
  BY RegisteredTyped DEF Chain

----------------------------------------------------------------------------
(* Type correctness                                                        *)

\* A step of the engine or the watcher.
LEMMA EngineTypes ==
  ASSUME Types, Edit \/ Loading
  PROVE  Types'
  <1>0. Files \in Nat /\ Absent \notin Sources /\ Broken \notin Sources
    BY HooksAssumption
  <1>1. CASE Edit
    <2>1. files' \in [1 .. Files -> Sources \cup {Absent, Broken}]
      BY <1>1 DEF Edit, Types
    <2> QED
      BY <1>1, <2>1 DEF Edit, Types, config, tasks
  <1>2. CASE Reload
    <2>1. loader' \in [next : 1 .. Files + 1, listed : SUBSET (1 .. Files)]
      BY <1>0, <1>2 DEF Reload
    <2>2. DOMAIN loaded' = {} /\ loaded' \in [DOMAIN loaded' -> Sources]
      BY <1>2 DEF Reload
    <2>3. changed' \in BOOLEAN
      BY <1>2 DEF Reload, EventsAfter
    <2> QED
      BY <1>2, <2>1, <2>2, <2>3 DEF Reload, Types, config, tasks
  <1>3. CASE LoadFile
    <2>0. loader \in [next : 1 .. Files + 1, listed : SUBSET (1 .. Files)]
      BY <1>0, <1>3 DEF LoadFile, Types, NotLoading
    <2>1. loader' \in [next : 1 .. Files + 1, listed : SUBSET (1 .. Files)]
      BY <1>0, <1>3, <2>0 DEF LoadFile
    <2>2. CASE loaded' = [i \in DOMAIN loaded \cup {loader.next} |->
                            IF i = loader.next THEN files[i] ELSE loaded[i]]
               /\ Readable(loader.next)
      <3>1. files[loader.next] \in Sources
        BY <1>3, <2>2 DEF LoadFile, Readable, Types
      <3>2. DOMAIN loaded' = DOMAIN loaded \cup {loader.next}
        BY <2>2
      <3>3. loaded' \in [DOMAIN loaded' -> Sources] /\ DOMAIN loaded' \subseteq 1 .. Files
        BY <1>3, <2>2, <3>1, <3>2 DEF LoadFile, Types
      <3> QED
        BY <1>3, <2>1, <3>3 DEF LoadFile, Types, config, tasks
    <2>3. CASE UNCHANGED loaded
      <3>1. UNCHANGED <<files, changed, loaded, requests, config, tasks>>
        BY <1>3, <2>3 DEF LoadFile
      <3> QED
        BY <2>1, <3>1 DEF Types, config, tasks
    <2> QED
      BY <1>3, <2>2, <2>3 DEF LoadFile
  <1>4. CASE EndReload
    <2>1. changed' \in BOOLEAN
      BY <1>4 DEF EndReload, EventsAfter, Types
    <2> QED
      BY <1>4, <2>1 DEF EndReload, Types, config, tasks
  <1> QED
    BY <1>1, <1>2, <1>3, <1>4 DEF Loading

\* The steps of a request.
RequestStep(r) ==
    \/ Ask(r) \/ Persist(r) \/ Answer(r)
    \/ BeforeGuard(r) \/ BeforeScripts(r) \/ BeforeWebhooks(r)
    \/ AfterGuard(r) \/ AfterScripts(r) \/ AfterWebhooks(r)

LEMMA RequestTyped ==
  ASSUME Types, NEW r \in Requests, RequestStep(r)
  PROVE  requests' \in [Requests -> RequestState \cup {Idle}]
  <1>1. ASSUME NEW state \in RequestState, Set(r, state)
        PROVE  requests' \in [Requests -> RequestState \cup {Idle}]
    BY <1>1 DEF Set, Types
  <1>2. CASE Ask(r)
    <2>1. \A operation \in Operations, collection \in Collections :
             [pc |-> "before", at |-> 1, operation |-> operation,
              collection |-> collection, objected |-> FALSE] \in RequestState
      BY ChainTyped DEF RequestState
    <2> QED
      BY <1>1, <1>2, <2>1 DEF Ask
  <1>3. CASE ~ Ask(r)
    <2>1. requests[r] \in RequestState
      BY <1>3 DEF RequestStep, Persist, Answer, BeforeGuard, BeforeScripts, BeforeWebhooks,
                  AfterGuard, AfterScripts, AfterWebhooks, At, Types, Idle
    <2>2. \A pc \in {"refused", "failed", "done"} : [requests[r] EXCEPT !.pc = pc] \in RequestState
      BY <2>1 DEF RequestState
    <2>3. requests[r].at \in DOMAIN Chain =>
             /\ [requests[r] EXCEPT !.at = @ + 1] \in RequestState
             /\ \A b \in BOOLEAN :
                   [requests[r] EXCEPT !.at = @ + 1, !.objected = b] \in RequestState
      <3> SUFFICES ASSUME requests[r].at \in DOMAIN Chain
                   PROVE  /\ [requests[r] EXCEPT !.at = @ + 1] \in RequestState
                          /\ \A b \in BOOLEAN :
                                [requests[r] EXCEPT !.at = @ + 1, !.objected = b]
                                   \in RequestState
        OBVIOUS
      <3>1. requests[r].at + 1 \in 1 .. Len(Chain) + 1
        BY ChainTyped
      <3> QED
        BY <2>1, <3>1 DEF RequestState
    <2>4. [requests[r] EXCEPT !.pc = "after", !.at = 1] \in RequestState
      <3>1. 1 \in 1 .. Len(Chain) + 1
        BY ChainTyped
      <3> QED
        BY <2>1, <3>1 DEF RequestState
    <2>5. CASE Persist(r) \/ Answer(r)
      BY <1>1, <2>2, <2>4, <2>5 DEF Persist, Answer, Finish
    <2>6. CASE BeforeGuard(r) \/ BeforeWebhooks(r) \/ AfterGuard(r) \/ AfterScripts(r)
               \/ AfterWebhooks(r)
      BY <1>1, <2>2, <2>3, <2>6
         DEF BeforeGuard, BeforeWebhooks, AfterGuard, AfterScripts, AfterWebhooks, Advance,
             Finish, At
    <2>7. CASE BeforeScripts(r)
      <3>1. Refuses(Matching(EventOf(r), requests[r].collection)) \in BOOLEAN
        BY DEF Refuses
      <3> QED
        BY <1>1, <2>2, <2>3, <2>7, <3>1 DEF BeforeScripts, Finish, At
    <2> QED
      BY <1>3, <2>5, <2>6, <2>7 DEF RequestStep
  <1> QED
    BY <1>2, <1>3

LEMMA RequestTypes ==
  ASSUME Types, NEW r \in Requests, RequestStep(r)
  PROVE  Types'
  <1>1. requests' \in [Requests -> RequestState \cup {Idle}]
    BY RequestTyped
  <1>2. CASE AfterWebhooks(r)
    <2>1. \A w \in Webhooks : Active(w, r) =>
             [state |-> "posting", attempt |-> 1, url |-> webhooks[w].url, ok |-> FALSE]
                \in Delivery
      <3>1. \A w \in Webhooks : Active(w, r) => webhooks[w].url \in Urls
        BY DEF Active, Types, Webhook
      <3> QED
        BY <3>1, HooksAssumption DEF Delivery
    <2>2. deliveries' \in [Requests -> [Webhooks -> Delivery]]
      <3> DEFINE new == [w \in Webhooks |->
                            IF Active(w, r)
                            THEN [state |-> "posting", attempt |-> 1,
                                  url |-> webhooks[w].url, ok |-> FALSE]
                            ELSE deliveries[r][w]]
      <3>1. new \in [Webhooks -> Delivery]
        BY <2>1 DEF Types
      <3>2. deliveries' = [deliveries EXCEPT ![r] = new] \/ deliveries' = deliveries
        BY <1>2 DEF AfterWebhooks
      <3> HIDE DEF new
      <3> QED
        BY <3>1, <3>2 DEF Types
    <2> QED
      BY <1>1, <1>2, <2>2 DEF AfterWebhooks, Types, engine, config
  <1>3. CASE ~ AfterWebhooks(r)
    <2>1. UNCHANGED <<engine, config, tasks>>
      BY <1>3 DEF RequestStep, Ask, Persist, Answer, BeforeGuard, BeforeScripts,
                  BeforeWebhooks, AfterGuard, AfterScripts
    <2> QED
      BY <1>1, <2>1 DEF Types, engine, config, tasks
  <1> QED
    BY <1>2, <1>3

----------------------------------------------------------------------------
(* Deliveries                                                              *)

LEMMA Nested ==
  ASSUME NEW S, NEW f \in [Requests -> [Webhooks -> S]],
         NEW r \in Requests, NEW w \in Webhooks, NEW d \in S
  PROVE  /\ [f EXCEPT ![r][w] = d] \in [Requests -> [Webhooks -> S]]
         /\ \A q \in Requests, x \in Webhooks :
               [f EXCEPT ![r][w] = d][q][x] = IF q = r /\ x = w THEN d ELSE f[q][x]
  <1>1. [f[r] EXCEPT ![w] = d] \in [Webhooks -> S]
    OBVIOUS
  <1> QED
    BY <1>1

\* A step of a task: the delivery, what has arrived and its log stay sound.
LEMMA TaskEffect ==
  ASSUME Types, NEW r \in Requests, NEW w \in Webhooks, DeliveryInv(r, w), Task(r, w)
  PROVE  \E d \in Delivery, n \in Nat, entries \in Seq(Entry) :
            /\ deliveries' = [deliveries EXCEPT ![r][w] = d]
            /\ arrived' = [arrived EXCEPT ![r][w] = n]
            /\ log' = [log EXCEPT ![r][w] = entries]
            /\ Sound(d, n, entries)
  <1> DEFINE d == deliveries[r][w]
             n == arrived[r][w]
             entries == log[r][w]
  <1>1. /\ d \in Delivery /\ n \in Nat /\ entries \in Seq(Entry)
        /\ d.attempt \in 0 .. MaxAttempts /\ MaxAttempts \in Nat \ {0}
        /\ \A i \in 1 .. Len(entries) : entries[i] \in Entry
    BY HooksAssumption DEF Types, Delivery
  <1>2. Sound(d, n, entries)
    BY DEF DeliveryInv
  <1>3. /\ deliveries = [deliveries EXCEPT ![r][w] = d]
        /\ arrived = [arrived EXCEPT ![r][w] = n]
        /\ log = [log EXCEPT ![r][w] = entries]
    BY DEF Types
  <1>4. CASE Post(r, w)
    <2>1. PICK ok \in BOOLEAN, got \in {0, 1} :
             /\ ok => got = 1
             /\ deliveries' = [deliveries EXCEPT ![r][w] = [d EXCEPT !.state = "logging", !.ok = ok]]
             /\ arrived' = [arrived EXCEPT ![r][w] = n + got]
      BY <1>4 DEF Post, Deliver, Types
    <2> DEFINE d2 == [d EXCEPT !.state = "logging", !.ok = ok]
    <2>2. /\ d2 \in Delivery
          /\ d2.state = "logging" /\ d2.attempt = d.attempt /\ d2.ok = ok
      BY <1>1 DEF Delivery
    <2>3. d.state = "posting" /\ log' = log
      BY <1>4 DEF Post
    <2>4. /\ deliveries' = [deliveries EXCEPT ![r][w] = d2]
          /\ n + got \in Nat
      BY <1>1, <2>1
    <2> HIDE DEF d2, d, n, entries
    <2>5. Sound(d2, n + got, entries)
      BY <1>1, <1>2, <2>1, <2>2, <2>3 DEF Sound, Entry
    <2> QED
      BY <1>1, <1>3, <2>1, <2>2, <2>3, <2>4, <2>5
  <1>5. CASE LogAttempt(r, w)
    <2> DEFINE d2 == [d EXCEPT !.state = AfterLog(d)]
               e2 == Append(entries, [attempt |-> d.attempt, ok |-> d.ok])
    <2>1. /\ d2 \in Delivery
          /\ d2.state = AfterLog(d) /\ d2.attempt = d.attempt /\ d2.ok = d.ok
      BY <1>1 DEF Delivery, AfterLog
    <2>2. d.state = "logging" /\ d.ok \in BOOLEAN
      BY <1>1, <1>5 DEF LogAttempt, Delivery
    <2>3. /\ deliveries' = [deliveries EXCEPT ![r][w] = d2]
          /\ arrived' = arrived
      BY <1>5 DEF LogAttempt, Deliver
    <2>4. [attempt |-> d.attempt, ok |-> d.ok] \in Entry
      BY <1>1, <1>2, <2>2 DEF Sound, Entry
    <2>5. /\ e2 \in Seq(Entry) /\ Len(e2) = Len(entries) + 1 /\ Len(entries) \in Nat
          /\ \A i \in 1 .. Len(entries) : e2[i] = entries[i]
          /\ e2[Len(entries) + 1] = [attempt |-> d.attempt, ok |-> d.ok]
      BY <1>1, <2>4
    <2>6. log' = [log EXCEPT ![r][w] = e2] \/ log' = log
      BY <1>5 DEF LogAttempt, Types
    <2> HIDE DEF d2, e2, d, n, entries
    <2>7. Sound(d2, n, entries)
      BY <1>1, <1>2, <2>1, <2>2 DEF Sound, AfterLog, Entry
    <2>8. Sound(d2, n, e2)
      <3>1. \A i \in 1 .. Len(e2) :
               \/ i \in 1 .. Len(entries) /\ e2[i] = entries[i]
               \/ i = Len(entries) + 1 /\ e2[i].attempt = d.attempt /\ e2[i].ok = d.ok
        BY <2>5
      <3>2. \A i \in 1 .. Len(e2) :
               /\ e2[i].attempt <= d2.attempt
               /\ d2.state \in {"posting", "logging"} => e2[i].attempt < d2.attempt
               /\ e2[i].ok => n >= 1 /\ d2.state \notin {"posting", "logging", "waiting"}
        BY <1>1, <1>2, <2>1, <2>2, <3>1 DEF Sound, AfterLog, Entry
      <3>3. \A i, j \in 1 .. Len(e2) :
               i < j => e2[i].attempt < e2[j].attempt /\ ~ e2[i].ok
        <4> SUFFICES ASSUME NEW i \in 1 .. Len(e2), NEW j \in 1 .. Len(e2), i < j
                     PROVE  e2[i].attempt < e2[j].attempt /\ ~ e2[i].ok
          OBVIOUS
        <4>1. i \in 1 .. Len(entries) /\ e2[i] = entries[i]
          BY <2>5
        <4>2. CASE j \in 1 .. Len(entries)
          BY <1>2, <2>5, <4>1, <4>2 DEF Sound
        <4>3. CASE j = Len(entries) + 1
          BY <1>2, <2>2, <2>5, <4>1, <4>3 DEF Sound
        <4> QED
          BY <2>5, <4>2, <4>3
      <3> QED
        BY <1>1, <1>2, <2>1, <2>2, <3>2, <3>3 DEF Sound, AfterLog
    <2> QED
      BY <1>1, <1>3, <2>1, <2>3, <2>5, <2>6, <2>7, <2>8
  <1>6. CASE Retry(r, w)
    <2>1. d.state = "waiting" /\ log' = log /\ arrived' = arrived
      BY <1>6 DEF Retry
    <2>2. deliveries' = [deliveries EXCEPT ![r][w] = Again(d)]
      BY <1>6 DEF Retry, Deliver
    <2>3. d.attempt + 1 \in 1 .. MaxAttempts
      BY <1>1, <1>2, <2>1 DEF Sound
    <2>4. /\ Again(d) \in Delivery
          /\ Again(d).state = "posting" /\ Again(d).attempt = d.attempt + 1
      <3>1. d.attempt + 1 \in 0 .. MaxAttempts
        BY <1>1, <2>3
      <3> QED
        BY <1>1, <3>1 DEF Delivery, Again
    <2> HIDE DEF d, n, entries
    <2>5. Sound(Again(d), n, entries)
      BY <1>1, <1>2, <2>1, <2>4 DEF Sound, Entry
    <2> QED
      BY <1>1, <1>3, <2>1, <2>2, <2>4, <2>5
  <1> QED
    BY <1>4, <1>5, <1>6 DEF Task

LEMMA TaskTypes ==
  ASSUME Types, NEW r \in Requests, NEW w \in Webhooks, DeliveryInv(r, w), Task(r, w)
  PROVE  Types'
  <1>1. PICK d \in Delivery, n \in Nat, entries \in Seq(Entry) :
            /\ deliveries' = [deliveries EXCEPT ![r][w] = d]
            /\ arrived' = [arrived EXCEPT ![r][w] = n]
            /\ log' = [log EXCEPT ![r][w] = entries]
    BY TaskEffect
  <1>2. deliveries' \in [Requests -> [Webhooks -> Delivery]]
    BY <1>1, Nested DEF Types
  <1>3. arrived' \in [Requests -> [Webhooks -> Nat]]
    BY <1>1, Nested DEF Types
  <1>4. log' \in [Requests -> [Webhooks -> Seq(Entry)]]
    BY <1>1, Nested DEF Types
  <1>5. UNCHANGED <<engine, config, requests>>
    BY DEF Task, Post, LogAttempt, Retry
  <1> QED
    BY <1>2, <1>3, <1>4, <1>5 DEF Types, engine, config

----------------------------------------------------------------------------
(* The webhook service and a crash                                         *)

\* A step of the webhook service.
AdminStep ==
    \/ \E w \in Webhooks :
          \/ CreateWebhook(w) \/ DeleteWebhook(w)
          \/ \E a \in Admins : StartUpdate(a, w)
    \/ \E a \in Admins : FinishUpdate(a)

LEMMA AdminTypes ==
  ASSUME Types, AdminStep
  PROVE  Types'
  <1>1. ASSUME NEW w \in Webhooks, CreateWebhook(w)
        PROVE  Types'
    <2>1. webhooks' \in [Webhooks -> Webhook \cup {Gone}] /\ born' \subseteq Webhooks
      BY <1>1 DEF CreateWebhook, Types
    <2> QED
      BY <1>1, <2>1 DEF CreateWebhook, Types, engine, tasks
  <1>2. ASSUME NEW w \in Webhooks, DeleteWebhook(w)
        PROVE  Types'
    <2>1. webhooks' \in [Webhooks -> Webhook \cup {Gone}]
      BY <1>2 DEF DeleteWebhook, Types
    <2> QED
      BY <1>2, <2>1 DEF DeleteWebhook, Types, engine, tasks
  <1>3. ASSUME NEW w \in Webhooks, NEW a \in Admins, StartUpdate(a, w)
        PROVE  Types'
    <2>1. webhooks[w] \in Webhook
      BY <1>3 DEF StartUpdate, Types
    <2>2. /\ \A u \in Urls : [webhooks[w] EXCEPT !.url = u] \in Webhook
          /\ \A e \in BOOLEAN : [webhooks[w] EXCEPT !.enabled = e] \in Webhook
      BY <2>1 DEF Webhook
    <2> DEFINE Merges == {[webhooks[w] EXCEPT !.url = u] : u \in Urls}
                        \cup {[webhooks[w] EXCEPT !.enabled = e] : e \in BOOLEAN}
    <2>3. \A merged \in Merges : merged \in Webhook
      BY <2>2
    <2>4. \E merged \in Merges : admins' = [admins EXCEPT ![a] =
                        [pc |-> "updating", webhook |-> w, merged |-> merged]]
      BY <1>3 DEF StartUpdate
    <2> HIDE DEF Merges
    <2>5. PICK merged \in Webhook : admins' = [admins EXCEPT ![a] =
                        [pc |-> "updating", webhook |-> w, merged |-> merged]]
      BY <2>3, <2>4
    <2>6. [pc |-> "updating", webhook |-> w, merged |-> merged] \in AdminCall
      BY DEF AdminCall
    <2>7. admins' \in [Admins -> AdminCall \cup {Idle}]
      BY <2>6, <2>5 DEF Types
    <2> QED
      BY <1>3, <2>7 DEF StartUpdate, Types, engine, tasks
  <1>4. ASSUME NEW a \in Admins, FinishUpdate(a)
        PROVE  Types'
    <2>1. admins[a] \in AdminCall
      BY <1>4 DEF FinishUpdate, Types, Idle
    <2>2. admins[a].webhook \in Webhooks /\ admins[a].merged \in Webhook
      BY <2>1 DEF AdminCall
    <2>3. webhooks' \in [Webhooks -> Webhook \cup {Gone}]
      BY <1>4, <2>2 DEF FinishUpdate, Updated, Types
    <2>4. admins' \in [Admins -> AdminCall \cup {Idle}]
      BY <1>4 DEF FinishUpdate, Types
    <2> QED
      BY <1>4, <2>3, <2>4 DEF FinishUpdate, Types, engine, tasks
  <1> QED
    BY <1>1, <1>2, <1>3, <1>4 DEF AdminStep

LEMMA ScriptsTyped ==
  ASSUME files \in [1 .. Files -> Sources \cup {Absent, Broken}]
  PROVE  /\ DOMAIN Scripts(files) \subseteq 1 .. Files
         /\ Scripts(files) \in [DOMAIN Scripts(files) -> Sources]
  <1>1. \A i \in Usable(files) : i \in 1 .. Files /\ files[i] \in Sources
    <2> SUFFICES ASSUME NEW i \in Usable(files) PROVE i \in 1 .. Files /\ files[i] \in Sources
      OBVIOUS
    <2>1. i \in 1 .. Files /\ i \in 1 .. i
      BY HooksAssumption DEF Usable
    <2> QED
      BY <2>1 DEF Usable
  <1> QED
    BY <1>1 DEF Scripts

LEMMA CrashTypes ==
  ASSUME Types, Crash
  PROVE  Types'
  <1>1. /\ DOMAIN loaded' \subseteq 1 .. Files
        /\ loaded' \in [DOMAIN loaded' -> Sources]
    BY ScriptsTyped DEF Crash, Types
  <1>2. requests' \in [Requests -> RequestState \cup {Idle}]
    <2>1. \A s \in RequestState : [s EXCEPT !.pc = "lost"] \in RequestState
      BY DEF RequestState
    <2>2. \A r \in Requests : requests[r].pc \in {"before", "after"} => requests[r] \in RequestState
      BY DEF Types, Idle
    <2> QED
      BY <2>1, <2>2 DEF Crash, Types
  <1>3. deliveries' \in [Requests -> [Webhooks -> Delivery]]
    <2>1. \A d \in Delivery : [d EXCEPT !.state = "dropped"] \in Delivery
      BY DEF Delivery
    <2> QED
      BY <2>1 DEF Crash, Types
  <1>4. admins' \in [Admins -> AdminCall \cup {Idle}]
    BY DEF Crash
  <1> QED
    BY <1>1, <1>2, <1>3, <1>4 DEF Crash, Types

----------------------------------------------------------------------------
(* The engine                                                              *)

LEMMA EngineStep ==
  ASSUME Types, EngineInv, Edit \/ Loading \/ Crash \/ UNCHANGED engine
  PROVE  EngineInv'
  <1>0. /\ Files \in Nat /\ Absent # Broken
        /\ files \in [1 .. Files -> Sources \cup {Absent, Broken}] /\ changed \in BOOLEAN
    BY HooksAssumption DEF Types
  <1>1. CASE Edit
    BY <1>1 DEF Edit, EngineInv
  <1>2. CASE Reload
    <2>1. /\ loader' = [next |-> 1, listed |-> Listed(Files)] /\ files' = files
          /\ loaded' = [i \in {} |-> Absent]
      BY <1>2 DEF Reload, Listed
    <2>2. loader' # NotLoading /\ loader'.next = 1 /\ loader'.listed = Listed(Files)
      BY <2>1 DEF NotLoading
    <2>3. Listed(0)' = {} /\ Listed(Files)' = Listed(Files)
      BY <2>1 DEF Listed
    <2>4. loaded' = [i \in Listed(0)' |-> files'[i]]
      BY <2>1, <2>3
    <2>5. loader'.next - 1 = 0
      BY <2>2
    <2> QED
      BY <2>2, <2>3, <2>4, <2>5 DEF EngineInv, Listed
  <1>3. CASE LoadFile
    <2> SUFFICES ASSUME ~ changed' PROVE EngineInv'
      BY DEF EngineInv
    <2> DEFINE n == loader.next
    <2>1. /\ n \in 1 .. Files /\ loader # NotLoading /\ ~ changed /\ files' = files
          /\ loader' = [next |-> n + 1, listed |-> loader.listed]
      BY <1>0, <1>3 DEF LoadFile, NotLoading, Types
    <2>2. /\ loader.listed = Listed(Files)
          /\ \A i \in 1 .. n - 1 : files[i] # Broken
          /\ loaded = [i \in Listed(n - 1) |-> files[i]]
      BY <2>1 DEF EngineInv
    <2> HIDE DEF n
    <2>3. files[n] # Broken /\ loaded' = [i \in Listed(n) |-> files[i]]
      <3>1. CASE n \notin loader.listed
        <4>1. files[n] = Absent
          BY <2>1, <2>2, <3>1 DEF Listed
        <4>2. Listed(n) = Listed(n - 1)
          BY <2>1, <4>1 DEF Listed
        <4>3. loaded' = loaded
          BY <1>3, <3>1 DEF LoadFile, n
        <4> QED
          BY <1>0, <2>2, <4>1, <4>2, <4>3
      <3>2. CASE n \in loader.listed
        <4>1. files[n] \notin {Absent, Broken}
          BY <1>3, <3>2 DEF LoadFile, Readable, n
        <4>2. Listed(n) = Listed(n - 1) \cup {n}
          BY <2>1, <4>1 DEF Listed
        <4>3. loaded' = [i \in DOMAIN loaded \cup {n} |->
                            IF i = n THEN files[i] ELSE loaded[i]]
          BY <1>3, <3>2 DEF LoadFile, n
        <4>4. n \notin Listed(n - 1)
          BY <2>1 DEF Listed
        <4> QED
          BY <2>2, <4>1, <4>2, <4>3, <4>4
      <3> QED
        BY <3>1, <3>2
    <2>4. /\ loader' # NotLoading /\ loader'.next - 1 = n
          /\ loader'.listed = loader.listed
      BY <2>1 DEF NotLoading
    <2>5. \A i \in 1 .. n : files[i] # Broken
      BY <2>1, <2>2, <2>3
    <2>6. loader'.listed = Listed(Files)'
      BY <2>1, <2>2, <2>4 DEF Listed
    <2>7. \A i \in 1 .. loader'.next - 1 : files'[i] # Broken
      BY <2>1, <2>4, <2>5
    <2>8. loaded' = [i \in Listed(loader.next - 1)' |-> files'[i]]
      BY <2>1, <2>3, <2>4 DEF Listed
    <2> QED
      BY <2>4, <2>6, <2>7, <2>8 DEF EngineInv, Listed
  <1>4. CASE EndReload
    <2> SUFFICES ASSUME ~ changed' PROVE (loaded = Scripts(files))'
      BY <1>4 DEF EngineInv, EndReload
    <2> DEFINE n == loader.next
    <2>1. ~ changed /\ loader # NotLoading /\ loaded' = loaded /\ files' = files
      BY <1>4 DEF EndReload, EventsAfter
    <2>2. n \in 1 .. Files + 1
      BY <1>0, <2>1 DEF Types
    <2>3. /\ loader.listed = Listed(Files)
          /\ \A i \in 1 .. n - 1 : files[i] # Broken
          /\ loaded = [i \in Listed(n - 1) |-> files[i]]
      BY <2>1 DEF EngineInv
    <2>4. n = Files + 1 \/ (n \in 1 .. Files /\ files[n] = Broken)
      BY <1>0, <1>4, <2>2, <2>3 DEF EndReload, Readable, Listed
    <2> HIDE DEF n
    <2>5. Usable(files) = Listed(n - 1)
      BY <1>0, <2>2, <2>3, <2>4 DEF Usable, Listed
    <2> QED
      BY <2>1, <2>3, <2>5 DEF Scripts
  <1>5. CASE Crash
    BY <1>5 DEF Crash, EngineInv
  <1>6. CASE UNCHANGED engine
    BY <1>6 DEF EngineInv, engine, Listed, Scripts, Usable
  <1> QED
    BY <1>1, <1>2, <1>3, <1>4, <1>5, <1>6 DEF Loading

----------------------------------------------------------------------------
(* Requests and what they announce                                         *)

\* The webhooks' place in the chain is passed once.
LEMMA NotAnnouncedTwice ==
  ASSUME Types, NEW r \in Requests, AfterWebhooks(r)
  PROVE  ~ Announced(r)
  <1>1. /\ requests[r].pc = "after" /\ requests[r].at \in DOMAIN Chain
        /\ Chain[requests[r].at] = "webhooks"
    BY DEF AfterWebhooks, At
  <1>2. \A p \in 1 .. requests[r].at - 1 : p \in DOMAIN Chain /\ p # requests[r].at
    BY <1>1, ChainTyped
  <1>3. \A p \in 1 .. requests[r].at - 1 : Chain[p] # "webhooks"
    BY <1>1, <1>2, WebhooksOnce
  <1> QED
    BY <1>1, <1>3 DEF Announced

\* A step of a request is one of its phase.
LEMMA Phase ==
  ASSUME NEW r \in Requests, RequestStep(r)
  PROVE  \/ requests[r].pc = "idle" /\ Ask(r)
         \/ /\ requests[r].pc = "before"
            /\ Persist(r) \/ BeforeGuard(r) \/ BeforeScripts(r) \/ BeforeWebhooks(r)
         \/ /\ requests[r].pc = "after"
            /\ Answer(r) \/ AfterGuard(r) \/ AfterScripts(r) \/ AfterWebhooks(r)
  <1>1. Ask(r) => requests[r].pc = "idle"
    BY DEF Ask, Idle
  <1>2. Persist(r) \/ BeforeGuard(r) \/ BeforeScripts(r) \/ BeforeWebhooks(r)
           => requests[r].pc = "before"
    BY DEF Persist, BeforeGuard, BeforeScripts, BeforeWebhooks, At
  <1>3. Answer(r) \/ AfterGuard(r) \/ AfterScripts(r) \/ AfterWebhooks(r)
           => requests[r].pc = "after"
    BY DEF Answer, AfterGuard, AfterScripts, AfterWebhooks, At
  <1> QED
    BY <1>1, <1>2, <1>3 DEF RequestStep

\* What was announced stays announced.
LEMMA AnnouncedStays ==
  ASSUME Types, NEW r \in Requests, Announced(r),
         \/ UNCHANGED requests
         \/ Crash
         \/ \E q \in Requests : RequestStep(q)
  PROVE  Announced(r)'
  <1>1. CASE UNCHANGED requests
    BY <1>1 DEF Announced
  <1>2. CASE Crash
    <2>1. requests[r] \in RequestState
      BY DEF Types, Announced, Idle
    <2>2. requests'[r].pc \in {"done", "lost"}
      BY <1>2, <2>1 DEF Crash, Announced, RequestState
    <2> QED
      BY <2>2 DEF Announced
  <1>3. ASSUME NEW q \in Requests, RequestStep(q)
        PROVE  Announced(r)'
    <2>1. CASE q # r
      <3>1. requests'[r] = requests[r]
        BY <1>3, <2>1 DEF RequestStep, Ask, Persist, Answer, BeforeGuard, BeforeScripts,
            BeforeWebhooks, AfterGuard, AfterScripts, AfterWebhooks, Set, Advance, Finish, Types
      <3> QED
        BY <3>1 DEF Announced
    <2>2. CASE q = r
      <3>1. requests[r] \in RequestState /\ requests[r].at \in 1 .. Len(Chain) + 1
        BY DEF Types, Announced, Idle, RequestState
      <3>2. /\ requests[r].pc = "after"
            /\ Answer(r) \/ AfterGuard(r) \/ AfterScripts(r) \/ AfterWebhooks(r)
        BY <1>3, <2>2, Phase DEF Announced
      <3>3. \/ requests'[r].pc = "done"
            \/ requests'[r].pc = "after" /\ requests'[r].at = requests[r].at + 1
        BY <3>1, <3>2 DEF Answer, AfterGuard, AfterScripts, AfterWebhooks, Set, Advance,
            Finish, Types, RequestState
      <3>4. \E p \in 1 .. requests[r].at - 1 : Chain[p] = "webhooks"
        BY <3>2 DEF Announced
      <3>5. 1 .. requests[r].at - 1 \subseteq 1 .. (requests[r].at + 1) - 1
        BY <3>1, ChainTyped
      <3> QED
        BY <3>3, <3>4, <3>5 DEF Announced
    <2> QED
      BY <2>1, <2>2
  <1> QED
    BY <1>1, <1>2, <1>3

LEMMA RequestsStep ==
  ASSUME Types, RequestsInv,
         \/ UNCHANGED <<requests, deliveries>>
         \/ Crash
         \/ \E q \in Requests : RequestStep(q)
         \/ \E q \in Requests, x \in Webhooks : Task(q, x)
  PROVE  RequestsInv'
  <1> SUFFICES ASSUME NEW r \in Requests, ~ Announced(r)'
               PROVE  \A w \in Webhooks : deliveries'[r][w].state = "none"
    BY DEF RequestsInv
  <1>1. CASE UNCHANGED <<requests, deliveries>>
    BY <1>1 DEF RequestsInv, Announced
  <1>2. CASE Crash
    <2>1. ~ Announced(r)
      BY <1>2, AnnouncedStays
    <2> QED
      BY <1>2, <2>1 DEF RequestsInv, Crash, Ended
  <1>3. ASSUME NEW q \in Requests, RequestStep(q)
        PROVE  \A w \in Webhooks : deliveries'[r][w].state = "none"
    <2>1. \A w \in Webhooks : deliveries[r][w].state = "none"
      BY <1>3, AnnouncedStays DEF RequestsInv
    <2>2. CASE q # r \/ ~ AfterWebhooks(q)
      <3>1. deliveries'[r] = deliveries[r]
        BY <1>3, <2>2 DEF RequestStep, Ask, Persist, Answer, BeforeGuard, BeforeScripts,
            BeforeWebhooks, AfterGuard, AfterScripts, AfterWebhooks, tasks, Types
      <3> QED
        BY <2>1, <3>1
    <2>3. CASE q = r /\ AfterWebhooks(r)
      <3>1. /\ requests[r] \in RequestState /\ requests[r].at \in DOMAIN Chain
            /\ requests[r].pc = "after" /\ Chain[requests[r].at] = "webhooks"
        BY <2>3 DEF AfterWebhooks, At, Types, Idle
      <3>2. requests'[r].pc = "after" /\ requests'[r].at = requests[r].at + 1
        BY <2>3, <3>1 DEF AfterWebhooks, Advance, Set, Types, RequestState
      <3>3. requests[r].at \in 1 .. (requests[r].at + 1) - 1
        BY <3>1, ChainTyped
      <3>4. Announced(r)'
        BY <3>1, <3>2, <3>3 DEF Announced
      <3> QED
        BY <3>4
    <2> QED
      BY <1>3, <2>2, <2>3
  <1>4. ASSUME NEW q \in Requests, NEW x \in Webhooks, Task(q, x)
        PROVE  \A w \in Webhooks : deliveries'[r][w].state = "none"
    <2>1. UNCHANGED requests /\ deliveries[q][x].state # "none"
      BY <1>4 DEF Task, Post, LogAttempt, Retry
    <2>2. ~ Announced(r)
      BY <2>1 DEF Announced
    <2>3. \A w \in Webhooks : deliveries[r][w].state = "none"
      BY <2>2 DEF RequestsInv
    <2>4. q # r
      BY <2>1, <2>3
    <2>5. deliveries'[r] = deliveries[r]
      BY <1>4, <2>4 DEF Task, Post, LogAttempt, Retry, Deliver, Types
    <2> QED
      BY <2>3, <2>5
  <1> QED
    BY <1>1, <1>2, <1>3, <1>4

LEMMA DeliveriesStep ==
  ASSUME Types, RequestsInv, DeliveriesInv,
         \/ UNCHANGED tasks
         \/ Crash
         \/ \E q \in Requests : RequestStep(q)
         \/ \E q \in Requests, x \in Webhooks : Task(q, x)
  PROVE  DeliveriesInv'
  <1> SUFFICES ASSUME NEW r \in Requests, NEW w \in Webhooks
               PROVE  DeliveryInv(r, w)'
    BY DEF DeliveriesInv
  <1>0. /\ Sound(deliveries[r][w], arrived[r][w], log[r][w])
        /\ deliveries[r][w] \in Delivery /\ deliveries[r][w].attempt \in 0 .. MaxAttempts
        /\ arrived[r][w] \in Nat /\ MaxAttempts \in Nat \ {0}
    BY HooksAssumption DEF DeliveriesInv, DeliveryInv, Types, Delivery
  <1>1. CASE UNCHANGED tasks
    BY <1>0, <1>1 DEF DeliveryInv, tasks
  <1>2. CASE Crash
    <2> DEFINE d == deliveries[r][w]
    <2>1. arrived' = arrived /\ log' = log
      BY <1>2 DEF Crash
    <2>2. CASE d.state \in Ended
      <3>1. deliveries'[r][w] = d
        BY <1>2, <2>2 DEF Crash
      <3> QED
        BY <1>0, <2>1, <3>1 DEF DeliveryInv
    <2>3. CASE d.state \notin Ended
      <3>1. deliveries'[r][w] = [d EXCEPT !.state = "dropped"]
        BY <1>2, <2>3 DEF Crash
      <3>2. /\ deliveries'[r][w].state = "dropped"
            /\ deliveries'[r][w].attempt = d.attempt /\ deliveries'[r][w].ok = d.ok
        BY <1>0, <3>1 DEF Delivery
      <3>3. d.attempt >= 1
        BY <1>0, <2>3 DEF Sound, Ended
      <3>4. Sound(deliveries'[r][w], arrived[r][w], log[r][w])
        BY <1>0, <3>2, <3>3 DEF Sound
      <3> QED
        BY <2>1, <3>4 DEF DeliveryInv
    <2> QED
      BY <2>2, <2>3
  <1>3. ASSUME NEW q \in Requests, RequestStep(q)
        PROVE  DeliveryInv(r, w)'
    <2>1. arrived' = arrived /\ log' = log
      BY <1>3 DEF RequestStep, Ask, Persist, Answer, BeforeGuard, BeforeScripts,
          BeforeWebhooks, AfterGuard, AfterScripts, AfterWebhooks, tasks
    <2>2. CASE deliveries'[r][w] = deliveries[r][w]
      BY <1>0, <2>1, <2>2 DEF DeliveryInv
    <2>3. CASE q = r /\ AfterWebhooks(r) /\ deliveries'[r][w].state = "posting"
               /\ deliveries'[r][w].attempt = 1
      <3>1. deliveries[r][w].state = "none"
        BY <2>3, NotAnnouncedTwice DEF RequestsInv
      <3>2. arrived[r][w] = 0 /\ log[r][w] = <<>>
        BY <1>0, <3>1 DEF Sound
      <3>3. Sound(deliveries'[r][w], arrived[r][w], log[r][w])
        BY <2>3, <3>2 DEF Sound
      <3> QED
        BY <2>1, <3>3 DEF DeliveryInv
    <2>4. \/ deliveries'[r][w] = deliveries[r][w]
          \/ /\ q = r /\ AfterWebhooks(r)
             /\ deliveries'[r][w].state = "posting" /\ deliveries'[r][w].attempt = 1
      <3>1. CASE AfterWebhooks(q)
        <4> DEFINE new == [x \in Webhooks |->
                              IF Active(x, q)
                              THEN [state |-> "posting", attempt |-> 1,
                                    url |-> webhooks[x].url, ok |-> FALSE]
                              ELSE deliveries[q][x]]
        <4>1. deliveries' = [deliveries EXCEPT ![q] = new] \/ deliveries' = deliveries
          BY <3>1 DEF AfterWebhooks
        <4>2. \/ new[w] = deliveries[q][w]
              \/ new[w].state = "posting" /\ new[w].attempt = 1
          OBVIOUS
        <4> HIDE DEF new
        <4>3. deliveries'[r] = IF deliveries' # deliveries /\ q = r THEN new ELSE deliveries[r]
          BY <4>1 DEF Types
        <4> QED
          BY <3>1, <4>2, <4>3
      <3>2. CASE ~ AfterWebhooks(q)
        BY <1>3, <3>2 DEF RequestStep, Ask, Persist, Answer, BeforeGuard, BeforeScripts,
            BeforeWebhooks, AfterGuard, AfterScripts, tasks
      <3> QED
        BY <3>1, <3>2
    <2> QED
      BY <2>2, <2>3, <2>4
  <1>4. ASSUME NEW q \in Requests, NEW x \in Webhooks, Task(q, x)
        PROVE  DeliveryInv(r, w)'
    <2>1. PICK d \in Delivery, n \in Nat, entries \in Seq(Entry) :
            /\ deliveries' = [deliveries EXCEPT ![q][x] = d]
            /\ arrived' = [arrived EXCEPT ![q][x] = n]
            /\ log' = [log EXCEPT ![q][x] = entries]
            /\ Sound(d, n, entries)
      BY <1>4, TaskEffect DEF DeliveriesInv
    <2>2. deliveries'[r][w] = IF r = q /\ w = x THEN d ELSE deliveries[r][w]
      BY <2>1 DEF Types
    <2>3. arrived'[r][w] = IF r = q /\ w = x THEN n ELSE arrived[r][w]
      BY <2>1 DEF Types
    <2>4. log'[r][w] = IF r = q /\ w = x THEN entries ELSE log[r][w]
      BY <2>1 DEF Types
    <2> QED
      BY <1>0, <2>1, <2>2, <2>3, <2>4 DEF DeliveryInv
  <1> QED
    BY <1>1, <1>2, <1>3, <1>4

----------------------------------------------------------------------------
(* The invariant holds and is kept                                         *)

LEMMA InitInv ==
  ASSUME Init
  PROVE  IInv
  <1>1. PICK start \in Starts :
          /\ files = start.files
          /\ changed = FALSE
          /\ loaded = Scripts(files)
          /\ loader = NotLoading
          /\ webhooks = start.webhooks
          /\ born = {w \in Webhooks : start.webhooks[w] # Gone}
    BY DEF Init
  <1>2. /\ requests = [r \in Requests |-> Idle]
        /\ admins = [a \in Admins |-> Idle]
        /\ deliveries = [r \in Requests |-> [w \in Webhooks |-> NoDelivery]]
        /\ arrived = [r \in Requests |-> [w \in Webhooks |-> 0]]
        /\ log = [r \in Requests |-> [w \in Webhooks |-> <<>>]]
    BY DEF Init
  <1>3. NoDelivery \in Delivery
    BY HooksAssumption DEF NoDelivery, Delivery
  <1>4. Types
    <2>1. files \in [1 .. Files -> Sources \cup {Absent, Broken}]
      BY <1>1, StartsAssumption
    <2>2. webhooks \in [Webhooks -> Webhook \cup {Gone}] /\ born \subseteq Webhooks
      BY <1>1, StartsAssumption
    <2>3. /\ DOMAIN loaded \subseteq 1 .. Files
          /\ loaded \in [DOMAIN loaded -> Sources]
      BY <1>1, <2>1, ScriptsTyped
    <2>4. log \in [Requests -> [Webhooks -> Seq(Entry)]]
      BY <1>2
    <2> QED
      BY <1>1, <1>2, <1>3, <2>1, <2>2, <2>3, <2>4 DEF Types
  <1>5. EngineInv
    BY <1>1 DEF EngineInv
  <1>6. RequestsInv
    BY <1>2 DEF RequestsInv, NoDelivery
  <1>7. DeliveriesInv
    <2> SUFFICES ASSUME NEW r \in Requests, NEW w \in Webhooks
                 PROVE  Sound(deliveries[r][w], arrived[r][w], log[r][w])
      BY DEF DeliveriesInv, DeliveryInv
    <2>1. /\ deliveries[r][w].state = "none" /\ deliveries[r][w].attempt = 0
          /\ arrived[r][w] = 0 /\ log[r][w] = <<>>
      BY <1>2 DEF NoDelivery
    <2> QED
      BY <2>1 DEF Sound
  <1> QED
    BY <1>4, <1>5, <1>6, <1>7 DEF IInv

LEMMA InvStep ==
  ASSUME IInv, [Next]_vars
  PROVE  IInv'
  <1>0. Types /\ EngineInv /\ RequestsInv /\ DeliveriesInv
    BY DEF IInv
  <1>1. CASE Edit \/ Loading
    <2>1. UNCHANGED <<requests, tasks>>
      BY <1>1 DEF Edit, Loading, Reload, LoadFile, EndReload
    <2>2. UNCHANGED <<requests, deliveries>>
      BY <2>1 DEF tasks
    <2> QED
      BY <1>0, <1>1, <2>1, <2>2, EngineTypes, EngineStep, RequestsStep, DeliveriesStep DEF IInv
  <1>2. CASE Crash
    BY <1>0, <1>2, CrashTypes, EngineStep, RequestsStep, DeliveriesStep DEF IInv
  <1>3. ASSUME NEW r \in Requests, RequestStep(r)
        PROVE  IInv'
    <2>1. UNCHANGED engine
      BY <1>3 DEF RequestStep, Ask, Persist, Answer, BeforeGuard, BeforeScripts,
          BeforeWebhooks, AfterGuard, AfterScripts, AfterWebhooks
    <2> QED
      BY <1>0, <1>3, <2>1, RequestTypes, EngineStep, RequestsStep, DeliveriesStep DEF IInv
  <1>4. ASSUME NEW r \in Requests, NEW w \in Webhooks, Task(r, w)
        PROVE  IInv'
    <2>1. UNCHANGED engine
      BY <1>4 DEF Task, Post, LogAttempt, Retry
    <2>2. DeliveryInv(r, w)
      BY <1>0 DEF DeliveriesInv
    <2> QED
      BY <1>0, <1>4, <2>1, <2>2, TaskTypes, EngineStep, RequestsStep, DeliveriesStep DEF IInv
  <1>5. CASE AdminStep
    <2>1. UNCHANGED <<engine, requests, tasks>>
      BY <1>5 DEF AdminStep, CreateWebhook, DeleteWebhook, StartUpdate, FinishUpdate
    <2>2. UNCHANGED <<requests, deliveries>>
      BY <2>1 DEF tasks
    <2> QED
      BY <1>0, <1>5, <2>1, <2>2, AdminTypes, EngineStep, RequestsStep, DeliveriesStep DEF IInv
  <1>6. CASE UNCHANGED vars
    <2>1. UNCHANGED <<engine, config, requests, tasks>>
      BY <1>6 DEF vars, engine, config, tasks
    <2>2. Types'
      BY <1>0, <2>1 DEF Types, engine, config, tasks
    <2>3. UNCHANGED <<requests, deliveries>>
      BY <2>1 DEF tasks
    <2> QED
      BY <1>0, <2>1, <2>2, <2>3, EngineStep, RequestsStep, DeliveriesStep DEF IInv
  <1> QED
    BY <1>1, <1>2, <1>3, <1>4, <1>5, <1>6 DEF Next, RequestStep, AdminStep

LEMMA Invariant == Spec => []IInv
  BY InitInv, InvStep, PTL DEF Spec

----------------------------------------------------------------------------
(* Theorems                                                                *)

\* Files, callbacks, requests, webhooks and deliveries keep their types, and
\* nothing is sent more often than there are attempts.
THEOREM HooksTyped == Spec => []TypeOK
  <1>1. IInv => TypeOK
    <2> SUFFICES ASSUME Types, DeliveriesInv PROVE TypeOK
      BY DEF IInv
    <2>1. loader \in [next : 0 .. Files + 1, listed : SUBSET (1 .. Files)]
      <3>1. 1 .. Files + 1 \subseteq 0 .. Files + 1 /\ 0 \in 0 .. Files + 1
        BY HooksAssumption
      <3> QED
        BY <3>1 DEF Types, NotLoading
    <2>2. arrived \in [Requests -> [Webhooks -> 0 .. MaxAttempts]]
      <3>1. \A r \in Requests, w \in Webhooks : arrived[r][w] \in 0 .. MaxAttempts
        <4> SUFFICES ASSUME NEW r \in Requests, NEW w \in Webhooks
                     PROVE  arrived[r][w] \in 0 .. MaxAttempts
          OBVIOUS
        <4>1. /\ arrived[r][w] \in Nat /\ deliveries[r][w].attempt \in 0 .. MaxAttempts
              /\ MaxAttempts \in Nat
          BY HooksAssumption DEF Types, Delivery
        <4>2. arrived[r][w] <= deliveries[r][w].attempt
          BY DEF DeliveriesInv, DeliveryInv, Sound
        <4> QED
          BY <4>1, <4>2
      <3> QED
        BY <3>1 DEF Types
    <2>3. \A r \in Requests : requests[r] = Idle \/ requests[r] \in RequestState
      BY DEF Types
    <2>4. \A a \in Admins : admins[a] = Idle \/ admins[a] \in AdminCall
      BY DEF Types
    <2>5. DOMAIN loaded \subseteq 1 .. Files /\ \A i \in DOMAIN loaded : loaded[i] \in Sources
      BY DEF Types
    <2> QED
      BY <2>1, <2>2, <2>3, <2>4, <2>5 DEF TypeOK, Types, RequestState, AdminCall
  <1> QED
    BY <1>1, Invariant, PTL

\* However edits fall into the listing, the reading and the debouncing of a
\* reload, of any number of files, none goes unnoticed.
THEOREM CallbacksAreCurrent == Spec => []LoadedIsCurrent
  <1>1. IInv => LoadedIsCurrent
    BY DEF IInv, EngineInv, LoadedIsCurrent
  <1> QED
    BY <1>1, Invariant, PTL

\* However the deliveries of any number of changes to any number of webhooks
\* overlap, fail and are cut off, and whatever the logging misses, the log of
\* each tells the truth.
THEOREM LogsAreTrue == Spec => []LogTellsTheTruth
  <1>1. IInv => LogTellsTheTruth
    <2> SUFFICES ASSUME IInv, NEW r \in Requests, NEW w \in Webhooks
                 PROVE  LET entries == log[r][w]
                        IN  /\ \A i, j \in DOMAIN entries :
                                  i < j => /\ entries[i].attempt < entries[j].attempt
                                           /\ ~ entries[i].ok
                            /\ \A i \in DOMAIN entries :
                                  entries[i].ok => arrived[r][w] >= 1
      BY DEF LogTellsTheTruth
    <2>1. DOMAIN log[r][w] = 1 .. Len(log[r][w])
      BY DEF IInv, Types
    <2>2. Sound(deliveries[r][w], arrived[r][w], log[r][w])
      BY DEF IInv, DeliveriesInv, DeliveryInv
    <2> QED
      BY <2>1, <2>2 DEF Sound
  <1> QED
    BY <1>1, Invariant, PTL

----------------------------------------------------------------------------
(* Refusals                                                                *)

\* In a file, what comes before a callback that refuses is registered for the
\* same event.
RefusersLead ==
    \A s \in Sources : \A m \in DOMAIN s :
        s[m].effect = "refuse" => \A n \in 1 .. m - 1 : s[n].event = s[m].event

\* Then its place in the file is its place among the callbacks of its event.
LEMMA RefuserIsInvoked ==
  ASSUME RefusersLead, Types, NEW event, NEW collection,
         NEW c \in Matching(event, collection), Effect(c) = "refuse"
  PROVE  c \in Invoked(c)
  <1>1. PICK i \in DOMAIN loaded : \E m \in DOMAIN loaded[i] : c = <<i, m>>
    BY DEF Matching
  <1>2. PICK m \in DOMAIN loaded[i] : c = <<i, m>>
    BY <1>1
  <1> DEFINE source == loaded[i]
  <1>3. source \in Sources /\ source \in Seq(Registration)
    BY HooksAssumption DEF Types
  <1>4. m \in Nat \ {0}
    BY <1>3
  <1>5. source[m].effect = "refuse"
    BY <1>2 DEF Effect
  <1>6. {n \in 1 .. m - 1 : source[n].event = source[m].event} = 1 .. m - 1
    BY <1>3, <1>5 DEF RefusersLead
  <1>7. Earlier(source, m) = m - 1
    <2>1. m - 1 \in Nat
      BY <1>4
    <2> QED
      BY <1>6, <2>1, Counting DEF Earlier
  <1> QED
    BY <1>1, <1>2, <1>7 DEF Invoked

\* No request has gone on past a callback that refuses it.
NoneObjected == \A r \in Requests : requests[r] # Idle => ~ requests[r].objected

LEMMA NoneObjectedStep ==
  ASSUME RefusersLead, Types, NoneObjected, [Next]_vars
  PROVE  NoneObjected'
  <1>1. ASSUME NEW r \in Requests, RequestStep(r)
        PROVE  NoneObjected'
    <2>1. \A q \in Requests : q # r => requests'[q] = requests[q]
      BY <1>1 DEF RequestStep, Ask, Persist, Answer, BeforeGuard, BeforeScripts,
          BeforeWebhooks, AfterGuard, AfterScripts, AfterWebhooks, Set, Advance, Finish, Types
    <2>2. ~ requests'[r].objected
      <3>1. CASE Ask(r)
        BY <3>1 DEF Ask, Set, Types
      <3>2. CASE ~ Ask(r)
        <4>1. requests[r].pc \in {"before", "after"}
          BY <1>1, <3>2, Phase
        <4>2. requests[r] # Idle /\ requests[r] \in RequestState
          BY <4>1 DEF Idle, Types
        <4>3. ~ requests[r].objected
          BY <4>2 DEF NoneObjected
        <4>4. CASE BeforeScripts(r)
          <5> DEFINE matching == Matching(EventOf(r), requests[r].collection)
                     ran == Ran(EventOf(r), requests[r].collection)
          <5>1. Refuses(matching) => Refuses(ran)
            BY RefuserIsInvoked DEF Refuses, Ran
          <5>2. \/ requests' = [requests EXCEPT ![r] = [requests[r] EXCEPT !.pc = "refused"]]
                \/ /\ ~ Refuses(ran)
                   /\ requests' = [requests EXCEPT ![r] =
                         [requests[r] EXCEPT !.at = @ + 1, !.objected = Refuses(matching)]]
            BY <4>4 DEF BeforeScripts, Finish, Set
          <5> HIDE DEF matching, ran
          <5>3. CASE requests' = [requests EXCEPT ![r] = [requests[r] EXCEPT !.pc = "refused"]]
            BY <4>2, <4>3, <5>3 DEF Types, RequestState
          <5>4. CASE /\ ~ Refuses(matching)
                     /\ requests' = [requests EXCEPT ![r] =
                           [requests[r] EXCEPT !.at = @ + 1, !.objected = Refuses(matching)]]
            BY <4>2, <5>4 DEF Types, RequestState
          <5> QED
            BY <5>1, <5>2, <5>3, <5>4
        <4>5. CASE ~ BeforeScripts(r)
          <5>1. \/ Advance(r) \/ \E how \in {"refused", "failed", "done"} : Finish(r, how)
                \/ Set(r, [requests[r] EXCEPT !.pc = "after", !.at = 1])
            BY <1>1, <3>2, <4>5 DEF RequestStep, Persist, Answer, BeforeGuard, BeforeWebhooks,
                AfterGuard, AfterScripts, AfterWebhooks
          <5>2. CASE Advance(r)
            BY <4>2, <4>3, <5>2 DEF Advance, Set, Types, RequestState
          <5>3. CASE \E how \in {"refused", "failed", "done"} : Finish(r, how)
            BY <4>2, <4>3, <5>3 DEF Finish, Set, Types, RequestState
          <5>4. CASE Set(r, [requests[r] EXCEPT !.pc = "after", !.at = 1])
            BY <4>2, <4>3, <5>4 DEF Set, Types, RequestState
          <5> QED
            BY <5>1, <5>2, <5>3, <5>4
        <4> QED
          BY <4>4, <4>5
      <3> QED
        BY <3>1, <3>2
    <2> QED
      BY <2>1, <2>2 DEF NoneObjected
  <1>2. CASE Crash
    <2> SUFFICES ASSUME NEW r \in Requests, requests'[r] # Idle PROVE ~ requests'[r].objected
      BY DEF NoneObjected
    <2>1. requests[r] # Idle /\ requests[r] \in RequestState
      BY <1>2 DEF Crash, Types, Idle
    <2> QED
      BY <1>2, <2>1 DEF Crash, NoneObjected, RequestState
  <1>3. CASE UNCHANGED requests
    BY <1>3 DEF NoneObjected
  <1>4. \/ Crash \/ UNCHANGED requests \/ \E r \in Requests : RequestStep(r)
    BY DEF Next, RequestStep, Task, Post, LogAttempt, Retry, Edit, Loading, Reload, LoadFile,
        EndReload, CreateWebhook, DeleteWebhook, StartUpdate, FinishUpdate, vars
  <1> QED
    BY <1>1, <1>2, <1>3, <1>4

\* A change that a callback registered for it refuses is not written, whatever
\* is edited meanwhile, when no callback of another event comes before one that
\* refuses.
THEOREM RefusalsHold == RefusersLead => (Spec => []RefusalStops)
  <1> SUFFICES ASSUME RefusersLead PROVE Spec => []RefusalStops
    OBVIOUS
  <1>1. Init => NoneObjected
    BY DEF Init, NoneObjected
  <1>2. IInv /\ NoneObjected /\ [Next]_vars => NoneObjected'
    BY NoneObjectedStep DEF IInv
  <1>3. NoneObjected => RefusalStops
    BY DEF NoneObjected, RefusalStops, Idle
  <1> QED
    BY <1>1, <1>2, <1>3, Invariant, PTL DEF Spec
=============================================================================
