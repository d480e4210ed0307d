------------------------------ MODULE Realtime ------------------------------
(***************************************************************************)
(* Realtime notifications: RealtimeHub and its handlers                    *)
(* (crates/zerobase-api/src/handlers/realtime.rs) with the record handlers *)
(* that feed it (handlers/records.rs).                                     *)
(*                                                                         *)
(* A handler commits its change and then sends an event on a tokio         *)
(* broadcast channel.  Each connection polls a receiver of its own, checks *)
(* every event against the client's current subscriptions and the rules    *)
(* that travel with the event, and writes it to the client.  The map of    *)
(* clients is behind an RwLock taken for one lookup at a time, so other    *)
(* tasks run between any two of these steps.                               *)
(*                                                                         *)
(* Abstractions: one collection; `viewers` is the set of clients whose     *)
(* identity (fixed when they connect) passes the event's manage or view    *)
(* rule on the event's record; the channel is the sequence of all events,  *)
(* of which it still holds the last Capacity.                              *)
(***************************************************************************)
EXTENDS Naturals, Sequences, FiniteSets

CONSTANTS
    Clients,     \* connections, each with a client id of its own
    Handlers,    \* bound on the record handlers between commit and broadcast
    Records,     \* record ids: "collection/id" is a topic
    Collection,  \* the topic of the collection itself
    TopicSets,   \* the sets of topics clients ask for
    Capacity,    \* channel_capacity
    MaxChanges   \* bound on the committed changes

ASSUME ChannelAssumption == /\ Collection \notin Records
                            /\ TopicSets \subseteq SUBSET (Records \cup {Collection})
                            /\ Handlers \in Nat
                            /\ Capacity \in Nat \ {0}
                            /\ MaxChanges \in Nat

VARIABLES
    changes,    \* the number of changes committed to the database
    committed,  \* the events of handlers that have committed and not yet sent
    log,        \* the events sent to at least one receiver
    subs,       \* the hub's map: client id -> subscriptions
    conn,       \* conn[c]: where the connection's stream stands
    next,       \* next[c]: the position in the log its receiver is at
    announced,  \* history: the changes whose handler has called broadcast
    fetched,    \* history: the changes in what c fetched after it subscribed
    got,        \* history: the positions of the events c was sent, in order
    missed,     \* history: the positions c's receiver lagged behind
    late        \* history: events c was sent that its subscriptions exclude

hub == <<subs, conn, next>>
history == <<announced, fetched, got, missed, late>>
vars == <<changes, committed, log, hub, history>>

Topics == Records \cup {Collection}

Event == [change: 1 .. MaxChanges, rec: Records, viewers: SUBSET Clients]

\* A stream holds an event only between receiving it and writing it.
ConnState ==
    [at: {"new", "registered", "greeting", "streaming", "closed", "gone"}]
    \cup [at: {"checking", "writing"}, event: 1 .. MaxChanges]

\* A receiver's position is at most one behind the newest event.
TypeOK ==
    /\ changes \in 0 .. MaxChanges
    /\ committed \in SUBSET Event
    /\ log \in Seq(Event)
    /\ DOMAIN subs \in SUBSET Clients
    /\ subs \in [DOMAIN subs -> SUBSET Topics]
    /\ conn \in [Clients -> ConnState]
    /\ next \in [Clients -> 0 .. Len(log) + 1]
    /\ announced \in SUBSET (1 .. MaxChanges)
    /\ fetched \in [Clients -> 0 .. MaxChanges]
    /\ got \in [Clients -> Seq(1 .. MaxChanges)]
    /\ missed \in [Clients -> SUBSET (1 .. MaxChanges)]
    /\ late \in [Clients -> Nat]

Init ==
    /\ changes = 0
    /\ committed = {}
    /\ log = <<>>
    /\ subs = [c \in {} |-> {}]
    /\ conn = [c \in Clients |-> [at |-> "new"]]
    /\ next = [c \in Clients |-> 0]
    /\ announced = {}
    /\ fetched = [c \in Clients |-> MaxChanges]
    /\ got = [c \in Clients |-> <<>>]
    /\ missed = [c \in Clients |-> {}]
    /\ late = [c \in Clients |-> 0]

\* The client has its id, and its stream is alive.
Streaming(c) == conn[c].at \in {"streaming", "checking", "writing"}

\* The connection holds a receiver of the channel.
Receiving(c) == conn[c].at = "greeting" \/ Streaming(c)

----------------------------------------------------------------------------
(* Helpers.  Each *Bug* operator is a faulty variant that shows that a     *)
(* property depends on the definition that follows it.                     *)

\* topic_matches_subscriptions: the record itself, or its collection.
MatchesBug(event, topics) == event.rec \in topics

Matches(event, topics) == event.rec \in topics \/ Collection \in topics

\* should_client_receive
ShouldReceiveBug(c, event) == c \in event.viewers

ShouldReceive(c, event) ==
    /\ c \in DOMAIN subs
    /\ Matches(event, subs[c])
    /\ c \in event.viewers

\* get_mut: only a client in the map can have its subscriptions replaced.
Known(c) == c \in DOMAIN subs

\* The oldest event the channel still holds.
Oldest == IF Len(log) > Capacity THEN Len(log) - Capacity + 1 ELSE 1

\* A receiver that has taken the event at position p goes on behind it.
AfterBug(p) == p

After(p) == p + 1

----------------------------------------------------------------------------
(* The record handlers                                                     *)

\* The service's write is in the database, and the rules have been read.
Commit(rec, viewers) ==
    /\ changes < MaxChanges
    /\ Cardinality(committed) < Handlers
    /\ changes' = changes + 1
    /\ committed' = committed \cup {[change |-> changes + 1, rec |-> rec, viewers |-> viewers]}
    /\ UNCHANGED <<log, hub, history>>

\* broadcast_change: without a receiver the event goes nowhere.
Broadcast(event) ==
    /\ log' = IF \E c \in Clients : Receiving(c) THEN Append(log, event) ELSE log
    /\ announced' = announced \cup {event.change}
    /\ committed' = committed \ {event}
    /\ UNCHANGED <<changes, hub, fetched, got, missed, late>>

\* A multipart create whose row is in and whose upload or update then fails.
Abandon(event) ==
    /\ committed' = committed \ {event}
    /\ UNCHANGED <<changes, log, hub, history>>

----------------------------------------------------------------------------
(* GET /api/realtime: the life of a connection                             *)

\* connect: the client is put into the map ...
Register(c) ==
    /\ conn[c].at = "new"
    /\ subs' = [d \in DOMAIN subs \cup {c} |-> IF d = c THEN {} ELSE subs[d]]
    /\ conn' = [conn EXCEPT ![c] = [at |-> "registered"]]
    /\ UNCHANGED <<changes, committed, log, next, history>>

\* ... and gets a receiver, at the end of the channel.
Subscribe(c) ==
    /\ conn[c].at = "registered"
    /\ next' = [next EXCEPT ![c] = Len(log) + 1]
    /\ conn' = [conn EXCEPT ![c] = [at |-> "greeting"]]
    /\ UNCHANGED <<changes, committed, log, subs, history>>

\* PB_CONNECT, the first item of the stream, tells the client its id.
Greet(c) ==
    /\ conn[c].at = "greeting"
    /\ conn' = [conn EXCEPT ![c] = [at |-> "streaming"]]
    /\ UNCHANGED <<changes, committed, log, subs, next, history>>

\* The receiver takes its next event ...
Receive(c) ==
    /\ conn[c].at = "streaming"
    /\ next[c] \in Oldest .. Len(log)
    /\ conn' = [conn EXCEPT ![c] = [at |-> "checking", event |-> next[c]]]
    /\ next' = [next EXCEPT ![c] = After(@)]
    /\ UNCHANGED <<changes, committed, log, subs, history>>

\* ... or finds it overwritten, and goes on with the oldest that is left.
Lag(c) ==
    /\ conn[c].at = "streaming"
    /\ next[c] < Oldest
    /\ missed' = [missed EXCEPT ![c] = @ \cup (next[c] .. Oldest - 1)]
    /\ next' = [next EXCEPT ![c] = Oldest]
    /\ UNCHANGED <<changes, committed, log, subs, conn, announced, fetched, got, late>>

Check(c) ==
    /\ conn[c].at = "checking"
    /\ conn' = [conn EXCEPT ![c] = IF ShouldReceive(c, log[conn[c].event])
                                   THEN [@ EXCEPT !.at = "writing"]
                                   ELSE [at |-> "streaming"]]
    /\ UNCHANGED <<changes, committed, log, subs, next, history>>

\* Whether the event is one the client's subscriptions still ask for.
Wanted(c, event) ==
    c \in DOMAIN subs /\ (event.rec \in subs[c] \/ Collection \in subs[c])

Write(c) ==
    /\ conn[c].at = "writing"
    /\ got' = [got EXCEPT ![c] = Append(@, conn[c].event)]
    /\ late' = [late EXCEPT ![c] = IF Wanted(c, log[conn[c].event]) THEN @ ELSE @ + 1]
    /\ conn' = [conn EXCEPT ![c] = [at |-> "streaming"]]
    /\ UNCHANGED <<changes, committed, log, subs, next, announced, fetched, missed>>

\* The receivers of the connections in `ended` are dropped, and with them the
\* history of these connections.
Drop(ended) ==
    /\ next' = [c \in Clients |-> IF c \in ended THEN 0 ELSE next[c]]
    /\ fetched' = [c \in Clients |-> IF c \in ended THEN MaxChanges ELSE fetched[c]]
    /\ got' = [c \in Clients |-> IF c \in ended THEN <<>> ELSE got[c]]
    /\ missed' = [c \in Clients |-> IF c \in ended THEN {} ELSE missed[c]]
    /\ late' = [c \in Clients |-> IF c \in ended THEN 0 ELSE late[c]]
    /\ UNCHANGED announced

\* The client goes away: the stream is dropped, and its guard spawns a task ...
Close(c) ==
    /\ Receiving(c)
    /\ Drop({c})
    /\ conn' = [conn EXCEPT ![c] = [at |-> "closed"]]
    /\ UNCHANGED <<changes, committed, log, subs>>

\* ... that takes the client out of the map.
Disconnect(c) ==
    /\ conn[c].at = "closed"
    /\ subs' = [d \in DOMAIN subs \ {c} |-> subs[d]]
    /\ conn' = [conn EXCEPT ![c] = [at |-> "gone"]]
    /\ UNCHANGED <<changes, committed, log, next, history>>

----------------------------------------------------------------------------
(* POST /api/realtime and the client                                       *)

\* The whole set is replaced.  The request of a client that has gone away in
\* the meantime is still served; one that is not in the map any more gets 404.
SetSubscriptions(c, topics) ==
    /\ conn[c].at \notin {"new", "registered", "greeting"}
    /\ Known(c)
    /\ subs' = [d \in DOMAIN subs \cup {c} |-> IF d = c THEN topics ELSE subs[d]]
    /\ fetched' = [fetched EXCEPT ![c] = MaxChanges]
    /\ late' = [late EXCEPT ![c] = 0]
    /\ UNCHANGED <<changes, committed, log, conn, next, announced, got, missed>>

\* The client reads the records after it has subscribed.
Fetch(c) ==
    /\ Streaming(c)
    /\ c \in DOMAIN subs
    /\ fetched' = [fetched EXCEPT ![c] = changes]
    /\ UNCHANGED <<changes, committed, log, hub, announced, got, missed, late>>

\* The process ends, and with it the hub, the streams and the handlers.
Crash ==
    /\ committed' = {}
    /\ subs' = [c \in {} |-> {}]
    /\ conn' = [c \in Clients |-> IF conn[c].at = "new" THEN conn[c] ELSE [at |-> "gone"]]
    /\ Drop(Clients)
    /\ UNCHANGED <<changes, log>>

Stream(c) == Subscribe(c) \/ Greet(c) \/ Receive(c) \/ Lag(c) \/ Check(c) \/ Write(c)

Next ==
    \/ \E rec \in Records, viewers \in SUBSET Clients : Commit(rec, viewers)
    \/ \E event \in committed : Broadcast(event) \/ Abandon(event)
    \/ \E c \in Clients : Register(c) \/ Stream(c) \/ Close(c) \/ Disconnect(c) \/ Fetch(c)
    \/ \E c \in Clients, topics \in TopicSets : SetSubscriptions(c, topics)
    \/ Crash

Spec == Init /\ [][Next]_vars

\* The runtime polls the stream of a client that keeps reading, and runs what
\* was spawned.  Nothing makes a handler commit, or a client do anything.
FairSpec == Spec /\ \A c \in Clients : WF_vars(Stream(c)) /\ WF_vars(Disconnect(c))

----------------------------------------------------------------------------
(* Properties                                                              *)

Owed(c, p) == Wanted(c, log[p]) /\ c \in log[p].viewers

(***************************************************************************)
(* A client that subscribes and then fetches misses nothing: a change that *)
(* is not in what it fetched and whose handler has announced it is an      *)
(* event it has been sent, is about to be sent or has still to receive,    *)
(* unless the receiver reported that it lagged.  It needs the order commit,*)
(* broadcast in the handlers and the order subscribe, PB_CONNECT in        *)
(* sse_connect.                                                            *)
(***************************************************************************)
NoChangeMissed ==
    \A c \in Clients : \A n \in announced :
        Streaming(c) /\ n > fetched[c] =>
            \E p \in 1 .. Len(log) :
                /\ log[p].change = n
                /\ Owed(c, p) =>
                      \/ next[c] <= p
                      \/ conn[c].at # "streaming" /\ conn[c].event = p
                      \/ \E k \in 1 .. Len(got[c]) : got[c][k] = p
                      \/ p \in missed[c]

(***************************************************************************)
(* Lagging or not, a client is sent each event at most once and in the     *)
(* order the events were broadcast.                                        *)
(***************************************************************************)
SentOnceInOrder ==
    \A c \in Clients : \A i, j \in 1 .. Len(got[c]) : i < j => got[c][i] < got[c][j]

(***************************************************************************)
(* Once a POST has replaced the subscriptions, at most one event outside   *)
(* the new set still reaches the client: the one that had been checked.    *)
(***************************************************************************)
AtMostOneLateEvent == \A c \in Clients : late[c] <= 1

(***************************************************************************)
(* A connection that is not closed deals with every event its receiver has *)
(* still to take: it never stops half way through its backlog, also not    *)
(* when it lags.  With NoChangeMissed, an event that a subscribed client   *)
(* may see is sent to it in the end.                                       *)
(***************************************************************************)
Taking(c, p) == \/ next[c] <= p
                \/ conn[c].at # "streaming" /\ conn[c].event = p

StreamsCatchUp ==
    \A c \in Clients, p \in 1 .. MaxChanges :
        Streaming(c) /\ p <= Len(log) /\ Taking(c, p)
            ~> ~Streaming(c) \/ ~Taking(c, p)
=============================================================================
