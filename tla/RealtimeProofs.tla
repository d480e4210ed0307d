--------------------------- MODULE RealtimeProofs ---------------------------
(***************************************************************************)
(* Realtime for any number of connections, handlers and records, and any   *)
(* capacity of the channel: IInv is inductive, and the safety properties   *)
(* the run checks follow from it.                                          *)
(***************************************************************************)
EXTENDS Realtime, FiniteSetTheorems, TLAPS

----------------------------------------------------------------------------
(* The inductive invariant                                                 *)

\* A change is committed, and then announced, at most once; the log has no
\* more events than changes that were announced.
Ledger ==
    /\ announced \subseteq 1 .. changes
    /\ \A e \in committed : e.change \in 1 .. changes /\ e.change \notin announced
    /\ \A e, f \in committed : e.change = f.change => e = f
    /\ Len(log) <= Cardinality(announced)

\* The event a stream holds.
Held(c) == conn[c].at \in {"checking", "writing"}

\* A connection with a receiver is at a position of the log, and an event its
\* stream holds is the last that the receiver took.
Position(c) ==
    /\ Receiving(c) => next[c] # 0
    /\ Held(c) => conn[c].event \in 1 .. Len(log) /\ next[c] = conn[c].event + 1

\* What the client was sent lies before what its receiver is at, and before
\* the event its stream holds, and is in order.
InOrder(c) ==
    /\ \A i \in 1 .. Len(got[c]) :
          got[c][i] < next[c] /\ (Held(c) => got[c][i] < conn[c].event)
    /\ \A i, j \in 1 .. Len(got[c]) : i < j => got[c][i] < got[c][j]

\* A connection is in the map from before it has a receiver until after it has
\* closed; without a stream it has neither fetched nor been sent
\* anything.
Registered(c) ==
    /\ conn[c].at \notin {"new", "gone"} => c \in DOMAIN subs
    /\ ~Streaming(c) => fetched[c] = MaxChanges /\ got[c] = <<>> /\ late[c] = 0

\* After a late event the next one is written only if it is wanted.
LateOnce(c) ==
    /\ late[c] <= 1
    /\ late[c] = 1 /\ conn[c].at = "writing" => Wanted(c, log[conn[c].event])

\* The client was sent the event at position p, or will be, or lagged.
Served(c, p) ==
    \/ next[c] <= p
    \/ conn[c].at # "streaming" /\ conn[c].event = p
    \/ \E k \in 1 .. Len(got[c]) : got[c][k] = p
    \/ p \in missed[c]

\* NoChangeMissed for one client.
NothingMissed(c) ==
    Streaming(c) =>
        \A n \in announced : n > fetched[c] =>
            \E p \in 1 .. Len(log) : log[p].change = n /\ (Owed(c, p) => Served(c, p))

ClientInv(c) == /\ Position(c)
                /\ InOrder(c)
                /\ Registered(c)
                /\ LateOnce(c)
                /\ NothingMissed(c)

Inv == Ledger /\ \A c \in Clients : ClientInv(c)

IInv == TypeOK /\ Inv

----------------------------------------------------------------------------
(* Facts that several steps of the proof need                              *)

\* The initial state satisfies the invariant: nothing is committed or sent.
LEMMA InitInv == Init => IInv
  <1> SUFFICES ASSUME Init PROVE IInv
    OBVIOUS
  <1> USE ChannelAssumption DEF Init
  <1>1. TypeOK
    BY DEF TypeOK, ConnState
  <1>2. Ledger
    BY FS_EmptySet DEF Ledger
  <1>3. ASSUME NEW c \in Clients PROVE ClientInv(c)
    BY DEF ClientInv, Position, InOrder, Registered, LateOnce, NothingMissed, Held,
           Receiving, Streaming
  <1> QED
    BY <1>1, <1>2, <1>3 DEF IInv, Inv

\* What the type invariant says of the event that a stream holds.
LEMMA HeldEvent ==
  ASSUME TypeOK, NEW c \in Clients, Held(c)
  PROVE  conn[c].event \in 1 .. MaxChanges
  BY DEF TypeOK, ConnState, Held

\* What a sequence over a set contains is in the set.
LEMMA SeqElement ==
  ASSUME NEW S, NEW s \in Seq(S)
  PROVE  Len(s) \in Nat /\ \A i \in 1 .. Len(s) : s[i] \in S
  OBVIOUS

\* The positions a client was sent are numbers.
LEMMA GotNumbers ==
  ASSUME TypeOK, NEW c \in Clients
  PROVE  /\ got[c] \in Seq(1 .. MaxChanges) /\ Len(got[c]) \in Nat
         /\ \A i \in 1 .. Len(got[c]) : got[c][i] \in Nat
  <1>1. got[c] \in Seq(1 .. MaxChanges)
    BY DEF TypeOK
  <1>2. Len(got[c]) \in Nat /\ \A i \in 1 .. Len(got[c]) : got[c][i] \in 1 .. MaxChanges
    BY <1>1, SeqElement
  <1>3. \A n \in 1 .. MaxChanges : n \in Nat
    OBVIOUS
  <1> QED
    BY <1>1, <1>2, <1>3

\* The log never gets longer than the number of committed changes.
LEMMA LogBound ==
  ASSUME TypeOK, Ledger
  PROVE  /\ Len(log) \in Nat
         /\ IsFiniteSet(announced)
         /\ Len(log) <= changes
         /\ Len(log) <= MaxChanges
  <1>1. changes \in Nat /\ changes <= MaxChanges /\ MaxChanges \in Nat /\ Len(log) \in Nat
    BY ChannelAssumption DEF TypeOK
  <1>2. IsFiniteSet(1 .. changes) /\ Cardinality(1 .. changes) = changes
    <2>1. 1 \in Int /\ changes \in Int
      BY <1>1
    <2>2. /\ IsFiniteSet(1 .. changes)
          /\ Cardinality(1 .. changes) = IF 1 > changes THEN 0 ELSE changes - 1 + 1
      BY <2>1, FS_Interval
    <2> QED
      BY <1>1, <2>2
  <1>3. IsFiniteSet(announced) /\ Cardinality(announced) <= changes
    <2>1. announced \in SUBSET (1 .. changes)
      BY DEF Ledger
    <2> QED
      BY <1>2, <2>1, FS_Subset
  <1>4. Cardinality(announced) \in Nat
    BY <1>3, FS_CardinalityType
  <1> QED
    BY <1>1, <1>3, <1>4 DEF Ledger

\* The oldest event of the channel is an event of the log, or the next one.
LEMMA OldestBound ==
  ASSUME TypeOK
  PROVE  Oldest \in 1 .. Len(log) + 1
  BY ChannelAssumption DEF Oldest, TypeOK

\* Any step keeps the ledger: a handler's change is a new one, and it is
\* announced when its event goes.
LEMMA LedgerStep ==
  ASSUME TypeOK, Ledger, [Next]_vars
  PROVE  Ledger'
  <1> USE ChannelAssumption DEF TypeOK
  <1>1. ASSUME NEW rec \in Records, NEW viewers \in SUBSET Clients, Commit(rec, viewers)
        PROVE  Ledger'
    BY <1>1 DEF Commit, Ledger, hub, history, Event
  <1>2. ASSUME NEW event \in committed, Broadcast(event) PROVE Ledger'
    <2>1. event.change \in 1 .. changes /\ event.change \notin announced
      BY DEF Ledger
    <2>2. Cardinality(announced') = Cardinality(announced) + 1
      BY <1>2, <2>1, LogBound, FS_AddElement DEF Broadcast
    <2>3. Len(log') <= Len(log) + 1
      BY <1>2 DEF Broadcast
    <2>4. Cardinality(announced) \in Nat /\ Len(log) \in Nat /\ Len(log') \in Nat
      BY <1>2, LogBound, FS_CardinalityType DEF Broadcast
    <2>5. Len(log') <= Cardinality(announced')
      BY <2>2, <2>3, <2>4 DEF Ledger
    <2>6. announced' \subseteq 1 .. changes'
      BY <1>2, <2>1 DEF Broadcast, Ledger
    <2>7. \A e \in committed' :
            e \in committed /\ e.change \in 1 .. changes' /\ e.change \notin announced'
      BY <1>2 DEF Broadcast, Ledger
    <2> QED
      BY <2>5, <2>6, <2>7 DEF Ledger
  <1>3. ASSUME NEW event \in committed, Abandon(event) PROVE Ledger'
    BY <1>3 DEF Abandon, Ledger, hub, history
  <1>4. CASE Crash
    BY <1>4 DEF Crash, Drop, Ledger
  <1>5. ASSUME UNCHANGED <<changes, committed, log, announced>> PROVE Ledger'
    BY <1>5 DEF Ledger
  <1>6. ASSUME NEW c \in Clients,
               Register(c) \/ Stream(c) \/ Close(c) \/ Disconnect(c) \/ Fetch(c)
        PROVE  UNCHANGED <<changes, committed, log, announced>>
    BY <1>6 DEF Register, Stream, Subscribe, Greet, Receive, Lag, Check, Write, Close,
                Drop, Disconnect, Fetch, hub, history
  <1>7. ASSUME NEW c \in Clients, NEW topics \in TopicSets, SetSubscriptions(c, topics)
        PROVE  UNCHANGED <<changes, committed, log, announced>>
    BY <1>7 DEF SetSubscriptions
  <1>8. ASSUME UNCHANGED vars PROVE UNCHANGED <<changes, committed, log, announced>>
    BY <1>8 DEF vars, history
  <1> QED
    BY <1>1, <1>2, <1>3, <1>4, <1>5, <1>6, <1>7, <1>8 DEF Next

\* Any step keeps every variable in its type.
LEMMA TypeStep ==
  ASSUME TypeOK, Inv, [Next]_vars
  PROVE  TypeOK'
  <1>a. Len(log) \in Nat /\ Len(log) <= MaxChanges /\ MaxChanges \in Nat
    BY LogBound, ChannelAssumption DEF Inv
  <1>b. Oldest \in 1 .. Len(log) + 1
    BY OldestBound
  <1>h. \A c \in Clients : conn[c].at = "writing" => conn[c].event \in 1 .. MaxChanges
    BY HeldEvent DEF Held
  <1> USE ChannelAssumption DEF TypeOK
  <1>1. ASSUME NEW rec \in Records, NEW viewers \in SUBSET Clients, Commit(rec, viewers)
        PROVE  TypeOK'
    BY <1>1 DEF Commit, Event, hub, history
  <1>2. ASSUME NEW event \in committed, Broadcast(event) PROVE TypeOK'
    <2>1. event \in Event /\ event.change \in 1 .. MaxChanges
      BY DEF Event
    <2>2. log' \in Seq(Event) /\ Len(log') \in Nat /\ Len(log) \in Nat /\ Len(log') >= Len(log)
      BY <1>2, <2>1 DEF Broadcast
    <2>3. next' \in [Clients -> 0 .. Len(log') + 1]
      BY <1>2, <2>2 DEF Broadcast, hub
    <2> QED
      BY <1>2, <2>1, <2>2, <2>3 DEF Broadcast, hub
  <1>3. ASSUME NEW event \in committed, Abandon(event) PROVE TypeOK'
    BY <1>3 DEF Abandon, hub, history
  <1>4. ASSUME NEW c \in Clients, Register(c) PROVE TypeOK'
    BY <1>4 DEF Register, ConnState, Topics, history
  <1>5. ASSUME NEW c \in Clients, Subscribe(c) PROVE TypeOK'
    BY <1>5 DEF Subscribe, ConnState, history
  <1>6. ASSUME NEW c \in Clients, Greet(c) PROVE TypeOK'
    BY <1>6 DEF Greet, ConnState, history
  <1>7. ASSUME NEW c \in Clients, Receive(c) PROVE TypeOK'
    <2>1. next[c] \in 1 .. Len(log) /\ Len(log) <= MaxChanges
      BY <1>7, <1>a, <1>b DEF Receive
    <2>2. [at |-> "checking", event |-> next[c]] \in ConnState
      BY <1>a, <2>1 DEF ConnState
    <2>3. next' \in [Clients -> 0 .. Len(log) + 1]
      BY <1>7, <1>a, <2>1 DEF Receive, After
    <2> QED
      BY <1>7, <2>2, <2>3 DEF Receive, history
  <1>8. ASSUME NEW c \in Clients, Lag(c) PROVE TypeOK'
    <2>1. next[c] # 0
      BY <1>8 DEF Lag, Inv, ClientInv, Position, Receiving, Streaming
    <2>2. next[c] .. Oldest - 1 \subseteq 1 .. MaxChanges
      BY <2>1, <1>a, <1>b
    <2>3. next' \in [Clients -> 0 .. Len(log) + 1]
      BY <1>8, <1>b DEF Lag
    <2>4. missed' \in [Clients -> SUBSET (1 .. MaxChanges)]
      BY <1>8, <2>2 DEF Lag
    <2> QED
      BY <1>8, <2>3, <2>4 DEF Lag
  <1>9. ASSUME NEW c \in Clients, Check(c) PROVE TypeOK'
    <2>1. conn'[c] \in ConnState
      BY <1>9 DEF Check, ConnState
    <2> QED
      BY <1>9, <2>1 DEF Check, history
  <1>10. ASSUME NEW c \in Clients, Write(c) PROVE TypeOK'
    <2>1. got' \in [Clients -> Seq(1 .. MaxChanges)]
      BY <1>10, <1>h DEF Write
    <2>2. late' \in [Clients -> Nat] /\ conn' \in [Clients -> ConnState]
      BY <1>10 DEF Write, ConnState
    <2> QED
      BY <1>10, <2>1, <2>2 DEF Write
  <1>11. ASSUME NEW c \in Clients, Close(c) PROVE TypeOK'
    <2>1. conn' \in [Clients -> ConnState]
      BY <1>11 DEF Close, ConnState
    <2>2. next' \in [Clients -> 0 .. Len(log) + 1]
      BY <1>11, <1>a DEF Close, Drop
    <2>3. fetched' \in [Clients -> 0 .. MaxChanges]
      BY <1>11, <1>a DEF Close, Drop
    <2>4. got' \in [Clients -> Seq(1 .. MaxChanges)]
      <3>1. <<>> \in Seq(1 .. MaxChanges)
        OBVIOUS
      <3>2. got' = [d \in Clients |-> IF d \in {c} THEN <<>> ELSE got[d]]
        BY <1>11 DEF Close, Drop
      <3> QED
        BY <3>1, <3>2
    <2>5. /\ missed' \in [Clients -> SUBSET (1 .. MaxChanges)]
          /\ late' \in [Clients -> Nat]
      BY <1>11 DEF Close, Drop
    <2> QED
      BY <1>11, <2>1, <2>2, <2>3, <2>4, <2>5 DEF Close, Drop
  <1>12. ASSUME NEW c \in Clients, Disconnect(c) PROVE TypeOK'
    BY <1>12 DEF Disconnect, ConnState, history
  <1>13. ASSUME NEW c \in Clients, Fetch(c) PROVE TypeOK'
    BY <1>13 DEF Fetch, hub
  <1>14. ASSUME NEW c \in Clients, NEW topics \in TopicSets, SetSubscriptions(c, topics)
         PROVE  TypeOK'
    BY <1>14 DEF SetSubscriptions, Topics
  <1>15. CASE Crash
    BY <1>15 DEF Crash, Drop, ConnState
  <1>16. CASE UNCHANGED vars
    BY <1>16 DEF vars, hub, history
  <1> QED
    BY <1>1, <1>2, <1>3, <1>4, <1>5, <1>6, <1>7, <1>8, <1>9, <1>10, <1>11, <1>12,
       <1>13, <1>14, <1>15, <1>16 DEF Next, Stream

----------------------------------------------------------------------------
(* The steps of the record handlers                                        *)

\* A client keeps its part of the invariant in every step that leaves the log
\* and what is announced as they are, and touches neither its connection nor
\* its subscriptions nor its history.
LEMMA Untouched ==
  ASSUME Inv, NEW c \in Clients, UNCHANGED <<log, announced>>,
         conn'[c] = conn[c], next'[c] = next[c], fetched'[c] = fetched[c],
         got'[c] = got[c], missed'[c] = missed[c], late'[c] = late[c],
         c \in DOMAIN subs' <=> c \in DOMAIN subs,
         c \in DOMAIN subs => subs'[c] = subs[c]
  PROVE  ClientInv(c)'
  <1> USE DEF Inv, ClientInv
  <1>1. Position(c)' /\ InOrder(c)' /\ Registered(c)'
    BY DEF Position, InOrder, Registered, Held, Receiving, Streaming
  <1>2. \A e : Wanted(c, e)' <=> Wanted(c, e)
    BY DEF Wanted
  <1>3. LateOnce(c)'
    BY <1>2 DEF LateOnce, Wanted
  <1>4. NothingMissed(c)'
    BY DEF NothingMissed, Owed, Wanted, Served, Streaming
  <1> QED
    BY <1>1, <1>3, <1>4

\* A broadcast reaches every client that is streaming: its event comes last in
\* the log, and no receiver is behind the end of it.
LEMMA BroadcastStep ==
  ASSUME TypeOK, Inv, NEW event \in committed, Broadcast(event), NEW c \in Clients
  PROVE  ClientInv(c)'
  <1> USE DEF Inv, ClientInv
  <1>1. UNCHANGED <<changes, subs, conn, next, fetched, got, missed, late>>
    BY DEF Broadcast, hub
  <1>2. /\ Len(log) \in Nat /\ Len(log') \in Nat /\ Len(log) <= Len(log')
        /\ \A p \in 1 .. Len(log) : log'[p] = log[p]
    BY DEF Broadcast, TypeOK
  <1>3. Position(c)' /\ InOrder(c)' /\ Registered(c)'
    <2>1. Position(c) /\ InOrder(c) /\ Registered(c)
      OBVIOUS
    <2>2. Position(c)'
      BY <1>1, <1>2, <2>1 DEF Position, Held, Receiving, Streaming
    <2>3. InOrder(c)'
      BY <1>1, <2>1 DEF InOrder, Held
    <2>4. Registered(c)'
      BY <1>1, <2>1 DEF Registered, Streaming
    <2> QED
      BY <2>2, <2>3, <2>4
  <1>4. LateOnce(c)'
    BY <1>1, <1>2 DEF LateOnce, Wanted, Position, Held
  <1>5. NothingMissed(c)'
    <2> SUFFICES ASSUME Streaming(c)', NEW n \in announced', n > fetched'[c]
                 PROVE  \E p \in 1 .. Len(log') :
                            log'[p].change = n /\ (Owed(c, p)' => Served(c, p)')
      BY DEF NothingMissed
    <2>1. Streaming(c) /\ n > fetched[c]
      BY <1>1 DEF Streaming
    <2>2. CASE n \in announced
      <3>1. PICK p \in 1 .. Len(log) : log[p].change = n /\ (Owed(c, p) => Served(c, p))
        BY <2>1, <2>2 DEF NothingMissed
      <3>2. p \in 1 .. Len(log') /\ log'[p] = log[p]
        BY <1>2
      <3> QED
        BY <1>1, <3>1, <3>2 DEF Owed, Wanted, Served
    <2>3. CASE n \notin announced
      <3>1. n = event.change
        BY <2>3 DEF Broadcast
      <3>2. log' = Append(log, event)
        BY <2>1 DEF Broadcast, Receiving
      <3>3. Len(log') = Len(log) + 1 /\ log'[Len(log) + 1] = event
        BY <3>2 DEF TypeOK
      <3>4. next'[c] <= Len(log) + 1
        BY <1>1, <1>2 DEF TypeOK
      <3> QED
        BY <1>2, <3>1, <3>3, <3>4 DEF Served
    <2> QED
      BY <2>2, <2>3
  <1> QED
    BY <1>3, <1>4, <1>5

----------------------------------------------------------------------------
(* The steps of a stream                                                   *)

\* The first fetch comes after PB_CONNECT: a stream that starts owes nothing.
LEMMA OpenStep ==
  ASSUME TypeOK, Inv, NEW c \in Clients, Subscribe(c) \/ Greet(c)
  PROVE  ClientInv(c)'
  <1> USE DEF Inv, ClientInv
  <1>1. fetched[c] = MaxChanges /\ got[c] = <<>> /\ late[c] = 0 /\ c \in DOMAIN subs
    BY DEF Subscribe, Greet, Streaming, Registered
  <1>a. ~Held(c)'
    BY DEF Subscribe, Greet, Held, TypeOK
  <1>2. UNCHANGED <<log, subs, announced, fetched, got, late>>
    BY DEF Subscribe, Greet, history
  <1>3. next'[c] # 0
    BY DEF Subscribe, Greet, Position, Receiving, TypeOK
  <1>4. Position(c)' /\ InOrder(c)'
    BY <1>1, <1>2, <1>3, <1>a DEF Position, InOrder
  <1>5. Registered(c)' /\ LateOnce(c)'
    BY <1>1, <1>2, <1>a DEF Registered, LateOnce, Held
  <1>6. NothingMissed(c)'
    BY <1>1, <1>2 DEF NothingMissed, TypeOK
  <1> QED
    BY <1>4, <1>5, <1>6

\* The receiver takes the event at its position, and the stream holds it.
LEMMA ReceiveStep ==
  ASSUME TypeOK, Inv, NEW c \in Clients, Receive(c)
  PROVE  ClientInv(c)'
  <1> USE DEF Inv, ClientInv
  <1>1. /\ next[c] \in 1 .. Len(log) /\ Len(log) \in Nat
        /\ conn'[c] = [at |-> "checking", event |-> next[c]]
        /\ next'[c] = next[c] + 1
        /\ conn[c].at = "streaming"
    BY OldestBound DEF Receive, After, TypeOK
  <1>2. UNCHANGED <<log, subs, announced, fetched, got, missed, late>>
    BY DEF Receive, history
  <1>3. Position(c)' /\ Registered(c)' /\ LateOnce(c)'
    BY <1>1, <1>2 DEF Position, Registered, LateOnce, Held, Receiving, Streaming
  <1>4. InOrder(c)'
    BY <1>1, <1>2, GotNumbers DEF InOrder, Held
  <1>5. \A p \in 1 .. Len(log) : Served(c, p) => Served(c, p)'
    BY <1>1, <1>2 DEF Served
  <1>6. NothingMissed(c)'
    BY <1>1, <1>2, <1>5 DEF NothingMissed, Streaming, Owed, Wanted
  <1> QED
    BY <1>3, <1>4, <1>6

\* A receiver that lagged records what it skipped.
LEMMA LagStep ==
  ASSUME TypeOK, Inv, NEW c \in Clients, Lag(c)
  PROVE  ClientInv(c)'
  <1> USE DEF Inv, ClientInv
  <1>1. /\ Oldest \in 1 .. Len(log) + 1 /\ Len(log) \in Nat
        /\ next[c] \in Nat /\ next[c] < Oldest
        /\ next'[c] = Oldest
        /\ missed'[c] = missed[c] \cup (next[c] .. Oldest - 1)
        /\ conn[c].at = "streaming"
    BY OldestBound DEF Lag, TypeOK
  <1>2. UNCHANGED <<log, subs, conn, announced, fetched, got, late>>
    BY DEF Lag
  <1>3. Position(c)' /\ Registered(c)' /\ LateOnce(c)'
    BY <1>1, <1>2 DEF Position, Registered, LateOnce, Held, Receiving, Streaming
  <1>4. InOrder(c)'
    <2>1. \A i \in 1 .. Len(got[c]) : got[c][i] < next[c] /\ got[c][i] \in Nat
      BY GotNumbers DEF InOrder
    <2>2. \A i \in 1 .. Len(got[c]) : got[c][i] < next'[c]
      BY <1>1, <2>1
    <2>3. ~Held(c)'
      BY <1>1, <1>2 DEF Held
    <2> QED
      BY <1>2, <2>2, <2>3 DEF InOrder
  <1>5. \A p \in 1 .. Len(log) : Served(c, p) => Served(c, p)'
    BY <1>1, <1>2 DEF Served
  <1>6. NothingMissed(c)'
    BY <1>1, <1>2, <1>5 DEF NothingMissed, Streaming, Owed, Wanted
  <1> QED
    BY <1>3, <1>4, <1>6

\* An event that should_client_receive turns away is not owed to the client.
LEMMA CheckStep ==
  ASSUME TypeOK, Inv, NEW c \in Clients, Check(c)
  PROVE  ClientInv(c)'
  <1> USE DEF Inv, ClientInv
  <1>1. UNCHANGED <<log, subs, next, announced, fetched, got, missed, late>>
    BY DEF Check, history
  <1>2. conn[c].at = "checking" /\ Held(c) /\ Streaming(c) /\ c \in DOMAIN subs
    BY DEF Check, Held, Streaming, Registered
  <1>3. CASE ShouldReceive(c, log[conn[c].event])
    <2>1. conn'[c].at = "writing" /\ conn'[c].event = conn[c].event
      BY <1>2, <1>3 DEF Check, TypeOK, ConnState
    <2>2. Position(c)' /\ InOrder(c)' /\ Registered(c)'
      BY <1>1, <1>2, <2>1 DEF Position, InOrder, Registered, Held, Receiving, Streaming
    <2>3. LateOnce(c)'
      BY <1>1, <1>3, <2>1 DEF LateOnce, ShouldReceive, Matches, Wanted
    <2>4. NothingMissed(c)'
      BY <1>1, <1>2, <2>1 DEF NothingMissed, Owed, Wanted, Served
    <2> QED
      BY <2>2, <2>3, <2>4
  <1>4. CASE ~ShouldReceive(c, log[conn[c].event])
    <2>1. conn'[c] = [at |-> "streaming"]
      BY <1>2, <1>4 DEF Check, TypeOK
    <2>2. Position(c)' /\ InOrder(c)' /\ Registered(c)' /\ LateOnce(c)'
      BY <1>1, <1>2, <2>1 DEF Position, InOrder, Registered, LateOnce, Held, Receiving,
                              Streaming
    <2>3. ~Owed(c, conn[c].event)
      BY <1>2, <1>4 DEF ShouldReceive, Matches, Owed, Wanted
    <2>4. \A p \in 1 .. Len(log) : Owed(c, p) /\ Served(c, p) => Served(c, p)'
      BY <1>1, <2>1, <2>3 DEF Served
    <2>5. NothingMissed(c)'
      BY <1>1, <1>2, <2>1, <2>4 DEF NothingMissed, Owed, Wanted
    <2> QED
      BY <2>2, <2>5
  <1> QED
    BY <1>3, <1>4

\* A write adds the event the stream holds to what the client was sent; a
\* second late one would not have passed the check.
LEMMA WriteStep ==
  ASSUME TypeOK, Inv, NEW c \in Clients, Write(c)
  PROVE  ClientInv(c)'
  <1> USE DEF Inv, ClientInv
  <1> DEFINE p == conn[c].event
  <1>1. UNCHANGED <<log, subs, next, announced, fetched, missed>>
    BY DEF Write
  <1>2. /\ conn[c].at = "writing" /\ Held(c) /\ Streaming(c) /\ c \in DOMAIN subs
        /\ p \in 1 .. Len(log) /\ next[c] = p + 1 /\ p \in Nat
    BY DEF Write, Held, Streaming, Registered, Position
  <1>3. conn'[c] = [at |-> "streaming"]
    BY DEF Write, TypeOK
  <1>4. /\ p \in 1 .. MaxChanges
        /\ got'[c] = Append(got[c], p)
    BY <1>2, HeldEvent DEF Write, TypeOK
  <1>5. /\ Len(got'[c]) = Len(got[c]) + 1
        /\ got'[c][Len(got[c]) + 1] = p
        /\ \A i \in 1 .. Len(got[c]) : got'[c][i] = got[c][i]
    BY <1>4, GotNumbers
  <1>6. Position(c)' /\ Registered(c)'
    BY <1>1, <1>2, <1>3 DEF Position, Registered, Held, Receiving, Streaming
  <1>7. InOrder(c)'
    <2>1. \A i \in 1 .. Len(got[c]) : got[c][i] < p
      BY <1>2 DEF InOrder
    <2>2. \A i \in 1 .. Len(got'[c]) :
            i \in 1 .. Len(got[c]) \/ (i = Len(got[c]) + 1 /\ i \notin 1 .. Len(got[c]))
      BY <1>5, GotNumbers
    <2>3. ASSUME NEW i \in 1 .. Len(got'[c]) PROVE got'[c][i] < next'[c]
      <3>1. CASE i \in 1 .. Len(got[c])
        <4>1. got'[c][i] = got[c][i] /\ got[c][i] < p /\ got[c][i] \in Nat
          BY <1>5, <2>1, <3>1, GotNumbers
        <4> QED
          BY <1>1, <1>2, <4>1
      <3>2. CASE i = Len(got[c]) + 1
        BY <1>1, <1>2, <1>5, <3>2
      <3> QED
        BY <2>2, <3>1, <3>2
    <2>4. ASSUME NEW i \in 1 .. Len(got'[c]), NEW j \in 1 .. Len(got'[c]), i < j
          PROVE  got'[c][i] < got'[c][j]
      <3>1. i \in 1 .. Len(got[c])
        BY <1>5, <2>2, <2>4, GotNumbers
      <3>2. CASE j \in 1 .. Len(got[c])
        BY <1>5, <2>4, <3>1, <3>2 DEF InOrder
      <3>3. CASE j = Len(got[c]) + 1
        BY <1>5, <2>1, <3>1, <3>3
      <3> QED
        BY <2>2, <3>2, <3>3
    <2> QED
      BY <1>3, <2>3, <2>4 DEF InOrder, Held
  <1>8. LateOnce(c)'
    <2>1. late'[c] = IF Wanted(c, log[p]) THEN late[c] ELSE late[c] + 1
      BY DEF Write, TypeOK
    <2>2. late[c] \in Nat
      BY DEF TypeOK
    <2> QED
      BY <1>2, <1>3, <2>1, <2>2 DEF LateOnce
  <1>9. ASSUME NEW q \in 1 .. Len(log), Served(c, q) PROVE Served(c, q)'
    <2>1. Len(got[c]) + 1 \in 1 .. Len(got'[c])
          /\ \A i \in 1 .. Len(got[c]) : i \in 1 .. Len(got'[c])
      BY <1>5, GotNumbers
    <2> QED
      BY <1>1, <1>2, <1>5, <1>9, <2>1 DEF Served
  <1>10. NothingMissed(c)'
    BY <1>1, <1>2, <1>9 DEF NothingMissed, Owed, Wanted
  <1> QED
    BY <1>6, <1>7, <1>8, <1>10

----------------------------------------------------------------------------
(* The steps of the client and of the process                              *)

\* New subscriptions cancel what was owed and late under the old ones.
LEMMA SubscriptionStep ==
  ASSUME TypeOK, Inv, NEW c \in Clients, NEW topics \in TopicSets, SetSubscriptions(c, topics)
  PROVE  ClientInv(c)'
  <1> USE DEF Inv, ClientInv
  <1>1. UNCHANGED <<changes, log, conn, next, announced, got, missed>>
    BY DEF SetSubscriptions
  <1>2. fetched'[c] = MaxChanges /\ late'[c] = 0 /\ c \in DOMAIN subs'
    BY DEF SetSubscriptions, TypeOK
  <1>3. Position(c)' /\ InOrder(c)' /\ Registered(c)' /\ LateOnce(c)'
    <2>1. Position(c) /\ InOrder(c) /\ Registered(c)
      OBVIOUS
    <2>2. Position(c)'
      BY <1>1, <2>1 DEF Position, Held, Receiving, Streaming
    <2>3. InOrder(c)'
      BY <1>1, <2>1 DEF InOrder, Held
    <2>4. Registered(c)'
      BY <1>1, <1>2, <2>1 DEF Registered, Streaming
    <2>5. LateOnce(c)'
      BY <1>2 DEF LateOnce
    <2> QED
      BY <2>2, <2>3, <2>4, <2>5
  <1>4. NothingMissed(c)'
    BY <1>1, <1>2, ChannelAssumption DEF NothingMissed, TypeOK
  <1> QED
    BY <1>3, <1>4

\* What is fetched contains every change whose event was announced.
LEMMA FetchStep ==
  ASSUME TypeOK, Inv, NEW c \in Clients, Fetch(c)
  PROVE  ClientInv(c)'
  <1> USE DEF Inv, ClientInv
  <1>1. UNCHANGED <<changes, log, subs, conn, next, announced, got, missed, late>>
    BY DEF Fetch, hub
  <1>2. fetched'[c] = changes /\ Streaming(c) /\ c \in DOMAIN subs
    BY DEF Fetch, TypeOK
  <1>3. Position(c)' /\ InOrder(c)' /\ Registered(c)' /\ LateOnce(c)'
    BY <1>1, <1>2 DEF Position, InOrder, Registered, LateOnce, Held, Receiving,
                      Streaming, Wanted
  <1>4. NothingMissed(c)'
    BY <1>1, <1>2, ChannelAssumption DEF NothingMissed, Ledger, TypeOK
  <1> QED
    BY <1>3, <1>4

\* A connection that has no stream after a step owes nothing.
LEMMA NoStream ==
  ASSUME NEW c \in Clients,
         conn'[c].at \notin {"greeting", "streaming", "checking", "writing"},
         conn'[c].at \notin {"new", "gone"} => c \in DOMAIN subs',
         fetched'[c] = MaxChanges, got'[c] = <<>>, late'[c] = 0
  PROVE  ClientInv(c)'
  <1>1. ~Receiving(c)' /\ ~Streaming(c)' /\ ~Held(c)' /\ Len(got'[c]) = 0
    BY DEF Receiving, Streaming, Held
  <1> QED
    BY <1>1 DEF ClientInv, Position, InOrder, Registered, LateOnce, NothingMissed

\* The end of the process leaves no stream; a connection not yet made stays.
LEMMA CrashStep ==
  ASSUME TypeOK, Inv, NEW c \in Clients, Crash
  PROVE  ClientInv(c)'
  <1>1. conn'[c].at \in {"new", "gone"}
    BY DEF Crash
  <1>2. fetched'[c] = MaxChanges /\ got'[c] = <<>> /\ late'[c] = 0
    BY DEF Crash, Drop
  <1> QED
    BY <1>1, <1>2, NoStream

\* A connection that is put into the map, that closes or that leaves the map
\* has no stream; what is said of the other clients stays.
LEMMA LifeStep ==
  ASSUME TypeOK, Inv, NEW c \in Clients, Register(c) \/ Close(c) \/ Disconnect(c)
  PROVE  ClientInv(c)'
  <1>1. CASE Register(c)
    <2>1. conn'[c].at = "registered" /\ c \in DOMAIN subs'
      BY <1>1 DEF Register, TypeOK
    <2>2. fetched'[c] = MaxChanges /\ got'[c] = <<>> /\ late'[c] = 0
      BY <1>1 DEF Register, Inv, ClientInv, Registered, Streaming, history
    <2> QED
      BY <2>1, <2>2, NoStream
  <1>2. CASE Close(c)
    <2>1. conn'[c].at = "closed" /\ c \in DOMAIN subs'
      BY <1>2 DEF Close, Receiving, Streaming, Inv, ClientInv, Registered, TypeOK
    <2>2. fetched'[c] = MaxChanges /\ got'[c] = <<>> /\ late'[c] = 0
      BY <1>2 DEF Close, Drop
    <2> QED
      BY <2>1, <2>2, NoStream
  <1>3. CASE Disconnect(c)
    <2>1. conn'[c].at = "gone"
      BY <1>3 DEF Disconnect, TypeOK
    <2>2. fetched'[c] = MaxChanges /\ got'[c] = <<>> /\ late'[c] = 0
      BY <1>3 DEF Disconnect, Inv, ClientInv, Registered, Streaming, history
    <2> QED
      BY <2>1, <2>2, NoStream
  <1> QED
    BY <1>1, <1>2, <1>3

\* What a connection or its client does leaves the other clients as they are.
LEMMA OtherClients ==
  ASSUME TypeOK, Inv, NEW c \in Clients, NEW d \in Clients \ {c},
         \/ Register(c) \/ Stream(c) \/ Close(c) \/ Disconnect(c) \/ Fetch(c)
         \/ \E topics \in TopicSets : SetSubscriptions(c, topics)
  PROVE  ClientInv(d)'
  <1> USE DEF TypeOK
  <1>1. UNCHANGED <<log, announced>>
    BY DEF Register, Stream, Subscribe, Greet, Receive, Lag, Check, Write, Close, Drop,
           Disconnect, Fetch, SetSubscriptions, history
  <1>2. conn'[d] = conn[d] /\ next'[d] = next[d]
    BY DEF Register, Stream, Subscribe, Greet, Receive, Lag, Check, Write, Close, Drop,
           Disconnect, Fetch, SetSubscriptions, hub
  <1>3. /\ fetched'[d] = fetched[d] /\ got'[d] = got[d]
        /\ missed'[d] = missed[d] /\ late'[d] = late[d]
    BY DEF Register, Stream, Subscribe, Greet, Receive, Lag, Check, Write, Close, Drop,
           Disconnect, Fetch, SetSubscriptions, history
  <1>4. /\ d \in DOMAIN subs' <=> d \in DOMAIN subs
        /\ d \in DOMAIN subs => subs'[d] = subs[d]
    BY DEF Register, Stream, Subscribe, Greet, Receive, Lag, Check, Write, Close,
           Disconnect, Fetch, SetSubscriptions, hub
  <1> QED
    BY <1>1, <1>2, <1>3, <1>4, Untouched

----------------------------------------------------------------------------
(* The theorems                                                            *)

\* Any step keeps the invariant.
LEMMA InvStep == IInv /\ [Next]_vars => IInv'
  <1> SUFFICES ASSUME TypeOK, Inv, [Next]_vars PROVE TypeOK' /\ Inv'
    BY DEF IInv
  <1>1. TypeOK' /\ Ledger'
    BY TypeStep, LedgerStep DEF Inv
  <1>2. ASSUME NEW c \in Clients PROVE ClientInv(c)'
    <2>1. ASSUME UNCHANGED <<log, hub, history>> PROVE ClientInv(c)'
      BY <2>1, Untouched DEF hub, history
    <2>2. ASSUME NEW rec \in Records, NEW viewers \in SUBSET Clients, Commit(rec, viewers)
          PROVE  ClientInv(c)'
      BY <2>1, <2>2 DEF Commit
    <2>3. ASSUME NEW event \in committed, Broadcast(event) PROVE ClientInv(c)'
      BY <2>3, BroadcastStep
    <2>4. ASSUME NEW event \in committed, Abandon(event) PROVE ClientInv(c)'
      BY <2>1, <2>4 DEF Abandon
    <2>5. ASSUME NEW d \in Clients,
                 Register(d) \/ Stream(d) \/ Close(d) \/ Disconnect(d) \/ Fetch(d)
          PROVE  ClientInv(c)'
      <3>1. CASE c # d
        BY <2>5, <3>1, OtherClients
      <3>2. CASE c = d
        BY <2>5, <3>2, LifeStep, OpenStep, ReceiveStep, LagStep, CheckStep, WriteStep,
           FetchStep DEF Stream
      <3> QED
        BY <3>1, <3>2
    <2>6. ASSUME NEW d \in Clients, NEW topics \in TopicSets, SetSubscriptions(d, topics)
          PROVE  ClientInv(c)'
      <3>1. CASE c # d
        BY <2>6, <3>1, OtherClients
      <3>2. CASE c = d
        BY <2>6, <3>2, SubscriptionStep
      <3> QED
        BY <3>1, <3>2
    <2>7. CASE Crash
      BY <2>7, CrashStep
    <2>8. CASE UNCHANGED vars
      BY <2>1, <2>8 DEF vars
    <2> QED
      BY <2>2, <2>3, <2>4, <2>5, <2>6, <2>7, <2>8 DEF Next
  <1> QED
    BY <1>1, <1>2 DEF Inv

\* The invariant holds in every reachable state.
LEMMA Invariant == Spec => []IInv
  BY InitInv, InvStep, PTL DEF Spec

\* Every variable keeps its type.
THEOREM RealtimeTypes == Spec => []TypeOK
  <1>1. IInv => TypeOK
    BY DEF IInv
  <1> QED
    BY <1>1, Invariant, PTL

\* A client that subscribes and then fetches misses no announced change.
THEOREM ChangesReachClients == Spec => []NoChangeMissed
  <1>1. IInv => NoChangeMissed
    BY DEF IInv, Inv, ClientInv, NothingMissed, Served, NoChangeMissed
  <1> QED
    BY <1>1, Invariant, PTL

\* A client is sent every event at most once, in the order of the broadcasts.
THEOREM EventsInOrder == Spec => []SentOnceInOrder
  <1>1. IInv => SentOnceInOrder
    BY DEF IInv, Inv, ClientInv, InOrder, SentOnceInOrder
  <1> QED
    BY <1>1, Invariant, PTL

\* After a change of its subscriptions a client gets at most one late event.
THEOREM OneLateEvent == Spec => []AtMostOneLateEvent
  <1>1. IInv => AtMostOneLateEvent
    BY DEF IInv, Inv, ClientInv, LateOnce, AtMostOneLateEvent
  <1> QED
    BY <1>1, Invariant, PTL
=============================================================================
