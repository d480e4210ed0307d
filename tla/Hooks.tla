------------------------------- MODULE Hooks -------------------------------
(* What surrounds a record operation: the registry of hooks (hooks.rs), the  *)
(* JavaScript engine with its reloads (zerobase-hooks), and the webhooks,    *)
(* whose deliveries go on as tasks of their own (webhooks/).                 *)
(* A record is what the callbacks have put into it; scripts, payloads and    *)
(* signatures are not modelled further.                                      *)
EXTENDS Integers, Sequences, FiniteSets

CONSTANTS Requests,      \* record operations that may be asked for
          Operations,    \* "create", "update", "delete"
          Collections,
          AnyCollection, \* a registration without collection filter
          Registered,    \* Seq of [hook, priority] in order of registration
          Files,         \* number of script files, in name order
          Sources,       \* what a file may hold: Seq of registrations
          Absent, Broken,
          Webhooks, Urls,
          Gone,          \* a webhook that is not in the table, no URL
          Admins,        \* concurrent calls of the webhook service
          MaxAttempts,
          Starts         \* the states behaviours start in: files and webhooks,
                         \*   and bounds on edits, changes, requests' crashes

Phases == {"before", "after"}
Hook == {"guard", "js", "webhooks"}
Effects == {"pass", "set", "refuse", "throw"}
Event == [operation : Operations, phase : Phases]
Registration == [event : Event, collection : Collections \cup {AnyCollection},
                 effect : Effects]

ASSUME HooksAssumption ==
    /\ Registered \in Seq([hook : Hook, priority : Int])
    /\ \A s \in Sources : s \in Seq(Registration)
    /\ Absent \notin Sources /\ Broken \notin Sources /\ Absent # Broken
    /\ MaxAttempts \in Nat \ {0}
    /\ Files \in Nat
    /\ Gone \notin [collection : Collections, url : Urls,
                    events : SUBSET Operations, enabled : BOOLEAN]

VARIABLES files,      \* [1..Files -> source, Absent or Broken], the directory
          changed,    \* an event of the watcher waits to be handled
          loaded,     \* the source of every file the engine holds
          loader,     \* the reload under way: its listing and the next file
          requests,   \* [Requests -> request state]
          webhooks,   \* [Webhooks -> Webhook or Gone], the table
          admins,     \* [Admins -> call of the webhook service]
          deliveries, \* [Requests -> [Webhooks -> Delivery]], the tasks
          left,       \* what is left of the bounds
          \* history
          born,       \* webhooks that were ever in the table
          arrived,    \* [Requests -> [Webhooks -> times the receiver got it]]
          log         \* [Requests -> [Webhooks -> Seq of [attempt, ok]]]

engine == <<files, changed, loaded, loader>>
config == <<webhooks, admins, born>>
tasks == <<deliveries, arrived, log>>
vars == <<files, changed, loaded, loader, requests, webhooks, admins,
          deliveries, left, born, arrived, log>>

Webhook == [collection : Collections, url : Urls,
            events : SUBSET Operations, enabled : BOOLEAN]
Delivery == [state : {"none", "posting", "logging", "waiting",
                      "delivered", "failed", "dropped"},
             attempt : 0 .. MaxAttempts, url : Urls \cup {Gone}, ok : BOOLEAN]
NoDelivery == [state |-> "none", attempt |-> 0, url |-> Gone, ok |-> FALSE]
Idle == [pc |-> "idle"]

\* A start may be with any files and webhooks; a change has one task per
\* webhook because the webhook's hook is registered once.
ASSUME StartsAssumption ==
    /\ \A start \in Starts :
          /\ start.files \in [1 .. Files -> Sources \cup {Absent, Broken}]
          /\ start.webhooks \in [Webhooks -> Webhook \cup {Gone}]
    /\ \A i, j \in DOMAIN Registered :
          Registered[i].hook = "webhooks" /\ Registered[j].hook = "webhooks" => i = j

NotLoading == [next |-> 0, listed |-> {}]

-----------------------------------------------------------------------------
(* The registry keeps its hooks sorted by priority, equals as they came.     *)
Place(i) == Cardinality({j \in DOMAIN Registered :
                \/ Registered[j].priority < Registered[i].priority
                \/ /\ Registered[j].priority = Registered[i].priority
                   /\ j <= i})

Chain == [p \in DOMAIN Registered |->
             Registered[CHOOSE i \in DOMAIN Registered : Place(i) = p].hook]

(* load_hooks: the files in order of their names up to the first bad one. *)
Usable(dir) ==
    {i \in 1 .. Files : dir[i] # Absent /\ \A j \in 1 .. i : dir[j] # Broken}
Scripts(dir) == [i \in Usable(dir) |-> dir[i]]

Init ==
    \E start \in Starts :
        /\ files = start.files
        /\ changed = FALSE
        /\ loaded = Scripts(start.files)
        /\ loader = NotLoading
        /\ requests = [r \in Requests |-> Idle]
        /\ webhooks = start.webhooks
        /\ admins = [a \in Admins |-> Idle]
        /\ deliveries = [r \in Requests |-> [w \in Webhooks |-> NoDelivery]]
        /\ left = start.left
        /\ born = {w \in Webhooks : start.webhooks[w] # Gone}
        /\ arrived = [r \in Requests |-> [w \in Webhooks |-> 0]]
        /\ log = [r \in Requests |-> [w \in Webhooks |-> <<>>]]

-----------------------------------------------------------------------------
(* The watcher and the reload.  An edit is an event; after a quiet while the *)
(* watcher takes all events there are and then reloads.                      *)
Edit ==
    /\ left.edits > 0
    /\ left' = [left EXCEPT !.edits = @ - 1]
    /\ \E i \in 1 .. Files, s \in Sources \cup {Absent, Broken} :
          /\ s # files[i]
          /\ files' = [files EXCEPT ![i] = s]
    /\ changed' = TRUE
    /\ UNCHANGED <<loaded, loader, requests, config, tasks>>

(* Faulty: the events are taken when the reload is over. *)
EventsAfterBug(step) == IF step = "end" THEN FALSE ELSE changed

EventsAfter(step) == IF step = "start" THEN FALSE ELSE changed

(* load_hooks takes the write lock, clears what was loaded and lists the     *)
(* directory.                                                                *)
Reload ==
    /\ changed
    /\ loader = NotLoading
    /\ changed' = EventsAfter("start")
    /\ loader' = [next |-> 1, listed |-> {i \in 1 .. Files : files[i] # Absent}]
    /\ loaded' = [i \in {} |-> Absent]
    /\ UNCHANGED <<files, requests, config, tasks, left>>

Readable(i) == files[i] \notin {Absent, Broken}

LoadFile ==
    /\ loader.next \in 1 .. Files
    /\ \/ /\ loader.next \notin loader.listed
          /\ UNCHANGED loaded
       \/ /\ loader.next \in loader.listed
          /\ Readable(loader.next)
          /\ loaded' = [i \in DOMAIN loaded \cup {loader.next} |->
                           IF i = loader.next THEN files[i] ELSE loaded[i]]
    /\ loader' = [loader EXCEPT !.next = @ + 1]
    /\ UNCHANGED <<files, changed, requests, config, tasks, left>>

(* All files are loaded, or one is gone or cannot be evaluated: the reload   *)
(* stops there, with the callbacks of the files before it.                   *)
EndReload ==
    /\ loader # NotLoading
    /\ \/ loader.next > Files
       \/ loader.next \in loader.listed /\ ~ Readable(loader.next)
    /\ loader' = NotLoading
    /\ changed' = EventsAfter("end")
    /\ UNCHANGED <<files, loaded, requests, config, tasks, left>>

-----------------------------------------------------------------------------
(* Callbacks, each known by its file and its place there.  A registration    *)
(* remembers its place among all registrations of its file; when it is       *)
(* executed the calls are counted per event, so what is invoked is the       *)
(* registration with that place among those of its event.                    *)
Matching(event, collection) ==
    UNION {{<<i, j>> : j \in {n \in DOMAIN loaded[i] :
                /\ loaded[i][n].event = event
                /\ loaded[i][n].collection \in {collection, AnyCollection}}} :
           i \in DOMAIN loaded}

Earlier(source, m) ==
    Cardinality({n \in 1 .. m - 1 : source[n].event = source[m].event})

(* Faulty: the counter is moved before it is compared.                       *)
InvokedBug(c) ==
    LET source == loaded[c[1]]
    IN  {<<c[1], m>> : m \in {n \in DOMAIN source :
            /\ source[n].event = source[c[2]].event
            /\ Earlier(source, n) = c[2] - 2}}

Invoked(c) ==
    LET source == loaded[c[1]]
    IN  {<<c[1], m>> : m \in {n \in DOMAIN source :
            /\ source[n].event = source[c[2]].event
            /\ Earlier(source, n) = c[2] - 1}}

Effect(c) == loaded[c[1]][c[2]].effect
Ran(event, collection) == UNION {Invoked(c) : c \in Matching(event, collection)}

(* e.httpError() is noticed; any other exception of a callback is dropped. *)
Refuses(ran) == \E c \in ran : Effect(c) = "refuse"

-----------------------------------------------------------------------------
(* A record operation: before-hooks, the change, after-hooks. *)
Set(r, state) == requests' = [requests EXCEPT ![r] = state]
Advance(r) == Set(r, [requests[r] EXCEPT !.at = @ + 1])
Finish(r, how) == Set(r, [requests[r] EXCEPT !.pc = how])
At(r, phase, hook) ==
    /\ requests[r].pc = phase
    /\ requests[r].at \in DOMAIN Chain
    /\ Chain[requests[r].at] = hook
EventOf(r) == [operation |-> requests[r].operation, phase |-> requests[r].pc]

Ask(r) ==
    /\ requests[r] = Idle
    /\ \E operation \in Operations, collection \in Collections :
          Set(r, [pc |-> "before", at |-> 1, operation |-> operation,
                  collection |-> collection, objected |-> FALSE])
    /\ UNCHANGED <<engine, config, tasks, left>>

(* A hook written in Rust, before the operation. *)
BeforeGuard(r) ==
    /\ At(r, "before", "guard")
    /\ Advance(r) \/ Finish(r, "refused")
    /\ UNCHANGED <<engine, config, tasks, left>>

(* The callbacks run under the read lock, so not during a reload.  objected  *)
(* remembers whether one that is registered for the event would refuse.      *)
BeforeScripts(r) ==
    /\ At(r, "before", "js")
    /\ loader = NotLoading
    /\ LET matching == Matching(EventOf(r), requests[r].collection)
           ran == Ran(EventOf(r), requests[r].collection)
       IN  IF Refuses(ran)
           THEN Finish(r, "refused")
           ELSE Set(r, [requests[r] EXCEPT !.at = @ + 1,
                            !.objected = Refuses(matching)])
    /\ UNCHANGED <<engine, config, tasks, left>>

BeforeWebhooks(r) ==
    /\ At(r, "before", "webhooks")
    /\ Advance(r)
    /\ UNCHANGED <<engine, config, tasks, left>>

(* The repository writes the change, or fails. *)
Persist(r) ==
    /\ requests[r].pc = "before"
    /\ requests[r].at > Len(Chain)
    /\ \/ Set(r, [requests[r] EXCEPT !.pc = "after", !.at = 1])
       \/ Finish(r, "failed")
    /\ UNCHANGED <<engine, config, tasks, left>>

(* Errors of after-hooks are logged and the chain goes on. *)
AfterGuard(r) ==
    /\ At(r, "after", "guard")
    /\ Advance(r)
    /\ UNCHANGED <<engine, config, tasks, left>>

AfterScripts(r) ==
    /\ At(r, "after", "js")
    /\ loader = NotLoading
    /\ Advance(r)
    /\ UNCHANGED <<engine, config, tasks, left>>

Active(w, r) ==
    /\ webhooks[w] # Gone
    /\ webhooks[w].enabled
    /\ webhooks[w].collection = requests[r].collection
    /\ requests[r].operation \in webhooks[w].events

(* One task per active webhook, with a copy of its settings; or the lookup   *)
(* fails and the change is not announced.                                    *)
AfterWebhooks(r) ==
    /\ At(r, "after", "webhooks")
    /\ Advance(r)
    /\ \/ deliveries' = [deliveries EXCEPT ![r] = [w \in Webhooks |->
             IF Active(w, r) THEN [state |-> "posting", attempt |-> 1,
                                   url |-> webhooks[w].url, ok |-> FALSE]
                             ELSE deliveries[r][w]]]
       \/ UNCHANGED deliveries
    /\ UNCHANGED <<engine, config, left, arrived, log>>

Answer(r) ==
    /\ requests[r].pc = "after"
    /\ requests[r].at > Len(Chain)
    /\ Finish(r, "done")
    /\ UNCHANGED <<engine, config, tasks, left>>

-----------------------------------------------------------------------------
(* A delivery. *)
Deliver(r, w, d) == deliveries' = [deliveries EXCEPT ![r][w] = d]

(* The answer is a 2xx, or another status or none: then the receiver may or  *)
(* may not have got the event, a timeout does not tell.                      *)
Post(r, w) ==
    /\ deliveries[r][w].state = "posting"
    /\ \E ok \in BOOLEAN, got \in {0, 1} :
          /\ ok => got = 1
          /\ Deliver(r, w, [deliveries[r][w] EXCEPT !.state = "logging", !.ok = ok])
          /\ arrived' = [arrived EXCEPT ![r][w] = @ + got]
    /\ UNCHANGED <<engine, config, requests, left, log>>

(* Faulty: a success is tried again. *)
AfterLogRepeatBug(d) == IF d.attempt = MaxAttempts THEN "failed" ELSE "waiting"

AfterLog(d) ==
    IF d.ok THEN "delivered"
    ELSE IF d.attempt = MaxAttempts THEN "failed" ELSE "waiting"

(* An attempt is logged; an error of that is only traced. *)
LogAttempt(r, w) ==
    /\ deliveries[r][w].state = "logging"
    /\ LET d == deliveries[r][w]
       IN  /\ Deliver(r, w, [d EXCEPT !.state = AfterLog(d)])
           /\ \/ log' = [log EXCEPT ![r][w] =
                            Append(@, [attempt |-> d.attempt, ok |-> d.ok])]
              \/ UNCHANGED log
    /\ UNCHANGED <<engine, config, requests, left, arrived>>

(* Faulty: the attempts are not counted. *)
AgainBug(d) == [d EXCEPT !.state = "posting"]

Again(d) == [d EXCEPT !.state = "posting", !.attempt = @ + 1]

(* The back-off is over. *)
Retry(r, w) ==
    /\ deliveries[r][w].state = "waiting"
    /\ Deliver(r, w, Again(deliveries[r][w]))
    /\ UNCHANGED <<engine, config, requests, left, arrived, log>>

-----------------------------------------------------------------------------
(* The webhook service. *)
Change == /\ left.changes > 0
          /\ left' = [left EXCEPT !.changes = @ - 1]

CreateWebhook(w) ==
    /\ Change
    /\ w \notin born
    /\ \E new \in Webhook : /\ new.events # {}
                            /\ webhooks' = [webhooks EXCEPT ![w] = new]
    /\ born' = born \cup {w}
    /\ UNCHANGED <<engine, requests, tasks, admins>>

(* update reads the webhook, lays the fields given over it ... *)
StartUpdate(a, w) ==
    /\ Change
    /\ admins[a] = Idle
    /\ webhooks[w] # Gone
    /\ \E merged \in {[webhooks[w] EXCEPT !.url = u] : u \in Urls}
                   \cup {[webhooks[w] EXCEPT !.enabled = e] : e \in BOOLEAN} :
          admins' = [admins EXCEPT ![a] =
                        [pc |-> "updating", webhook |-> w, merged |-> merged]]
    /\ UNCHANGED <<engine, requests, tasks, webhooks, born>>

Updated(w, merged) == IF webhooks[w] = Gone THEN Gone ELSE merged

(* ... and writes it whole; that no row was there to update is not noticed. *)
FinishUpdate(a) ==
    /\ admins[a].pc = "updating"
    /\ LET w == admins[a].webhook
       IN  webhooks' = [webhooks EXCEPT ![w] = Updated(w, admins[a].merged)]
    /\ admins' = [admins EXCEPT ![a] = Idle]
    /\ UNCHANGED <<engine, requests, tasks, born, left>>

DeleteWebhook(w) ==
    /\ Change
    /\ webhooks[w] # Gone
    /\ webhooks' = [webhooks EXCEPT ![w] = Gone]
    /\ UNCHANGED <<engine, requests, tasks, admins, born>>

(* The process ends and is started again, which takes scripts without fault: *)
(* requests and tasks are gone.                                              *)
Ended == {"none", "delivered", "failed", "dropped"}
Crash ==
    /\ left.crashes > 0
    /\ left' = [left EXCEPT !.crashes = @ - 1]
    /\ \A i \in 1 .. Files : files[i] # Broken
    /\ changed' = FALSE
    /\ loaded' = Scripts(files)
    /\ loader' = NotLoading
    /\ requests' = [r \in Requests |->
          IF requests[r].pc \in {"before", "after"}
          THEN [requests[r] EXCEPT !.pc = "lost"] ELSE requests[r]]
    /\ deliveries' = [r \in Requests |-> [w \in Webhooks |->
          IF deliveries[r][w].state \in Ended THEN deliveries[r][w]
          ELSE [deliveries[r][w] EXCEPT !.state = "dropped"]]]
    /\ admins' = [a \in Admins |-> Idle]
    /\ UNCHANGED <<files, webhooks, born, arrived, log>>

Task(r, w) == Post(r, w) \/ LogAttempt(r, w) \/ Retry(r, w)
Loading == Reload \/ LoadFile \/ EndReload

Next ==
    \/ Edit
    \/ Loading
    \/ Crash
    \/ \E r \in Requests :
          \/ Ask(r) \/ Persist(r) \/ Answer(r)
          \/ BeforeGuard(r) \/ BeforeScripts(r) \/ BeforeWebhooks(r)
          \/ AfterGuard(r) \/ AfterScripts(r) \/ AfterWebhooks(r)
          \/ \E w \in Webhooks : Task(r, w)
    \/ \E w \in Webhooks :
          \/ CreateWebhook(w) \/ DeleteWebhook(w)
          \/ \E a \in Admins : StartUpdate(a, w)
    \/ \E a \in Admins : FinishUpdate(a)

(* Tasks are scheduled, timers fire, the HTTP client has a timeout, and the  *)
(* watcher's thread runs; nobody has to ask for anything.                    *)
Fairness ==
    /\ WF_vars(Loading)
    /\ \A r \in Requests, w \in Webhooks : WF_vars(Task(r, w))

Spec == Init /\ [][Next]_vars /\ Fairness

-----------------------------------------------------------------------------
TypeOK ==
    /\ files \in [1 .. Files -> Sources \cup {Absent, Broken}]
    /\ changed \in BOOLEAN
    /\ DOMAIN loaded \subseteq 1 .. Files /\ \A i \in DOMAIN loaded : loaded[i] \in Sources
    /\ loader \in [next : 0 .. Files + 1, listed : SUBSET (1 .. Files)]
    /\ \A r \in Requests : requests[r] = Idle \/ requests[r] \in
          [pc : {"before", "after", "refused", "failed", "done", "lost"},
           at : 1 .. Len(Chain) + 1, operation : Operations,
           collection : Collections, objected : BOOLEAN]
    /\ webhooks \in [Webhooks -> Webhook \cup {Gone}]
    /\ \A a \in Admins : admins[a] = Idle \/ admins[a] \in
          [pc : {"updating"}, webhook : Webhooks, merged : Webhook]
    /\ deliveries \in [Requests -> [Webhooks -> Delivery]]
    /\ born \subseteq Webhooks
    /\ arrived \in [Requests -> [Webhooks -> 0 .. MaxAttempts]]

(* When the watcher has nothing to do, the callbacks are those of the files  *)
(* as they are: no edit falls between the listing, the reading and the       *)
(* debouncing unnoticed.                                                     *)
LoadedIsCurrent == ~ changed /\ loader = NotLoading => loaded = Scripts(files)

(* A change that a callback registered for it refuses is not written. *)
RefusalStops ==
    \A r \in Requests : requests[r].pc \in {"after", "done"} => ~ requests[r].objected

(* The log of a delivery: attempts in order, at most one success and that    *)
(* the last, and a success is the receiver's word that it has the event; the *)
(* receiver has it at least as often as the log says.                        *)
LogTellsTheTruth ==
    \A r \in Requests, w \in Webhooks :
        LET entries == log[r][w]
        IN  /\ \A i, j \in DOMAIN entries :
                  i < j => entries[i].attempt < entries[j].attempt /\ ~ entries[i].ok
            /\ \A i \in DOMAIN entries : entries[i].ok => arrived[r][w] >= 1

(* Every delivery comes to an end: a success, the last attempt, or a crash. *)
DeliveriesEnd ==
    \A r \in Requests, w \in Webhooks :
        deliveries[r][w].state = "posting" ~> deliveries[r][w].state \in Ended

(* When the editing stops, the engine gets to the files' callbacks. *)
EditsTakeEffect == []<>(loaded = Scripts(files))
=============================================================================
