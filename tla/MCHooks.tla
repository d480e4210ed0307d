------------------------------ MODULE MCHooks ------------------------------
(* Two script files, or one webhook being edited, around one request.       *)
EXTENDS Hooks

CONSTANTS any, absent, broken, gone, c1, c2, u1, u2

MCCollections == {c1, c2}
MCRegistered == <<[hook |-> "webhooks", priority |-> 200],
                  [hook |-> "js", priority |-> 100],
                  [hook |-> "guard", priority |-> 100]>>

Reg(phase, collection, effect) ==
    [event |-> [operation |-> "create", phase |-> phase],
     collection |-> collection, effect |-> effect]

Guarding == <<Reg("before", any, "set"), Reg("before", c1, "refuse")>>
Watching == <<Reg("after", any, "refuse")>>
Throwing == <<Reg("before", any, "throw")>>

SingleEvent == {Guarding, Watching, Throwing}

NoWebhooks == [w \in Webhooks |-> gone]
OneWebhook == [w \in Webhooks |->
    [collection |-> c1, url |-> u1, events |-> {"create"}, enabled |-> TRUE]]

(* Either scripts are edited, or webhooks are.                               *)
MCStarts ==
    {[files |-> <<s, absent>>, webhooks |-> NoWebhooks,
      left |-> [edits |-> 2, changes |-> 0, crashes |-> 1]] : s \in Sources}
    \cup
    {[files |-> <<absent, absent>>, webhooks |-> table,
      left |-> [edits |-> 0, changes |-> 3, crashes |-> 1]] :
        table \in {NoWebhooks, OneWebhook}}
=============================================================================
