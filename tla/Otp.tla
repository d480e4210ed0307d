-------------------------------- MODULE Otp --------------------------------
(***************************************************************************)
(* One-time-password login: OtpService::request_otp and auth_with_otp of   *)
(* crates/zerobase-auth/src/otp.rs, called by any number of concurrent     *)
(* requests.  The store of pending codes is a HashMap behind one mutex     *)
(* that is held only for the block that reads or writes the map: the time  *)
(* stamp is read before the lock, the auth collection is read before it    *)
(* (request) or after it (login), and the mail is sent after it.  Each of  *)
(* those is a step of its own here.                                        *)
(***************************************************************************)
EXTENDS Naturals

CONSTANTS
    Calls,        \* concurrent requests to the service
    OtpIds,       \* identifiers nanoid can return
    Codes,        \* six-digit codes
    Emails,       \* mail addresses
    MaxAttempts,  \* MAX_ATTEMPTS
    Duration,     \* otp_duration_secs
    MaxTime       \* bound on the clock of the model

ASSUME LimitAssumption == /\ MaxAttempts \in Nat \ {0}
                          /\ Duration \in Nat
                          /\ MaxTime \in Nat

VARIABLES
    clock,      \* SystemTime in seconds
    enabled,    \* the collection is an auth collection with allow_otp_auth
    registered, \* the addresses some row of the auth collection has
    store,      \* the HashMap otp_id -> OtpRecord
    call,       \* call[c]: where request c stands and what it has read
    generated,  \* the ids inserted so far (nanoid never repeats one)
    tries,      \* history: codes compared with the code of an id
    tokens      \* history: auth tokens issued for an id

vars == <<clock, enabled, registered, store, call, generated, tries, tokens>>

OtpRecord == [code: Codes, email: Emails, expires_at: Nat, attempts: Nat, used: BOOLEAN]

Idle == [at |-> "idle"]

(***************************************************************************)
(* The states of a request: a code is asked for (lookup, insert, send), or *)
(* a code is being verified (check, issue).                                *)
(***************************************************************************)
CallState ==
    {Idle}
    \cup [at: {"lookup", "insert"}, email: Emails, now: Nat]
    \cup [at: {"send"}]
    \cup [at: {"check"}, id: OtpIds, code: Codes, now: Nat]
    \cup [at: {"issue"}, id: OtpIds, email: Emails]

TypeOK ==
    /\ clock \in Nat
    /\ enabled \in BOOLEAN
    /\ registered \in SUBSET Emails
    /\ DOMAIN store \in SUBSET OtpIds
    /\ store \in [DOMAIN store -> OtpRecord]
    /\ call \in [Calls -> CallState]
    /\ generated \in SUBSET OtpIds
    /\ tries \in [OtpIds -> Nat]
    /\ tokens \in [OtpIds -> Nat]

EmptyStore == [id \in {} |-> 0]

Init ==
    /\ clock = 0
    /\ enabled = TRUE
    /\ registered \in SUBSET Emails
    /\ store = EmptyStore
    /\ call = [c \in Calls |-> Idle]
    /\ generated = {}
    /\ tries = [id \in OtpIds |-> 0]
    /\ tokens = [id \in OtpIds |-> 0]

Goto(c, state) == call' = [call EXCEPT ![c] = state]

----------------------------------------------------------------------------
(* Operations on the map.  Each *Bug* operator is a faulty variant used to *)
(* show that a property depends on the definition that follows it.         *)

\* store.retain: what a request made at `now` leaves in the store.
RetainedBug(now) == {id \in DOMAIN store : store[id].expires_at > now + Duration}

Retained(now) == {id \in DOMAIN store : store[id].expires_at > now /\ ~store[id].used}

\* store.remove
Without(id) == [i \in DOMAIN store \ {id} |-> store[i]]

\* The attempt is counted before the codes are compared.
Counted(record) == [record EXCEPT !.attempts = @ + 1]

\* The right code was presented.
ConsumedBug(record) == Counted(record)

Consumed(record) == [Counted(record) EXCEPT !.used = TRUE]

\* A wrong code was presented: the last attempt removes the record.
RejectedBug(id) == store

Rejected(id) ==
    IF Counted(store[id]).attempts = MaxAttempts
    THEN Without(id)
    ELSE [store EXCEPT ![id] = Counted(store[id])]

----------------------------------------------------------------------------
(* request_otp *)

\* get_collection and its checks, then now_secs().
RequestOtp(c, email) ==
    /\ call[c] = Idle
    /\ enabled
    /\ Goto(c, [at |-> "lookup", email |-> email, now |-> clock])
    /\ UNCHANGED <<clock, enabled, registered, store, generated, tries, tokens>>

\* list_records by email: an unknown address gets a made-up id and no record.
FindRecipient(c) ==
    /\ call[c].at = "lookup"
    /\ Goto(c, IF call[c].email \in registered
               THEN [call[c] EXCEPT !.at = "insert"]
               ELSE Idle)
    /\ UNCHANGED <<clock, enabled, registered, store, generated, tries, tokens>>

\* The locked block: drop what is used or expired at `now`, then insert.
InsertOtp(c) ==
    /\ call[c].at = "insert"
    /\ \E id \in OtpIds \ generated, code \in Codes :
        /\ store' = [i \in Retained(call[c].now) \cup {id} |->
                        IF i = id
                        THEN [code |-> code, email |-> call[c].email,
                              expires_at |-> call[c].now + Duration,
                              attempts |-> 0, used |-> FALSE]
                        ELSE store[i]]
        /\ generated' = generated \cup {id}
    /\ Goto(c, [at |-> "send"])
    /\ UNCHANGED <<clock, enabled, registered, tries, tokens>>

\* email_service.send: delivered, or an error; the record stays either way.
SendMail(c) ==
    /\ call[c].at = "send"
    /\ Goto(c, Idle)
    /\ UNCHANGED <<clock, enabled, registered, store, generated, tries, tokens>>

----------------------------------------------------------------------------
(* auth_with_otp *)

AuthWithOtp(c, id, code) ==
    /\ call[c] = Idle
    /\ Goto(c, [at |-> "check", id |-> id, code |-> code, now |-> clock])
    /\ UNCHANGED <<clock, enabled, registered, store, generated, tries, tokens>>

\* No such id, or a consumed one: refused, the store stays as it is.
CheckUnknownOrUsed(c) ==
    /\ call[c].at = "check"
    /\ call[c].id \in DOMAIN store => store[call[c].id].used
    /\ Goto(c, Idle)
    /\ UNCHANGED <<clock, enabled, registered, store, generated, tries, tokens>>

\* The record is present and not consumed.
Checking(c) ==
    /\ call[c].at = "check"
    /\ call[c].id \in DOMAIN store
    /\ ~store[call[c].id].used

Expired(c) == call[c].now > store[call[c].id].expires_at

Exhausted(c) == store[call[c].id].attempts >= MaxAttempts

\* Past its expiry or out of attempts: the record is removed.
CheckExpiredOrExhausted(c) ==
    /\ Checking(c)
    /\ Expired(c) \/ Exhausted(c)
    /\ store' = Without(call[c].id)
    /\ Goto(c, Idle)
    /\ UNCHANGED <<clock, enabled, registered, generated, tries, tokens>>

\* The codes are compared.
Comparing(c) ==
    /\ Checking(c)
    /\ ~Expired(c)
    /\ ~Exhausted(c)
    /\ tries' = [tries EXCEPT ![call[c].id] = @ + 1]

CheckWrongCode(c) ==
    /\ Comparing(c)
    /\ store[call[c].id].code # call[c].code
    /\ store' = Rejected(call[c].id)
    /\ Goto(c, Idle)
    /\ UNCHANGED <<clock, enabled, registered, generated, tokens>>

CheckRightCode(c) ==
    /\ Comparing(c)
    /\ LET id == call[c].id
       IN  /\ store[id].code = call[c].code
           /\ store' = [store EXCEPT ![id] = Consumed(store[id])]
           /\ Goto(c, [at |-> "issue", id |-> id, email |-> store[id].email])
    /\ UNCHANGED <<clock, enabled, registered, generated, tokens>>

\* list_records by email: a token for the row found, or "user not found".
IssueToken(c) ==
    /\ call[c].at = "issue"
    /\ call[c].email \in registered
    /\ tokens' = [tokens EXCEPT ![call[c].id] = @ + 1]
    /\ Goto(c, Idle)
    /\ UNCHANGED <<clock, enabled, registered, store, generated, tries>>

UserNotFound(c) ==
    /\ call[c].at = "issue"
    /\ call[c].email \notin registered
    /\ Goto(c, Idle)
    /\ UNCHANGED <<clock, enabled, registered, store, generated, tries, tokens>>

----------------------------------------------------------------------------
(* The surroundings: time, edits of the collection and its rows, restart   *)

Tick ==
    /\ clock < MaxTime
    /\ clock' = clock + 1
    /\ UNCHANGED <<enabled, registered, store, call, generated, tries, tokens>>

SetOtpEnabled ==
    /\ enabled' = ~enabled
    /\ UNCHANGED <<clock, registered, store, call, generated, tries, tokens>>

\* A row is created, deleted or gets another address.
EditUsers ==
    /\ registered' \in SUBSET Emails \ {registered}
    /\ UNCHANGED <<clock, enabled, store, call, generated, tries, tokens>>

\* The store is memory of the process: a restart loses it and every request.
Restart ==
    /\ store' = EmptyStore
    /\ call' = [c \in Calls |-> Idle]
    /\ UNCHANGED <<clock, enabled, registered, generated, tries, tokens>>

Step(c) ==
    \/ FindRecipient(c)
    \/ InsertOtp(c)
    \/ SendMail(c)
    \/ CheckUnknownOrUsed(c)
    \/ CheckExpiredOrExhausted(c)
    \/ CheckWrongCode(c)
    \/ CheckRightCode(c)
    \/ IssueToken(c)
    \/ UserNotFound(c)

Next ==
    \/ \E c \in Calls : Step(c)
    \/ \E c \in Calls, email \in Emails : RequestOtp(c, email)
    \/ \E c \in Calls, id \in OtpIds, code \in Codes : AuthWithOtp(c, id, code)
    \/ Tick
    \/ SetOtpEnabled
    \/ EditUsers
    \/ Restart

Spec == Init /\ [][Next]_vars

----------------------------------------------------------------------------
(* Properties *)

(***************************************************************************)
(* One code buys at most one token, however many requests present it at    *)
(* the same time and whatever cleanups, failed lookups and restarts come   *)
(* between marking it used and issuing the token (otp.rs:221-308).         *)
(***************************************************************************)
OneTokenPerCode == \A id \in OtpIds : tokens[id] <= 1

(***************************************************************************)
(* No more than MAX_ATTEMPTS codes are ever compared with the code of one  *)
(* id, over all requests together (otp.rs:241-263).                        *)
(***************************************************************************)
AttemptsBounded == \A id \in OtpIds : tries[id] <= MaxAttempts

(***************************************************************************)
(* A pending code leaves the store only when it was consumed, when its     *)
(* expiry has been reached on the real clock or when its attempts are used *)
(* up: the cleanup of one request, which works with a time read before it  *)
(* got the lock, never takes away the live code of another.                *)
(***************************************************************************)
LiveCodeKept ==
    [][\A id \in DOMAIN store \ DOMAIN store' :
          \/ store[id].used
          \/ store[id].expires_at <= clock
          \/ tries'[id] = MaxAttempts
          \/ Restart]_vars

(***************************************************************************)
(* The invariant behind them, by parts: no request holds a time later than *)
(* the clock; ...                                                          *)
(***************************************************************************)
TimesPast == \A c \in Calls : call[c].at \in {"lookup", "insert", "check"} => call[c].now <= clock

\* ... a stored id was generated and its counter is the number of tries; ...
StoreCounts ==
    \A id \in DOMAIN store : id \in generated /\ tries[id] = store[id].attempts

\* ... an unused record has tries left; ...
UnusedHasTries == \A id \in DOMAIN store : ~store[id].used => tries[id] < MaxAttempts

\* ... an id not generated yet has no history; ...
FreshIds == \A id \in OtpIds \ generated : tries[id] = 0 /\ tokens[id] = 0

\* ... and a login about to get its token is the only one for its id, which
\* nobody can consume again: it is used up or gone from the store.
Spent(id) == id \in generated /\ (id \in DOMAIN store => store[id].used)

TokenPending(c, id) == call[c].at = "issue" /\ call[c].id = id

OnePending ==
    \A id \in OtpIds, c \in Calls :
        TokenPending(c, id) =>
            /\ Spent(id)
            /\ tokens[id] = 0
            /\ \A d \in Calls : TokenPending(d, id) => d = c

TokenSpent == \A id \in OtpIds : tokens[id] # 0 => Spent(id)

IInv == /\ TypeOK
        /\ AttemptsBounded
        /\ OneTokenPerCode
        /\ TimesPast
        /\ StoreCounts
        /\ UnusedHasTries
        /\ FreshIds
        /\ OnePending
        /\ TokenSpent
============================================================================
