---------------------------- MODULE LimitProofs ----------------------------
(***************************************************************************)
(* What bounds a client's guesses, for any number of clients, requests and *)
(* workers and any limits: the attempts at a one-time code (Otp), and the  *)
(* requests the rate limiter lets through in a window (RateLimit).         *)
(***************************************************************************)
EXTENDS Otp, RateLimit, TLAPS

-----------------------------------------------------------------------------
(* One-time codes: IInv is inductive, and the properties the runs check      *)
(* follow.                                                                   *)

\* The initial state satisfies the invariant: nothing is stored or pending.
LEMMA InitInv == Init => IInv
  <1> SUFFICES ASSUME Init PROVE IInv
    OBVIOUS
  <1> USE LimitAssumption DEF Init, EmptyStore, Idle
  <1>1. TypeOK
    BY DEF TypeOK, CallState
  <1>2. AttemptsBounded /\ OneTokenPerCode
    BY DEF AttemptsBounded, OneTokenPerCode
  <1>3. TimesPast /\ StoreCounts /\ UnusedHasTries
    BY DEF TimesPast, StoreCounts, UnusedHasTries
  <1>4. FreshIds /\ OnePending /\ TokenSpent
    BY DEF FreshIds, OnePending, TokenPending, TokenSpent
  <1> QED
    BY <1>1, <1>2, <1>3, <1>4 DEF IInv

\* What the type invariant says of a request at each of its steps.
LEMMA CallFields ==
  ASSUME TypeOK, NEW c \in Calls
  PROVE  /\ call[c].at \in {"lookup", "insert"} =>
              call[c].email \in Emails /\ call[c].now \in Nat
         /\ call[c].at = "check" =>
              call[c].id \in OtpIds /\ call[c].code \in Codes /\ call[c].now \in Nat
         /\ call[c].at = "issue" => call[c].id \in OtpIds /\ call[c].email \in Emails
  BY DEF TypeOK, CallState, Idle

\* Counting an attempt, and marking a record used, leave a well-formed record
\* that differs from the old one in the attempts and the mark only.
LEMMA CountedTyped ==
  ASSUME NEW r \in OtpRecord
  PROVE  /\ Counted(r) \in OtpRecord
         /\ Counted(r).attempts = r.attempts + 1 /\ Counted(r).used = r.used
         /\ Consumed(r) \in OtpRecord
         /\ Consumed(r).attempts = r.attempts + 1 /\ Consumed(r).used = TRUE
  <1>1. Counted(r) \in OtpRecord /\ Counted(r).attempts = r.attempts + 1
        /\ Counted(r).used = r.used
    BY DEF Counted, OtpRecord
  <1>2. \A q \in OtpRecord : [q EXCEPT !.used = TRUE] \in OtpRecord
                              /\ [q EXCEPT !.used = TRUE].attempts = q.attempts
                              /\ [q EXCEPT !.used = TRUE].used = TRUE
    BY DEF OtpRecord
  <1> QED
    BY <1>1, <1>2 DEF Consumed

\* Any step keeps every variable in its type.
LEMMA TypeStep == TypeOK /\ [Next]_vars => TypeOK'
  <1> SUFFICES ASSUME TypeOK, [Next]_vars PROVE TypeOK'
    OBVIOUS
  <1> USE LimitAssumption DEF TypeOK, Goto
  <1>1. ASSUME NEW c \in Calls, FindRecipient(c) PROVE TypeOK'
    BY <1>1 DEF FindRecipient, CallState, Idle
  <1>2. ASSUME NEW c \in Calls, InsertOtp(c) PROVE TypeOK'
    BY <1>2, CallFields DEF InsertOtp, Retained, OtpRecord, CallState
  <1>3. ASSUME NEW c \in Calls, SendMail(c) PROVE TypeOK'
    BY <1>3 DEF SendMail, CallState
  <1>4. ASSUME NEW c \in Calls, CheckUnknownOrUsed(c) PROVE TypeOK'
    BY <1>4 DEF CheckUnknownOrUsed, CallState
  <1>5. ASSUME NEW c \in Calls, CheckExpiredOrExhausted(c) PROVE TypeOK'
    BY <1>5 DEF CheckExpiredOrExhausted, Without, CallState
  <1>6. ASSUME NEW c \in Calls, CheckWrongCode(c) PROVE TypeOK'
    <2> DEFINE id == call[c].id
    <2>1. id \in DOMAIN store /\ id \in OtpIds
      BY <1>6 DEF CheckWrongCode, Comparing, Checking
    <2>2. DOMAIN store' \in SUBSET OtpIds /\ store' \in [DOMAIN store' -> OtpRecord]
      BY <1>6, <2>1, CountedTyped DEF CheckWrongCode, Rejected, Without
    <2>3. call' \in [Calls -> CallState] /\ tries' \in [OtpIds -> Nat]
      BY <1>6, <2>1 DEF CheckWrongCode, Comparing, CallState
    <2> QED
      BY <1>6, <2>2, <2>3 DEF CheckWrongCode
  <1>7. ASSUME NEW c \in Calls, CheckRightCode(c) PROVE TypeOK'
    <2> DEFINE id == call[c].id
    <2>1. id \in DOMAIN store /\ id \in OtpIds /\ store[id] \in OtpRecord
      BY <1>7 DEF CheckRightCode, Comparing, Checking
    <2>2. DOMAIN store' \in SUBSET OtpIds /\ store' \in [DOMAIN store' -> OtpRecord]
      BY <1>7, <2>1, CountedTyped DEF CheckRightCode
    <2>3. [at |-> "issue", id |-> id, email |-> store[id].email] \in CallState
      BY <2>1 DEF CallState, OtpRecord
    <2>4. call' \in [Calls -> CallState]
      BY <1>7, <2>3 DEF CheckRightCode
    <2>5. tries' \in [OtpIds -> Nat]
      BY <1>7, <2>1 DEF CheckRightCode, Comparing
    <2> QED
      BY <1>7, <2>2, <2>4, <2>5 DEF CheckRightCode
  <1>8. ASSUME NEW c \in Calls, IssueToken(c) PROVE TypeOK'
    BY <1>8, CallFields DEF IssueToken, CallState
  <1>9. ASSUME NEW c \in Calls, UserNotFound(c) PROVE TypeOK'
    BY <1>9 DEF UserNotFound, CallState
  <1>10. ASSUME NEW c \in Calls, NEW email \in Emails, RequestOtp(c, email) PROVE TypeOK'
    BY <1>10 DEF RequestOtp, CallState
  <1>11. ASSUME NEW c \in Calls, NEW id \in OtpIds, NEW code \in Codes,
                AuthWithOtp(c, id, code)
         PROVE TypeOK'
    BY <1>11 DEF AuthWithOtp, CallState
  <1>12. CASE Tick
    BY <1>12 DEF Tick
  <1>13. CASE SetOtpEnabled
    BY <1>13 DEF SetOtpEnabled
  <1>14. CASE EditUsers
    BY <1>14 DEF EditUsers
  <1>15. CASE Restart
    BY <1>15 DEF Restart, EmptyStore, CallState
  <1>16. CASE UNCHANGED vars
    BY <1>16 DEF vars
  <1> QED
    BY <1>1, <1>2, <1>3, <1>4, <1>5, <1>6, <1>7, <1>8, <1>9, <1>10, <1>11, <1>12,
       <1>13, <1>14, <1>15, <1>16 DEF Next, Step

\* The invariant, given the types, as the rest of the proof uses it.
Inv == /\ AttemptsBounded
       /\ OneTokenPerCode
       /\ TimesPast
       /\ StoreCounts
       /\ UnusedHasTries
       /\ FreshIds
       /\ OnePending
       /\ TokenSpent

\* A step in which the map, the history and the set of ids stay as they are,
\* and request c goes to a state that is not "issue", keeps the invariant.
LEMMA QuietStep ==
  ASSUME TypeOK, Inv, NEW c \in Calls, NEW state \in CallState,
         state.at # "issue",
         state.at \in {"lookup", "insert", "check"} => state.now <= clock,
         Goto(c, state),
         UNCHANGED <<clock, store, generated, tries, tokens>>
  PROVE  Inv'
  <1> USE DEF TypeOK, Inv, Goto
  <1>1. TimesPast'
    BY DEF TimesPast
  <1>2. OnePending'
    BY DEF OnePending, TokenPending, Spent
  <1> QED
    BY <1>1, <1>2 DEF AttemptsBounded, OneTokenPerCode, StoreCounts, UnusedHasTries,
                      FreshIds, TokenSpent, Spent

\* The cleanup and the insertion of a code under an id that was never used.
LEMMA InsertStep ==
  ASSUME TypeOK, TypeOK', Inv, NEW c \in Calls, InsertOtp(c)
  PROVE  Inv'
  <1> USE LimitAssumption DEF Inv, TypeOK
  <1>1. PICK id \in OtpIds \ generated, code \in Codes :
          /\ store' = [i \in Retained(call[c].now) \cup {id} |->
                          IF i = id
                          THEN [code |-> code, email |-> call[c].email,
                                expires_at |-> call[c].now + Duration,
                                attempts |-> 0, used |-> FALSE]
                          ELSE store[i]]
          /\ generated' = generated \cup {id}
    BY DEF InsertOtp
  <1>2. tries[id] = 0 /\ tokens[id] = 0
    BY DEF FreshIds
  <1>3. tries' = tries /\ tokens' = tokens /\ clock' = clock
    BY DEF InsertOtp
  <1>4. \A d \in Calls : call'[d].at \in {"lookup", "insert", "check", "issue"} =>
                            d # c /\ call'[d] = call[d]
    BY DEF InsertOtp, Goto
  <1>5. AttemptsBounded' /\ OneTokenPerCode' /\ TimesPast'
    BY <1>3, <1>4 DEF AttemptsBounded, OneTokenPerCode, TimesPast
  <1>6. StoreCounts' /\ UnusedHasTries'
    BY <1>1, <1>2, <1>3 DEF StoreCounts, UnusedHasTries, Retained
  <1>7. FreshIds'
    BY <1>1, <1>3 DEF FreshIds
  <1>8. \A i \in OtpIds : Spent(i) => i # id /\ Spent(i)'
    BY <1>1 DEF Spent, Retained
  <1>9. OnePending' /\ TokenSpent'
    BY <1>3, <1>4, <1>8 DEF OnePending, TokenPending, TokenSpent
  <1> QED
    BY <1>5, <1>6, <1>7, <1>9

\* An expired or exhausted record is removed.
LEMMA RemoveStep ==
  ASSUME TypeOK, TypeOK', Inv, NEW c \in Calls, CheckExpiredOrExhausted(c)
  PROVE  Inv'
  <1> USE DEF Inv, TypeOK
  <1>1. /\ DOMAIN store' \subseteq DOMAIN store
        /\ \A i \in DOMAIN store' : store'[i] = store[i]
    BY DEF CheckExpiredOrExhausted, Without
  <1>2. UNCHANGED <<clock, generated, tries, tokens>>
    BY DEF CheckExpiredOrExhausted
  <1>3. \A d \in Calls : call'[d].at \in {"lookup", "insert", "check", "issue"} =>
                            d # c /\ call'[d] = call[d]
    BY DEF CheckExpiredOrExhausted, Goto, Idle
  <1>4. AttemptsBounded' /\ OneTokenPerCode' /\ TimesPast' /\ FreshIds'
    BY <1>2, <1>3 DEF AttemptsBounded, OneTokenPerCode, TimesPast, FreshIds
  <1>5. StoreCounts' /\ UnusedHasTries'
    BY <1>1, <1>2 DEF StoreCounts, UnusedHasTries
  <1>6. OnePending' /\ TokenSpent'
    BY <1>1, <1>2, <1>3 DEF OnePending, TokenPending, TokenSpent, Spent
  <1> QED
    BY <1>4, <1>5, <1>6

\* A comparison reads a record whose attempts are the tries of its id, and
\* leaves at most MAX_ATTEMPTS of them.
LEMMA ComparingFacts ==
  ASSUME TypeOK, Inv, NEW c \in Calls, Comparing(c)
  PROVE  /\ call[c].id \in OtpIds
         /\ call[c].id \in DOMAIN store
         /\ call[c].id \in generated
         /\ store[call[c].id] \in OtpRecord
         /\ store[call[c].id].attempts \in Nat
         /\ ~store[call[c].id].used
         /\ tries[call[c].id] = store[call[c].id].attempts
         /\ tries[call[c].id] < MaxAttempts
         /\ tries' = [tries EXCEPT ![call[c].id] = tries[call[c].id] + 1]
  BY DEF Comparing, Checking, TypeOK, Inv, StoreCounts, UnusedHasTries, OtpRecord

\* A wrong code: one more try, and the record goes with the last one.
LEMMA WrongStep ==
  ASSUME TypeOK, TypeOK', Inv, NEW c \in Calls, CheckWrongCode(c)
  PROVE  Inv'
  <1> DEFINE id == call[c].id
  <1> USE LimitAssumption DEF Inv, TypeOK
  <1>1. Comparing(c)
    BY DEF CheckWrongCode
  <1>2. /\ id \in DOMAIN store /\ id \in generated /\ id \in OtpIds
        /\ ~store[id].used /\ tries[id] = store[id].attempts /\ tries[id] < MaxAttempts
        /\ tries' = [tries EXCEPT ![id] = tries[id] + 1]
        /\ store[id] \in OtpRecord
    BY <1>1, ComparingFacts
  <1>3. UNCHANGED <<clock, generated, tokens>>
    BY DEF CheckWrongCode
  <1>4. /\ DOMAIN store' \subseteq DOMAIN store
        /\ \A i \in DOMAIN store' : i # id => store'[i] = store[i]
        /\ id \in DOMAIN store' => /\ store'[id] = Counted(store[id])
                                   /\ Counted(store[id]).attempts # MaxAttempts
    BY <1>2 DEF CheckWrongCode, Rejected, Without
  <1>5. /\ Counted(store[id]).attempts = store[id].attempts + 1
        /\ Counted(store[id]).used = store[id].used
    BY <1>2, CountedTyped
  <1>6. \A d \in Calls : call'[d].at \in {"lookup", "insert", "check", "issue"} =>
                            d # c /\ call'[d] = call[d]
    BY DEF CheckWrongCode, Goto, Idle
  <1>7. AttemptsBounded' /\ OneTokenPerCode' /\ TimesPast'
    BY <1>2, <1>3, <1>6 DEF AttemptsBounded, OneTokenPerCode, TimesPast
  <1>8. FreshIds'
    BY <1>2, <1>3 DEF FreshIds
  <1>9. StoreCounts' /\ UnusedHasTries'
    BY <1>2, <1>3, <1>4, <1>5 DEF StoreCounts, UnusedHasTries
  <1>10. \A i \in OtpIds : Spent(i) => Spent(i)'
    BY <1>2, <1>3, <1>4, <1>5 DEF Spent
  <1>11. OnePending' /\ TokenSpent'
    BY <1>3, <1>6, <1>10 DEF OnePending, TokenPending, TokenSpent
  <1> QED
    BY <1>7, <1>8, <1>9, <1>11

\* The right code: nobody else holds this id, and nobody will again.
LEMMA RightStep ==
  ASSUME TypeOK, TypeOK', Inv, NEW c \in Calls, CheckRightCode(c)
  PROVE  Inv'
  <1> USE LimitAssumption DEF Inv, TypeOK
  <1>1. Comparing(c)
    BY DEF CheckRightCode
  <1>0. PICK id \in OtpIds : id = call[c].id
    BY <1>1, ComparingFacts
  <1>2. /\ id \in DOMAIN store /\ id \in generated /\ id \in OtpIds
        /\ ~store[id].used /\ tries[id] = store[id].attempts /\ tries[id] < MaxAttempts
        /\ tries' = [tries EXCEPT ![id] = tries[id] + 1]
        /\ store[id] \in OtpRecord
    BY <1>0, <1>1, ComparingFacts
  <1>3. UNCHANGED <<clock, generated, tokens>>
    BY DEF CheckRightCode
  <1>4. store' = [store EXCEPT ![id] = Consumed(store[id])]
    BY <1>0 DEF CheckRightCode
  <1>5. Consumed(store[id]).attempts = store[id].attempts + 1 /\ Consumed(store[id]).used
    BY <1>2, CountedTyped
  <1>6. call' = [call EXCEPT ![c] = [at |-> "issue", id |-> id, email |-> store[id].email]]
    BY <1>0 DEF CheckRightCode, Goto
  <1>7. AttemptsBounded' /\ OneTokenPerCode'
    BY <1>2, <1>3 DEF AttemptsBounded, OneTokenPerCode
  <1>8. TimesPast'
    BY <1>3, <1>6 DEF TimesPast
  <1>9. FreshIds'
    BY <1>2, <1>3 DEF FreshIds
  <1>10. StoreCounts' /\ UnusedHasTries'
    BY <1>2, <1>3, <1>4, <1>5 DEF StoreCounts, UnusedHasTries
  <1>11. (\A i \in OtpIds : Spent(i) => Spent(i)') /\ Spent(id)'
    BY <1>2, <1>3, <1>4, <1>5 DEF Spent
  <1>12. ~Spent(id)
    BY <1>2 DEF Spent
  <1>13. tokens[id] = 0 /\ \A d \in Calls : ~TokenPending(d, id)
    BY <1>2, <1>12 DEF OnePending, TokenSpent
  <1>14. \A i \in OtpIds, d \in Calls :
            TokenPending(d, i)' <=> (IF d = c THEN i = id ELSE TokenPending(d, i))
    BY <1>6 DEF TokenPending
  <1>15. OnePending'
    BY <1>3, <1>11, <1>13, <1>14 DEF OnePending
  <1>16. TokenSpent'
    BY <1>3, <1>11 DEF TokenSpent
  <1> QED
    BY <1>7, <1>8, <1>9, <1>10, <1>15, <1>16

\* The token: the only pending one for its id becomes its only token.
LEMMA IssueStep ==
  ASSUME TypeOK, TypeOK', Inv, NEW c \in Calls, IssueToken(c)
  PROVE  Inv'
  <1> DEFINE id == call[c].id
  <1> USE DEF Inv, TypeOK
  <1>1. id \in OtpIds /\ TokenPending(c, id)
    BY CallFields DEF IssueToken, TokenPending
  <1>2. Spent(id) /\ tokens[id] = 0 /\ \A d \in Calls : TokenPending(d, id) => d = c
    BY <1>1 DEF OnePending
  <1>3. UNCHANGED <<clock, store, generated, tries>>
    BY DEF IssueToken
  <1>4. tokens' = [tokens EXCEPT ![id] = tokens[id] + 1]
    BY DEF IssueToken
  <1>5. call' = [call EXCEPT ![c] = Idle]
    BY DEF IssueToken, Goto
  <1>6. AttemptsBounded' /\ OneTokenPerCode'
    BY <1>2, <1>3, <1>4 DEF AttemptsBounded, OneTokenPerCode
  <1>7. TimesPast' /\ StoreCounts' /\ UnusedHasTries'
    BY <1>3, <1>5 DEF TimesPast, StoreCounts, UnusedHasTries, Idle
  <1>8. FreshIds'
    BY <1>2, <1>3, <1>4 DEF FreshIds, Spent
  <1>9. \A i \in OtpIds, d \in Calls :
           TokenPending(d, i)' => d # c /\ i # id /\ TokenPending(d, i)
    BY <1>2, <1>5 DEF TokenPending, Idle
  <1>10. \A i \in OtpIds : Spent(i)' <=> Spent(i)
    BY <1>3 DEF Spent
  <1>11. OnePending'
    BY <1>4, <1>9, <1>10 DEF OnePending
  <1>12. TokenSpent'
    BY <1>2, <1>4, <1>10 DEF TokenSpent
  <1> QED
    BY <1>6, <1>7, <1>8, <1>11, <1>12

\* Steps of the surroundings and stuttering.
LEMMA EnvironmentStep ==
  ASSUME TypeOK, TypeOK', Inv, Tick \/ SetOtpEnabled \/ EditUsers \/ UNCHANGED vars
  PROVE  Inv'
  <1>1. UNCHANGED <<store, call, generated, tries, tokens>> /\ clock' >= clock
    BY DEF Tick, SetOtpEnabled, EditUsers, vars, TypeOK
  <1>2. TimesPast'
    BY <1>1, CallFields DEF TimesPast, Inv, TypeOK
  <1> QED
    BY <1>1, <1>2 DEF Inv, AttemptsBounded, OneTokenPerCode, StoreCounts, UnusedHasTries,
                      FreshIds, OnePending, TokenPending, TokenSpent, Spent

\* A restart forgets the records and the requests, not the history.
LEMMA RestartStep ==
  ASSUME TypeOK, TypeOK', Inv, Restart
  PROVE  Inv'
  <1>1. DOMAIN store' = {} /\ \A c \in Calls : call'[c].at = "idle"
    BY DEF Restart, EmptyStore, Idle
  <1>2. UNCHANGED <<clock, generated, tries, tokens>>
    BY DEF Restart
  <1> QED
    BY <1>1, <1>2 DEF Inv, AttemptsBounded, OneTokenPerCode, TimesPast, StoreCounts,
                      UnusedHasTries, FreshIds, OnePending, TokenPending, TokenSpent, Spent

\* Every step of a request keeps the invariant.
LEMMA RequestStep ==
  ASSUME TypeOK, TypeOK', Inv, NEW c \in Calls, Step(c)
  PROVE  Inv'
  <1>1. CASE FindRecipient(c)
    <2> DEFINE state == IF call[c].email \in registered
                        THEN [call[c] EXCEPT !.at = "insert"] ELSE Idle
    <2>1. state \in CallState /\ state.at # "issue"
          /\ (state.at \in {"lookup", "insert", "check"} => state.now <= clock)
      <3>1. call[c].at = "lookup" /\ call[c] \in CallState /\ call[c].now <= clock
        BY <1>1 DEF FindRecipient, TypeOK, Inv, TimesPast
      <3> QED
        BY <3>1 DEF CallState, Idle
    <2> QED
      BY <1>1, <2>1, QuietStep DEF FindRecipient
  <1>2. Idle \in CallState /\ Idle.at = "idle"
    BY DEF CallState, Idle
  <1>3. CASE InsertOtp(c)
    BY <1>3, InsertStep
  <1>4. CASE SendMail(c) \/ CheckUnknownOrUsed(c) \/ UserNotFound(c)
    BY <1>2, <1>4, QuietStep DEF SendMail, CheckUnknownOrUsed, UserNotFound
  <1>5. CASE CheckExpiredOrExhausted(c)
    BY <1>5, RemoveStep
  <1>6. CASE CheckWrongCode(c)
    BY <1>6, WrongStep
  <1>7. CASE CheckRightCode(c)
    BY <1>7, RightStep
  <1>8. CASE IssueToken(c)
    BY <1>8, IssueStep
  <1> QED
    BY <1>1, <1>3, <1>4, <1>5, <1>6, <1>7, <1>8 DEF Step

\* The invariant is inductive.
LEMMA InvStep == IInv /\ [Next]_vars => IInv'
  <1> SUFFICES ASSUME IInv, [Next]_vars PROVE IInv'
    OBVIOUS
  <1>1. TypeOK /\ TypeOK' /\ Inv
    BY TypeStep DEF IInv, Inv
  <1>2. CASE \E c \in Calls : Step(c)
    BY <1>1, <1>2, RequestStep DEF IInv, Inv
  <1>3. ASSUME NEW c \in Calls, NEW email \in Emails, RequestOtp(c, email) PROVE Inv'
    <2>1. [at |-> "lookup", email |-> email, now |-> clock] \in CallState
      BY <1>1 DEF CallState, TypeOK
    <2> QED
      BY <1>1, <1>3, <2>1, QuietStep DEF RequestOtp, TypeOK
  <1>4. ASSUME NEW c \in Calls, NEW id \in OtpIds, NEW code \in Codes,
               AuthWithOtp(c, id, code)
        PROVE Inv'
    <2>1. [at |-> "check", id |-> id, code |-> code, now |-> clock] \in CallState
      BY <1>1 DEF CallState, TypeOK
    <2> QED
      BY <1>1, <1>4, <2>1, QuietStep DEF AuthWithOtp, TypeOK
  <1>5. CASE Tick \/ SetOtpEnabled \/ EditUsers \/ UNCHANGED vars
    BY <1>1, <1>5, EnvironmentStep DEF IInv, Inv
  <1>6. CASE Restart
    BY <1>1, <1>6, RestartStep DEF IInv, Inv
  <1> QED
    BY <1>1, <1>2, <1>3, <1>4, <1>5, <1>6 DEF Next, IInv, Inv

\* Types, limits and history hold together in every reachable state.
THEOREM Invariance == Spec => []IInv
  BY InitInv, InvStep, PTL DEF Spec

\* Every variable stays in its type.
THEOREM TypeCorrect == Spec => []TypeOK
  <1>1. IInv => TypeOK
    BY DEF IInv
  <1> QED
    BY <1>1, Invariance, PTL

\* A code is exchanged for at most one token, for any number of concurrent
\* logins, any limits and any number of restarts (otp.rs:231-319).
THEOREM CodesAreSingleUse == Spec => []OneTokenPerCode
  <1>1. IInv => OneTokenPerCode
    BY DEF IInv
  <1> QED
    BY <1>1, Invariance, PTL

\* At most MAX_ATTEMPTS codes are compared with one id's code, for any number
\* of concurrent logins and any MAX_ATTEMPTS (otp.rs:251-274).
THEOREM GuessesAreBounded == Spec => []AttemptsBounded
  <1>1. IInv => AttemptsBounded
    BY DEF IInv
  <1> QED
    BY <1>1, Invariance, PTL

\* A pending code is dropped only when used, expired on the real clock or out
\* of tries, or by a restart (otp.rs:156-158, 241-274).
THEOREM LiveCodesAreKept == Spec => LiveCodeKept
  <1> DEFINE Drop == \A id \in DOMAIN store \ DOMAIN store' :
                        \/ store[id].used
                        \/ store[id].expires_at <= clock
                        \/ tries'[id] = MaxAttempts
                        \/ Restart
  <1>1. IInv /\ [Next]_vars => [Drop]_vars
    <2> SUFFICES ASSUME IInv, Next, NEW id \in DOMAIN store \ DOMAIN store',
                        ~Restart, ~store[id].used, ~(store[id].expires_at <= clock)
                 PROVE  tries'[id] = MaxAttempts
      OBVIOUS
    <2>1. TypeOK /\ Inv /\ id \in OtpIds /\ store[id].expires_at \in Nat /\ clock \in Nat
      BY DEF IInv, Inv, TypeOK, OtpRecord
    <2>2. PICK c \in Calls : Step(c)
      BY DEF Next, RequestOtp, AuthWithOtp, Tick, SetOtpEnabled, EditUsers
    <2>3. ~InsertOtp(c)
      <3> SUFFICES ASSUME InsertOtp(c) PROVE FALSE
        OBVIOUS
      <3>1. call[c].now \in Nat /\ call[c].now <= clock
        BY <2>1, CallFields DEF InsertOtp, Inv, TimesPast
      <3>2. id \in Retained(call[c].now)
        BY <2>1, <3>1 DEF Retained
      <3> QED
        BY <3>2 DEF InsertOtp
    <2>4. ~CheckExpiredOrExhausted(c)
      <3> SUFFICES ASSUME CheckExpiredOrExhausted(c) PROVE FALSE
        OBVIOUS
      <3>1. call[c].id = id
        BY DEF CheckExpiredOrExhausted, Without
      <3>2. call[c].now \in Nat /\ call[c].now <= clock
        BY <2>1, CallFields DEF CheckExpiredOrExhausted, Checking, Inv, TimesPast
      <3>3. store[id].attempts \in Nat /\ store[id].attempts < MaxAttempts
        BY <2>1 DEF Inv, StoreCounts, UnusedHasTries, TypeOK
      <3> QED
        BY <2>1, <3>1, <3>2, <3>3, LimitAssumption
           DEF CheckExpiredOrExhausted, Expired, Exhausted
    <2>5. CheckWrongCode(c)
      BY <2>2, <2>3, <2>4 DEF Step, FindRecipient, SendMail, CheckUnknownOrUsed,
                              CheckRightCode, IssueToken, UserNotFound
    <2>6. /\ Comparing(c)
          /\ call[c].id = id
          /\ Counted(store[id]).attempts = MaxAttempts
      BY <2>5 DEF CheckWrongCode, Rejected, Without
    <2>7. tries[id] = store[id].attempts /\ store[id] \in OtpRecord
          /\ tries' = [tries EXCEPT ![id] = tries[id] + 1]
      BY <2>1, <2>6, ComparingFacts
    <2> QED
      BY <2>1, <2>6, <2>7, CountedTyped DEF TypeOK
  <1> QED
    BY <1>1, Invariance, PTL DEF Spec, LiveCodeKept

-----------------------------------------------------------------------------
(* The rate limiter: LimiterInv is inductive; the budget of a window, the    *)
(* distance of windows and the truth of Retry-After follow.                  *)

(* A whole number of seconds is less than a second short of what it stands for. *)
LEMMA Truncation ==
    ASSUME NEW x \in Nat
    PROVE  /\ x \div PerSecond \in Nat
           /\ ((x \div PerSecond) * PerSecond) + (x % PerSecond) = x
           /\ x % PerSecond \in 0 .. (PerSecond - 1)
  BY LimitsAssumption

(* What the configuration says of a key. *)
LEMMA KeyLimits ==
    ASSUME NEW k \in Keys
    PROVE  /\ Limit(k) \in Nat
           /\ Length(k) \in Nat
           /\ Length(k) > 0
           /\ Skew <= Length(k)
           /\ Skew + (Length(k) % PerSecond) <= PerSecond
           /\ Skew \in Nat
           /\ PerSecond \in Nat
  BY LimitsAssumption, SkewAssumption DEF Keys, Limit, Length

(* A second more than the answer to a refused request outlasts the window,   *)
(* and by Skew where the window has just begun.                              *)
LEMMA RetryIsLongEnough ==
    ASSUME NEW k \in Keys, NEW e \in Nat, e <= Length(k)
    PROVE  /\ RetryAfter(k, e) * PerSecond \in Nat
           /\ e + (RetryAfter(k, e) * PerSecond) + PerSecond > Length(k)
           /\ e = 0 => (RetryAfter(k, e) * PerSecond) + PerSecond >= Length(k) + Skew
<1> DEFINE left == Length(k) - e
           seconds == left \div PerSecond
<1>0. left \in Nat /\ PerSecond \in Nat /\ PerSecond > 0
  BY KeyLimits, LimitsAssumption
<1>1. /\ seconds \in Nat
      /\ (seconds * PerSecond) + (left % PerSecond) = left
      /\ left % PerSecond \in 0 .. (PerSecond - 1)
  BY <1>0, Truncation
<1>2. RetryAfter(k, e) = IF seconds >= 1 THEN seconds ELSE 1
  BY DEF RetryAfter
<1> HIDE DEF left, seconds
<1>3. /\ RetryAfter(k, e) * PerSecond \in Nat
      /\ RetryAfter(k, e) * PerSecond >= seconds * PerSecond
  <2>1. CASE seconds >= 1
    BY <2>1, <1>0, <1>1, <1>2
  <2>2. CASE seconds = 0
    BY <2>2, <1>0, <1>1, <1>2
  <2> QED BY <2>1, <2>2, <1>1
<1>4. (RetryAfter(k, e) * PerSecond) + (left % PerSecond) >= left
  BY <1>0, <1>1, <1>3
<1>5. e + (RetryAfter(k, e) * PerSecond) + PerSecond > Length(k)
  BY <1>0, <1>1, <1>3, <1>4, KeyLimits DEF left
<1>6. ASSUME e = 0
      PROVE  (RetryAfter(k, e) * PerSecond) + PerSecond >= Length(k) + Skew
  <2>1. left = Length(k)
    BY <1>6, KeyLimits DEF left
  <2> QED BY <2>1, <1>0, <1>1, <1>3, <1>4, KeyLimits
<1> QED BY <1>3, <1>5, <1>6

-----------------------------------------------------------------------------
LEMMA InitIsTyped == LimiterInit => LimiterInv
  BY KeyLimits, LimitsAssumption
     DEF LimiterInit, LimiterInv, LimiterTypeOK, Conserved, StampsAreFresh, WindowsAreDated,
         RetryWithinASecond, Bucket, NoBucket, NoPromise

(* The bucket a request finds, fresh or not. *)
LEMMA RefreshedBucket ==
    ASSUME LimiterInv, NEW w \in Workers, work[w].state = "checking"
    PROVE  LET k == work[w].key
               stamp == work[w].stamp
               b == Refreshed(k, stamp)
           IN  /\ k \in Keys
               /\ work[w] # NoWork
               /\ stamp \in Nat /\ stamp <= now /\ now <= stamp + Skew
               /\ b \in Bucket
               /\ b.tokens + GrantedIn(k, stamp) = Limit(k)
               /\ GrantedIn(k, stamp) \in Nat
               /\ Opened(k, stamp) \in [windows : Nat, at : Nat]
               /\ Opened(k, stamp).at <= now
               /\ b.start <= Opened(k, stamp).at
               /\ Opened(k, stamp).at <= b.start + Skew
               /\ PromisedIn(k, stamp) \in Nat \cup {NoPromise}
               /\ PromisedIn(k, stamp) # NoPromise
                      => b.start + Length(k) <= PromisedIn(k, stamp) + PerSecond
               /\ Elapsed(b.start, stamp) \in Nat
               /\ Elapsed(b.start, stamp) <= Length(k)
               /\ Elapsed(b.start, stamp) = 0 \/ stamp = b.start + Elapsed(b.start, stamp)
               /\ b.start <= stamp + Skew
<1> DEFINE k == work[w].key
           stamp == work[w].stamp
           b == Refreshed(k, stamp)
<1>1. work[w] \in Counting
  BY DEF LimiterInv, LimiterTypeOK, NoWork, Counting, Cleaning
<1>2. k \in Keys /\ stamp \in Nat /\ work[w] # NoWork
  BY <1>1 DEF Counting, NoWork
<1>3. stamp <= now /\ now <= stamp + Skew /\ now \in Nat
  BY <1>2, LimitsAssumption DEF LimiterInv, StampsAreFresh, LimiterTypeOK
<1>4. /\ buckets[k] \in Bucket \cup {NoBucket}
      /\ granted[k] \in Nat
      /\ opened[k] \in [windows : Nat, at : Nat]
      /\ promised[k] \in Nat \cup {NoPromise}
  BY <1>2 DEF LimiterInv, LimiterTypeOK
<1>5. CASE WindowOver(k, stamp)
  <2>1. /\ b = [tokens |-> Limit(k), start |-> stamp]
        /\ GrantedIn(k, stamp) = 0
        /\ Opened(k, stamp) = [windows |-> opened[k].windows + 1, at |-> now]
        /\ PromisedIn(k, stamp) = NoPromise
    BY <1>5 DEF Refreshed, GrantedIn, Opened, PromisedIn
  <2> HIDE DEF k, stamp, b
  <2>2. Elapsed(b.start, stamp) = 0
    BY <2>1, <1>2 DEF Elapsed
  <2> QED BY <2>1, <2>2, <1>2, <1>3, <1>4, KeyLimits DEF Bucket, NoPromise, k, stamp, b
<1>6. CASE ~ WindowOver(k, stamp)
  <2>1. /\ b = buckets[k]
        /\ buckets[k] # NoBucket
        /\ GrantedIn(k, stamp) = granted[k]
        /\ Opened(k, stamp) = opened[k]
        /\ PromisedIn(k, stamp) = promised[k]
        /\ ~ (Elapsed(buckets[k].start, stamp) >= Length(k))
    BY <1>6 DEF WindowOver, Refreshed, GrantedIn, Opened, PromisedIn
  <2>2. /\ buckets[k].tokens + granted[k] = Limit(k)
        /\ opened[k].at <= now
        /\ buckets[k].start <= opened[k].at
        /\ opened[k].at <= buckets[k].start + Skew
        /\ promised[k] # NoPromise => buckets[k].start + Length(k) <= promised[k] + PerSecond
    BY <2>1, <1>2 DEF LimiterInv, Conserved, WindowsAreDated, RetryWithinASecond
  <2> HIDE DEF k, stamp, b
  <2>3. b \in Bucket /\ b.start \in Nat
    BY <2>1, <1>4 DEF Bucket
  <2>4. /\ Elapsed(b.start, stamp) \in Nat
        /\ Elapsed(b.start, stamp) = 0 \/ stamp = b.start + Elapsed(b.start, stamp)
    BY <2>3, <1>2 DEF Elapsed
  <2>5. Elapsed(b.start, stamp) <= Length(k)
    BY <2>1, <2>4, <1>2, KeyLimits
  <2>6. b.start <= stamp + Skew
    BY <2>1, <2>2, <2>3, <1>2, <1>3, <1>4, LimitsAssumption
  <2> QED BY <2>1, <2>2, <2>3, <2>4, <2>5, <2>6, <1>2, <1>3, <1>4 DEF k, stamp, b
<1> QED BY <1>5, <1>6

(* A client's address is one of the addresses requests show. *)
LEMMA ClientHasKey ==
    ASSUME NEW a \in Arrivals
    PROVE  <<ClientIp(a), a.category>> \in Keys
<1>1. {a.forwarded, a.realIp, a.peer} \subseteq Addresses /\ Localhost \in Addresses
  BY DEF Addresses
<1>2. ClientIp(a) \in Addresses \ {NoAddress}
  BY <1>1, ArrivalsAssumption DEF ClientIp
<1> QED BY <1>2, ArrivalsAssumption DEF Keys

LEMMA NextKeepsInv == LimiterInv /\ [LimiterNext]_limiterVars => LimiterInv'
<1> SUFFICES ASSUME LimiterInv, [LimiterNext]_limiterVars PROVE LimiterInv'
  OBVIOUS
<1> USE DEF LimiterInv
<1>1. CASE ClockTick
  <2>1. LimiterTypeOK'
    BY <1>1, LimitsAssumption DEF ClockTick, LimiterTypeOK
  <2>2. Conserved' /\ RetryWithinASecond'
    BY <1>1 DEF ClockTick, Conserved, RetryWithinASecond, Limit, Length
  <2>3. StampsAreFresh'
    <3> SUFFICES ASSUME NEW w \in Workers, work[w] # NoWork
                 PROVE  work[w].stamp <= now + 1 /\ now + 1 <= work[w].stamp + Skew
      BY <1>1 DEF ClockTick, StampsAreFresh
    <3>1. work[w].stamp \in Nat /\ now \in Nat
      BY LimitsAssumption DEF LimiterTypeOK, Counting, Cleaning
    <3> QED BY <3>1, <1>1, LimitsAssumption DEF ClockTick, StampsAreFresh
  <2>4. WindowsAreDated'
    <3> SUFFICES ASSUME NEW k \in Keys
                 PROVE  /\ opened[k].at <= now + 1
                        /\ buckets[k] # NoBucket =>
                              /\ buckets[k].start <= opened[k].at
                              /\ opened[k].at <= buckets[k].start + Skew
                        /\ buckets[k] = NoBucket /\ opened[k].windows > 0 =>
                              now + 1 >= opened[k].at + Length(k) - Skew
      BY <1>1 DEF ClockTick, WindowsAreDated, Length
    <3>1. opened[k].at \in Nat /\ now \in Nat
      BY LimitsAssumption DEF LimiterTypeOK
    <3> QED BY <3>1, KeyLimits DEF WindowsAreDated
  <2> QED BY <2>1, <2>2, <2>3, <2>4
<1>2. ASSUME NEW w \in Workers, Arrive(w) PROVE LimiterInv'
  <2>1. PICK a \in Arrivals :
            work' = [work EXCEPT ![w] = [state |-> "checking",
                                         key   |-> <<ClientIp(a), a.category>>,
                                         stamp |-> now]]
    BY <1>2 DEF Arrive
  <2>2. now \in Nat /\ [state |-> "checking", key |-> <<ClientIp(a), a.category>>,
                        stamp |-> now] \in Counting
    BY ClientHasKey, LimitsAssumption DEF LimiterTypeOK, Counting
  <2>3. LimiterTypeOK'
    BY <1>2, <2>1, <2>2 DEF Arrive, LimiterTypeOK
  <2>4. StampsAreFresh'
    BY <1>2, <2>1, <2>2, LimitsAssumption DEF Arrive, StampsAreFresh, LimiterTypeOK
  <2> QED BY <1>2, <2>3, <2>4
          DEF Arrive, Conserved, RetryWithinASecond, WindowsAreDated, Limit, Length
<1>3. ASSUME NEW w \in Workers, Allow(w) PROVE LimiterInv'
  <2> DEFINE k == work[w].key
             stamp == work[w].stamp
             b == Refreshed(k, stamp)
  <2>1. /\ work[w].state = "checking"
        /\ b.tokens > 0
        /\ buckets' = [buckets EXCEPT ![k] = [b EXCEPT !.tokens = @ - 1]]
        /\ opened' = [opened EXCEPT ![k] = Opened(k, stamp)]
        /\ granted' = [granted EXCEPT ![k] = GrantedIn(k, stamp) + 1]
        /\ promised' = [promised EXCEPT ![k] = PromisedIn(k, stamp)]
        /\ work' = [work EXCEPT ![w] = NoWork]
        /\ UNCHANGED <<limiting, now>>
    BY <1>3 DEF Allow, Taken, Finish
  <2>2. /\ k \in Keys
        /\ stamp \in Nat /\ stamp <= now /\ now <= stamp + Skew
        /\ b \in Bucket
        /\ b.tokens + GrantedIn(k, stamp) = Limit(k)
        /\ GrantedIn(k, stamp) \in Nat
        /\ Opened(k, stamp) \in [windows : Nat, at : Nat]
        /\ Opened(k, stamp).at <= now
        /\ b.start <= Opened(k, stamp).at
        /\ Opened(k, stamp).at <= b.start + Skew
        /\ PromisedIn(k, stamp) \in Nat \cup {NoPromise}
        /\ PromisedIn(k, stamp) # NoPromise
               => b.start + Length(k) <= PromisedIn(k, stamp) + PerSecond
    BY <2>1, RefreshedBucket
  <2> HIDE DEF k, stamp, b
  <2>3. /\ [b EXCEPT !.tokens = @ - 1] \in Bucket
        /\ [b EXCEPT !.tokens = @ - 1] # NoBucket
        /\ [b EXCEPT !.tokens = @ - 1].tokens = b.tokens - 1
        /\ [b EXCEPT !.tokens = @ - 1].start = b.start
    BY <2>1, <2>2 DEF Bucket, NoBucket
  <2>4. LimiterTypeOK'
    BY <2>1, <2>2, <2>3 DEF LimiterTypeOK
  <2>5. Conserved'
    <3>1. /\ b.tokens \in Nat
          /\ Limit(k) \in Nat
          /\ GrantedIn(k, stamp) + 1 <= Limit(k)
          /\ b.tokens - 1 + GrantedIn(k, stamp) + 1 = Limit(k)
      BY <2>1, <2>2, KeyLimits DEF Bucket
    <3>2. \A j \in Keys : Limit(j)' = Limit(j)
      BY DEF Limit
    <3>3. ASSUME NEW j \in Keys, j # k
          PROVE  granted'[j] = granted[j] /\ buckets'[j] = buckets[j]
      BY <2>1, <3>3 DEF LimiterTypeOK
    <3>4. /\ granted'[k] = GrantedIn(k, stamp) + 1
          /\ buckets'[k].tokens = b.tokens - 1
      BY <2>1, <2>2, <2>3 DEF LimiterTypeOK
    <3> QED BY <2>2, <3>1, <3>2, <3>3, <3>4 DEF Conserved
  <2>6. StampsAreFresh'
    BY <2>1 DEF StampsAreFresh, LimiterTypeOK
  <2>7. WindowsAreDated'
    BY <2>1, <2>2, <2>3 DEF WindowsAreDated, LimiterTypeOK, Length
  <2>8. RetryWithinASecond'
    BY <2>1, <2>2, <2>3 DEF RetryWithinASecond, LimiterTypeOK, Length
  <2> QED BY <2>4, <2>5, <2>6, <2>7, <2>8
<1>4. ASSUME NEW w \in Workers, Refuse(w) PROVE LimiterInv'
  <2> DEFINE k == work[w].key
             stamp == work[w].stamp
             b == Refreshed(k, stamp)
             e == Elapsed(b.start, stamp)
             wait == RetryAfter(k, e) * PerSecond
             p == Earliest(PromisedIn(k, stamp), stamp + wait)
  <2>1. /\ work[w].state = "checking"
        /\ b.tokens = 0
        /\ buckets' = [buckets EXCEPT ![k] = b]
        /\ opened' = [opened EXCEPT ![k] = Opened(k, stamp)]
        /\ granted' = [granted EXCEPT ![k] = GrantedIn(k, stamp)]
        /\ promised' = [promised EXCEPT ![k] = p]
        /\ work' = [work EXCEPT ![w] = NoWork]
        /\ UNCHANGED <<limiting, now>>
    BY <1>4 DEF Refuse, Kept, Finish
  <2>2. /\ k \in Keys
        /\ stamp \in Nat /\ stamp <= now /\ now <= stamp + Skew
        /\ b \in Bucket
        /\ b.tokens + GrantedIn(k, stamp) = Limit(k)
        /\ GrantedIn(k, stamp) \in Nat
        /\ Opened(k, stamp) \in [windows : Nat, at : Nat]
        /\ Opened(k, stamp).at <= now
        /\ b.start <= Opened(k, stamp).at
        /\ Opened(k, stamp).at <= b.start + Skew
        /\ PromisedIn(k, stamp) \in Nat \cup {NoPromise}
        /\ PromisedIn(k, stamp) # NoPromise
               => b.start + Length(k) <= PromisedIn(k, stamp) + PerSecond
        /\ e \in Nat
        /\ e <= Length(k)
        /\ e = 0 \/ stamp = b.start + e
        /\ b.start <= stamp + Skew
    BY <2>1, RefreshedBucket
  <2> HIDE DEF k, stamp, b, e
  <2>3. /\ wait \in Nat
        /\ e + wait + PerSecond > Length(k)
        /\ e = 0 => wait + PerSecond >= Length(k) + Skew
    BY <2>2, RetryIsLongEnough
  <2> HIDE DEF wait
  <2>4. b # NoBucket /\ b.start \in Nat
    BY <2>2 DEF Bucket, NoBucket
  <2>5. b.start + Length(k) <= stamp + wait + PerSecond
    <3>1. CASE e = 0
      BY <3>1, <2>2, <2>3, <2>4, KeyLimits
    <3>2. CASE stamp = b.start + e
      BY <3>2, <2>2, <2>3, <2>4, KeyLimits
    <3> QED BY <3>1, <3>2, <2>2
  <2>6. p \in Nat /\ b.start + Length(k) <= p + PerSecond
    BY <2>2, <2>3, <2>5 DEF Earliest
  <2> HIDE DEF p
  <2>7. LimiterTypeOK'
    BY <2>1, <2>2, <2>6 DEF LimiterTypeOK
  <2>8. Conserved'
    BY <2>1, <2>2, <2>4, KeyLimits DEF Conserved, LimiterTypeOK, Limit, Bucket
  <2>9. StampsAreFresh'
    BY <2>1 DEF StampsAreFresh, LimiterTypeOK
  <2>10. WindowsAreDated'
    BY <2>1, <2>2, <2>4 DEF WindowsAreDated, LimiterTypeOK, Length
  <2>11. RetryWithinASecond'
    BY <2>1, <2>2, <2>6 DEF RetryWithinASecond, LimiterTypeOK, Length
  <2> QED BY <2>7, <2>8, <2>9, <2>10, <2>11
<1>5. ASSUME NEW w \in Workers, StartCleanup(w) PROVE LimiterInv'
  <2>1. now \in Nat /\ [state |-> "cleaning", stamp |-> now] \in Cleaning
    BY LimitsAssumption DEF LimiterTypeOK, Cleaning
  <2>2. LimiterTypeOK'
    BY <1>5, <2>1 DEF StartCleanup, LimiterTypeOK
  <2>3. StampsAreFresh'
    BY <1>5, <2>1, LimitsAssumption DEF StartCleanup, StampsAreFresh, LimiterTypeOK
  <2> QED BY <1>5, <2>2, <2>3
          DEF StartCleanup, Conserved, RetryWithinASecond, WindowsAreDated, Limit, Length
<1>6. ASSUME NEW w \in Workers, EndCleanup(w) PROVE LimiterInv'
  <2>1. LimiterTypeOK'
    BY <1>6 DEF EndCleanup, Finish, LimiterTypeOK
  <2>2. StampsAreFresh'
    BY <1>6 DEF EndCleanup, Finish, StampsAreFresh, LimiterTypeOK
  <2> QED BY <1>6, <2>1, <2>2
          DEF EndCleanup, Conserved, RetryWithinASecond, WindowsAreDated, Limit, Length
<1>7. ASSUME NEW w \in Workers, NEW k \in Keys, Remove(w, k) PROVE LimiterInv'
  <2>1. /\ buckets[k] # NoBucket
        /\ Elapsed(buckets[k].start, work[w].stamp) >= 2 * Length(k)
        /\ buckets' = [buckets EXCEPT ![k] = NoBucket]
        /\ UNCHANGED <<limiting, now, work, opened, granted, promised>>
    BY <1>7 DEF Remove, Stale
  <2>2. /\ work[w] # NoWork
        /\ work[w].stamp \in Nat
        /\ work[w].stamp <= now
        /\ now \in Nat
    BY <1>7, LimitsAssumption
       DEF Remove, LimiterTypeOK, StampsAreFresh, NoWork, Counting, Cleaning
  <2>3. /\ buckets[k].start \in Nat
        /\ opened[k].at \in Nat
        /\ opened[k].at <= buckets[k].start + Skew
    BY <2>1 DEF LimiterTypeOK, Bucket, WindowsAreDated
  <2>4. now >= opened[k].at + Length(k) - Skew
    BY <2>1, <2>2, <2>3, KeyLimits DEF Elapsed
  <2>5. LimiterTypeOK'
    BY <2>1 DEF LimiterTypeOK
  <2>6. Conserved' /\ RetryWithinASecond'
    BY <2>1 DEF Conserved, RetryWithinASecond, LimiterTypeOK, Limit, Length
  <2>7. StampsAreFresh'
    BY <2>1 DEF StampsAreFresh
  <2>8. WindowsAreDated'
    BY <2>1, <2>4 DEF WindowsAreDated, LimiterTypeOK, Length
  <2> QED BY <2>5, <2>6, <2>7, <2>8
<1>8. CASE UNCHANGED limiterVars
  BY <1>8 DEF limiterVars, LimiterTypeOK, Conserved, StampsAreFresh, WindowsAreDated,
              RetryWithinASecond, Limit, Length
<1> QED BY <1>1, <1>2, <1>3, <1>4, <1>5, <1>6, <1>7, <1>8 DEF LimiterNext

(* The inductive invariant holds in every state of the limiter. *)
THEOREM LimiterInvariance == LimiterSpec => []LimiterInv
  BY InitIsTyped, NextKeepsInv, PTL DEF LimiterSpec

(* A window hands out its budget and no more, however late requests are. *)
THEOREM BudgetIsKept == LimiterSpec => []WindowBudget
<1>1. LimiterInv => WindowBudget
  BY DEF LimiterInv, Conserved, WindowBudget
<1> QED BY <1>1, LimiterInvariance, PTL

(* A refused client that comes a second after it was told to finds the       *)
(* window that refused it over.                                              *)
THEOREM RetryAfterWithinASecond == LimiterSpec => []RetryWithinASecond
<1>1. LimiterInv => RetryWithinASecond
  BY DEF LimiterInv
<1> QED BY <1>1, LimiterInvariance, PTL

(* Windows of one client are at least a window's length, less the time a     *)
(* request may wait, apart, with the clean-up running whenever it likes.     *)
THEOREM WindowsKeepApart == LimiterSpec => WindowsApart
<1> DEFINE Apart == \A k \in Keys :
               opened'[k] # opened[k] /\ opened[k].windows > 0
                   => opened'[k].at >= opened[k].at + Length(k) - Skew
<1>1. LimiterInv /\ [LimiterNext]_limiterVars => [Apart]_limiterVars
  <2> SUFFICES ASSUME LimiterInv, LimiterNext PROVE Apart
    BY DEF limiterVars
  <2>1. ASSUME NEW w \in Workers, work[w].state = "checking", NEW k \in Keys,
               opened' = [opened EXCEPT ![work[w].key] = Opened(work[w].key, work[w].stamp)],
               opened'[k] # opened[k], opened[k].windows > 0
        PROVE  opened'[k].at >= opened[k].at + Length(k) - Skew
    <3>1. /\ work[w].stamp \in Nat
          /\ work[w].stamp <= now
          /\ now \in Nat
      BY <2>1, RefreshedBucket, LimitsAssumption DEF LimiterInv, LimiterTypeOK
    <3>2. k = work[w].key /\ opened'[k] = Opened(k, work[w].stamp)
      BY <2>1 DEF LimiterInv, LimiterTypeOK
    <3>3. WindowOver(k, work[w].stamp) /\ opened'[k].at = now
      BY <2>1, <3>2 DEF Opened
    <3>4. opened[k].at \in Nat
      BY DEF LimiterInv, LimiterTypeOK
    <3>5. CASE buckets[k] = NoBucket
      BY <3>3, <3>5, <2>1 DEF LimiterInv, WindowsAreDated
    <3>6. CASE buckets[k] # NoBucket
      <4>1. /\ buckets[k].start \in Nat
            /\ opened[k].at <= buckets[k].start + Skew
        BY <3>6 DEF LimiterInv, LimiterTypeOK, Bucket, WindowsAreDated
      <4>2. work[w].stamp >= buckets[k].start + Length(k)
        BY <3>1, <3>3, <3>6, <4>1, KeyLimits DEF WindowOver, Elapsed
      <4> QED BY <3>1, <3>3, <3>4, <4>1, <4>2, KeyLimits
    <3> QED BY <3>5, <3>6
  <2> QED BY <2>1 DEF LimiterNext, ClockTick, Arrive, Allow, Refuse, StartCleanup, EndCleanup, Remove
<1> QED BY <1>1, LimiterInvariance, PTL DEF LimiterSpec, WindowsApart

=============================================================================
