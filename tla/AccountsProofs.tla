--------------------------- MODULE AccountsProofs ---------------------------
(***************************************************************************)
(* Theorems about Accounts, for any number of requests, accounts,          *)
(* addresses and passwords, and whatever clients may write.                *)
(*                                                                         *)
(* The argument: every key in sight of account u, in its row, in a row     *)
(* some request is about to write, in a token out or under way, stands     *)
(* next to the password it was made for (Secrets).  A step moves such      *)
(* pairs around and never splits one; the only step that makes a pair is   *)
(* the read of an update that generates a key, and that key is new.        *)
(***************************************************************************)
EXTENDS Accounts, TLAPS

----------------------------------------------------------------------------
(* Types                                                                   *)

CarryingStates == {"issue", "refresh", "available", "confirm"}

\* The parts of a request's state have the types their step name says.
LEMMA ReqTypes ==
    ASSUME NEW q \in ReqState
    PROVE  /\ q.at \in CarryingStates => /\ q.token \in Token
                                         /\ q = [at |-> q.at, token |-> q.token]
           /\ q.at = "change" => q.user \in Users /\ q.to \in Emails
           /\ q.at = "read" => q.user \in Users /\ q.patch \in Patch
           /\ q.at = "write" => q.user \in Users /\ q.patch \in Patch /\ q.row \in Row
BY DEF ReqState, Idle, CarryingStates

\* ... and what is built of such parts is a state.
LEMMA StateTypes ==
    /\ Idle \in ReqState
    /\ \A a \in CarryingStates, t \in Token : [at |-> a, token |-> t] \in ReqState
    /\ \A u \in Users, e \in Emails : [at |-> "change", user |-> u, to |-> e] \in ReqState
    /\ \A u \in Users, p \in Patch : [at |-> "read", user |-> u, patch |-> p] \in ReqState
    /\ \A u \in Users, p \in Patch, w \in Row :
          [at |-> "write", user |-> u, patch |-> p, row |-> w] \in ReqState
BY DEF ReqState, Idle, CarryingStates

\* A token made from a row: well-typed, and it carries the row's pair.
LEMMA MadeFromRow ==
    ASSUME TypeOK, NEW u \in Users, NEW to \in Emails,
           NEW type \in {"Auth", "Verification", "PasswordReset", "EmailChange"}
    PROVE  /\ TokenFor(type, u, to) \in Token
           /\ TokenFor(type, u, to).user = u
           /\ Proof(TokenFor(type, u, to)) = Secret(rows[u])
BY DEF TypeOK, TokenFor, Token, Row, Proof, Secret

\* A merged row: well-typed; its pair is the old one, or the new key's.
LEMMA MergedRow ==
    ASSUME NEW row \in Row, NEW patch \in Patch, NEW key \in Nat
    PROVE  /\ Merged(row, patch, key) \in Row
           /\ ~NewKey(patch) => Secret(Merged(row, patch, key)) = Secret(row)
           /\ NewKey(patch) => Merged(row, patch, key).key = key
<1>1. CASE patch.set = "password"
  <2>1. patch.to \in Passwords
    BY <1>1 DEF Patch
  <2> QED BY <1>1, <2>1 DEF Merged, WithPassword, Row, NewKey
<1>2. CASE patch.set = "key"
  BY <1>2 DEF Merged, Row, NewKey
<1>3. CASE patch.set \in {"email", "address"}
  <2>1. patch.to \in Emails
    BY <1>3 DEF Patch
  <2> QED BY <1>3, <2>1 DEF Merged, Row, NewKey, Secret
<1>4. CASE patch.set = "verified"
  <2>1. patch.to \in BOOLEAN
    BY <1>4 DEF Patch
  <2> QED BY <1>4, <2>1 DEF Merged, Row, NewKey, Secret
<1>5. CASE patch.set = "other"
  BY <1>5 DEF Merged, NewKey
<1> QED BY <1>1, <1>2, <1>3, <1>4, <1>5 DEF Patch

----------------------------------------------------------------------------
(* Secrets                                                                 *)

\* The pair a request in state q holds for account u, if any.
Holds(q, u) ==
    {Secret(q.row) : x \in {y \in {q} : y.at = "write" /\ y.user = u}}
    \cup {Proof(q.token) : x \in {y \in {q} : y.at \in CarryingStates /\ y.token.user = u}}

\* Secrets, member by member: of the row, of a token out, of a request.
LEMMA SecretsByMember ==
    ASSUME NEW u \in Users, NEW s
    PROVE  s \in Secrets(u) <=>
              \/ s = Secret(rows[u])
              \/ \E t \in tokens : t.user = u /\ s = Proof(t)
              \/ \E r \in Requests : s \in Holds(req[r], u)
BY DEF Secrets, Holds, Carries, CarryingStates

\* ... and in the next state.
LEMMA SecretsByMemberNext ==
    ASSUME NEW u \in Users, NEW s
    PROVE  s \in Secrets(u)' <=>
              \/ s = Secret(rows'[u])
              \/ \E t \in tokens' : t.user = u /\ s = Proof(t)
              \/ \E r \in Requests : s \in Holds(req'[r], u)
BY DEF Secrets, Holds, Carries, CarryingStates, Secret, Proof

\* Keys are numbers.
LEMMA SecretTypes ==
    ASSUME TypeOK, NEW u \in Users, NEW s \in Secrets(u)
    PROVE  s.key \in Nat
<1>1. CASE s = Secret(rows[u])
  BY <1>1 DEF TypeOK, Row, Secret
<1>2. CASE \E t \in tokens : s = Proof(t)
  BY <1>2 DEF TypeOK, Token, Proof
<1>3. ASSUME NEW r \in Requests, s \in Holds(req[r], u)
      PROVE  s.key \in Nat
  <2>1. req[r] \in ReqState
    BY DEF TypeOK
  <2>2. \/ req[r].at = "write" /\ s = Secret(req[r].row)
        \/ req[r].at \in CarryingStates /\ s = Proof(req[r].token)
    BY <1>3 DEF Holds
  <2> QED BY <2>1, <2>2, ReqTypes DEF Row, Token, Secret, Proof
<1> QED BY <1>1, <1>2, <1>3, SecretsByMember

\* What a request carries or is about to write is among the secrets.
LEMMA HeldSecrets ==
    ASSUME TypeOK, NEW r \in Requests
    PROVE  /\ req[r].at \in CarryingStates => Proof(req[r].token) \in Secrets(req[r].token.user)
           /\ req[r].at = "write" => Secret(req[r].row) \in Secrets(req[r].user)
<1>1. req[r] \in ReqState
  BY DEF TypeOK
<1>2. CASE req[r].at \in CarryingStates
  <2>1. req[r].token.user \in Users
    BY <1>1, <1>2, ReqTypes DEF Token
  <2> QED BY <1>2, <2>1, SecretsByMember DEF Holds, CarryingStates
<1>3. CASE req[r].at = "write"
  <2>1. req[r].user \in Users
    BY <1>1, <1>3, ReqTypes
  <2> QED BY <1>3, <2>1, SecretsByMember DEF Holds, CarryingStates
<1> QED BY <1>2, <1>3

Pairs == OnePasswordPerKey /\ KeysWereGenerated

\* Pairs moved around, none made.
LEMMA NothingNew ==
    ASSUME Pairs, UNCHANGED generated, \A u \in Users : Secrets(u)' \subseteq Secrets(u)
    PROVE  Pairs'
BY DEF Pairs, OnePasswordPerKey, KeysWereGenerated

\* A step of one request that changes neither rows nor tokens.
LEMMA StepKeepsPairs ==
    ASSUME TypeOK, Pairs, NEW r \in Requests, NEW q, Goto(r, q),
           UNCHANGED <<rows, generated, tokens>>,
           \A u \in Users : Holds(q, u) \subseteq Secrets(u)
    PROVE  Pairs'
<1> SUFFICES ASSUME NEW u \in Users, NEW s \in Secrets(u)'
             PROVE  s \in Secrets(u)
  BY NothingNew
<1>1. \A p \in Requests : req'[p] = IF p = r THEN q ELSE req[p]
  BY DEF Goto, TypeOK
<1> QED BY <1>1, SecretsByMember, SecretsByMemberNext

\* States that hold nothing.
LEMMA HoldsNothing ==
    ASSUME NEW q, q.at \notin CarryingStates, q.at # "write", NEW u
    PROVE  Holds(q, u) = {}
BY DEF Holds

\* A state that carries a token holds the pair of that token.
LEMMA HoldsToken ==
    ASSUME NEW t, Proof(t) \in Secrets(t.user), NEW a \in CarryingStates, NEW u
    PROVE  Holds([at |-> a, token |-> t], u) \subseteq Secrets(u)
BY DEF Holds, CarryingStates

----------------------------------------------------------------------------
(* The invariant                                                           *)

\* Initially only the rows hold pairs, all with key 0.
LEMMA InitPairs == Init => IInv
<1> SUFFICES ASSUME Init PROVE IInv
  OBVIOUS
<1>1. TypeOK
  <2> DEFINE Rows0 == [email: Emails, verified: {FALSE}, password: Passwords, key: {0}]
  <2>3. Rows0 \subseteq Row
    <3>1. {FALSE} \subseteq BOOLEAN
      BY Zenon
    <3>2. \A V : V \subseteq BOOLEAN
            => [email: Emails, verified: V, password: Passwords, key: {0}] \subseteq Row
      BY DEF Row
    <3> QED BY <3>1, <3>2, Zenon
  <2>4. rows \in [Users -> Rows0]
    BY Zenon DEF Init
  <2> HIDE DEF Rows0
  <2>5. rows \in [Users -> Row]
    BY <2>3, <2>4
  <2>6. generated \in [Users -> Nat]
    BY DEF Init
  <2>1. rows \in [Users -> Row] /\ generated \in [Users -> Nat]
    BY <2>5, <2>6
  <2>2. req \in [Requests -> ReqState] /\ tokens \in SUBSET Token /\ marks \in SUBSET Marks
    BY StateTypes DEF Init
  <2> QED BY <2>1, <2>2 DEF TypeOK
<1>2. \A r \in Requests, u \in Users : Holds(req[r], u) = {}
  BY HoldsNothing DEF Init, Idle, CarryingStates
<1>3. \A u \in Users : Secrets(u) = {Secret(rows[u])}
  BY <1>2, SecretsByMember DEF Init
<1>4. \A u \in Users : Secret(rows[u]).key = 0 /\ generated[u] = 0
  BY DEF Init, Secret
<1> QED BY <1>1, <1>3, <1>4 DEF IInv, OnePasswordPerKey, KeysWereGenerated

\* One request goes to a well-typed state that holds nothing new.
LEMMA GotoKeeps ==
    ASSUME IInv, NEW r \in Requests, NEW q \in ReqState, Goto(r, q),
           UNCHANGED <<rows, generated, tokens>>, marks' \in SUBSET Marks,
           \A u \in Users : Holds(q, u) \subseteq Secrets(u)
    PROVE  IInv'
<1>1. TypeOK'
  BY DEF IInv, TypeOK, Goto
<1>2. Pairs'
  BY StepKeepsPairs DEF IInv, Pairs
<1> QED BY <1>1, <1>2 DEF IInv, Pairs

\* A request goes to carry a token whose pair is known.
LEMMA GotoCarrying ==
    ASSUME IInv, NEW r \in Requests, NEW a \in CarryingStates, NEW t \in Token,
           Proof(t) \in Secrets(t.user), Goto(r, [at |-> a, token |-> t]),
           UNCHANGED <<rows, generated, tokens>>, marks' \in SUBSET Marks
    PROVE  IInv'
<1>1. [at |-> a, token |-> t] \in ReqState
  BY StateTypes
<1>2. \A u \in Users : Holds([at |-> a, token |-> t], u) \subseteq Secrets(u)
  BY HoldsToken
<1> QED BY <1>1, <1>2, GotoKeeps

\* A request goes to a state that holds no pair.
LEMMA GotoEmptyHanded ==
    ASSUME IInv, NEW r \in Requests, NEW q \in ReqState,
           q.at \notin CarryingStates, q.at # "write", Goto(r, q),
           UNCHANGED <<rows, generated, tokens>>, marks' \in SUBSET Marks
    PROVE  IInv'
<1>1. \A u \in Users : Holds(q, u) \subseteq Secrets(u)
  BY HoldsNothing
<1> QED BY <1>1, GotoKeeps

\* Tokens out are well-typed and their pairs are known.
LEMMA TokensKnown ==
    ASSUME TypeOK, NEW t \in tokens
    PROVE  t \in Token /\ t.user \in Users /\ Proof(t) \in Secrets(t.user)
<1>1. t \in Token /\ t.user \in Users
  BY DEF TypeOK, Token
<1> QED BY <1>1, SecretsByMember

\* Starting an update holds no pair yet.
LEMMA GotoRead ==
    ASSUME IInv, NEW r \in Requests, NEW u \in Users, NEW patch \in Patch,
           Goto(r, [at |-> "read", user |-> u, patch |-> patch]),
           UNCHANGED <<rows, generated, tokens>>, marks' \in SUBSET Marks
    PROVE  IInv'
<1>1. [at |-> "read", user |-> u, patch |-> patch] \in ReqState
  BY StateTypes
<1> QED BY <1>1, GotoEmptyHanded DEF CarryingStates

\* A request that ends holds nothing.
LEMMA GotoIdle ==
    ASSUME IInv, NEW r \in Requests, Goto(r, Idle),
           UNCHANGED <<rows, generated, tokens>>, marks' \in SUBSET Marks
    PROVE  IInv'
BY StateTypes, GotoEmptyHanded DEF CarryingStates, Idle

\* A token for account u is made from its row and handed to the next step.
LEMMA GotoMade ==
    ASSUME IInv, NEW r \in Requests, NEW a \in CarryingStates,
           NEW u \in Users, NEW to \in Emails,
           NEW type \in {"Auth", "Verification", "PasswordReset", "EmailChange"},
           Goto(r, [at |-> a, token |-> TokenFor(type, u, to)]),
           UNCHANGED <<rows, generated, tokens>>, marks' \in SUBSET Marks
    PROVE  IInv'
<1>1. TypeOK
  BY DEF IInv
<1>2. /\ TokenFor(type, u, to) \in Token
      /\ Proof(TokenFor(type, u, to)) \in Secrets(TokenFor(type, u, to).user)
  BY <1>1, MadeFromRow, SecretsByMember
<1> QED BY <1>2, GotoCarrying

----------------------------------------------------------------------------
(* Login, refresh, and the requests for a mail                             *)

\* The first step of every request.
LEMMA StartKeeps ==
    ASSUME IInv, NEW r \in Requests, Start(r)
    PROVE  IInv'
<1>1. TypeOK /\ Active \subseteq Users /\ ClientPatches \subseteq Patch
  BY AccountAssumption DEF IInv
<1>2. \A u \in Users : rows[u].email \in Emails
  BY <1>1 DEF TypeOK, Row
<1>3. ASSUME NEW u \in Active, NEW password \in Passwords, AuthWithPassword(r, u, password)
      PROVE  IInv'
  <2>1. [TokenFor("Auth", u, rows[u].email) EXCEPT !.proof = password]
        = TokenFor("Auth", u, rows[u].email)
    BY <1>3 DEF AuthWithPassword, TokenFor
  <2>2. Goto(r, [at |-> "issue", token |-> TokenFor("Auth", u, rows[u].email)])
    BY <1>3, <2>1 DEF AuthWithPassword
  <2>3. UNCHANGED <<rows, generated, tokens>> /\ marks' \in SUBSET Marks
    BY <1>1, <1>3 DEF AuthWithPassword, TypeOK
  <2> QED BY <1>1, <1>2, <2>2, <2>3, GotoMade DEF CarryingStates
<1>4. ASSUME NEW token \in tokens, AuthRefresh(r, token)
      PROVE  IInv'
  <2>1. /\ Goto(r, [at |-> "refresh", token |-> token])
        /\ UNCHANGED <<rows, generated, tokens>> /\ marks' \in SUBSET Marks
    BY <1>1, <1>4 DEF AuthRefresh, TypeOK
  <2> QED BY <1>1, <2>1, TokensKnown, GotoCarrying DEF CarryingStates
<1>5. ASSUME NEW u \in Active, RequestVerification(r, u)
      PROVE  IInv'
  <2>1. /\ Goto(r, [at |-> "issue", token |-> TokenFor("Verification", u, rows[u].email)])
        /\ UNCHANGED <<rows, generated, tokens>> /\ marks' \in SUBSET Marks
    BY <1>1, <1>5 DEF RequestVerification, TypeOK
  <2> QED BY <1>1, <1>2, <2>1, GotoMade DEF CarryingStates
<1>6. ASSUME NEW token \in tokens, ConfirmVerification(r, token)
      PROVE  IInv'
  <2>1. /\ Goto(r, [at |-> "read", user |-> token.user,
                     patch |-> [set |-> "verified", to |-> TRUE]])
        /\ UNCHANGED <<rows, generated, tokens>> /\ marks' \in SUBSET Marks
    BY <1>1, <1>6 DEF ConfirmVerification, TypeOK
  <2>2. [set |-> "verified", to |-> TRUE] \in Patch
    BY DEF Patch
  <2> QED BY <1>1, <2>1, <2>2, TokensKnown, GotoRead
<1>7. ASSUME NEW u \in Active, RequestPasswordReset(r, u)
      PROVE  IInv'
  <2>1. /\ Goto(r, [at |-> "issue", token |-> TokenFor("PasswordReset", u, rows[u].email)])
        /\ UNCHANGED <<rows, generated, tokens>> /\ marks' \in SUBSET Marks
    BY <1>1, <1>7 DEF RequestPasswordReset, TypeOK
  <2> QED BY <1>1, <1>2, <2>1, GotoMade DEF CarryingStates
<1>8. ASSUME NEW token \in tokens, NEW password \in Passwords,
             ConfirmPasswordReset(r, token, password)
      PROVE  IInv'
  <2>1. /\ Goto(r, [at |-> "read", user |-> token.user,
                     patch |-> [set |-> "password", to |-> password]])
        /\ UNCHANGED <<rows, generated, tokens>> /\ marks' \in SUBSET Marks
    BY <1>1, <1>8 DEF ConfirmPasswordReset, TypeOK
  <2>2. [set |-> "password", to |-> password] \in Patch
    BY DEF Patch
  <2> QED BY <1>1, <2>1, <2>2, TokensKnown, GotoRead
<1>9. ASSUME NEW token \in tokens, NEW email \in Emails, RequestEmailChange(r, token, email)
      PROVE  IInv'
  <2>1. /\ Goto(r, [at |-> "change", user |-> token.user, to |-> email])
        /\ UNCHANGED <<rows, generated, tokens>> /\ marks' \in SUBSET Marks
    BY <1>1, <1>9 DEF RequestEmailChange, TypeOK
  <2>2. [at |-> "change", user |-> token.user, to |-> email] \in ReqState
    BY <1>1, TokensKnown, StateTypes
  <2> QED BY <2>1, <2>2, GotoEmptyHanded DEF CarryingStates
<1>10. ASSUME NEW token \in tokens, ConfirmEmailChange(r, token)
       PROVE  IInv'
  <2>1. /\ Goto(r, [at |-> "confirm", token |-> token])
        /\ UNCHANGED <<rows, generated, tokens>> /\ marks' \in SUBSET Marks
    BY <1>1, <1>10 DEF ConfirmEmailChange, TypeOK
  <2> QED BY <1>1, <2>1, TokensKnown, GotoCarrying DEF CarryingStates
<1>11. ASSUME NEW u \in Active, NEW patch \in ClientPatches, UpdateRecord(r, u, patch)
       PROVE  IInv'
  <2>1. /\ Goto(r, [at |-> "read", user |-> u, patch |-> patch])
        /\ UNCHANGED <<rows, generated, tokens>>
    BY <1>11 DEF UpdateRecord
  <2>2. marks' \in SUBSET Marks
    BY <1>1, <1>11 DEF UpdateRecord, TypeOK, Marks
  <2> QED BY <1>1, <2>1, <2>2, GotoRead
<1> QED BY <1>3, <1>4, <1>5, <1>6, <1>7, <1>8, <1>9, <1>10, <1>11 DEF Start

----------------------------------------------------------------------------
(* The later steps                                                         *)

\* What a carrying request carries.
LEMMA Carried ==
    ASSUME TypeOK, NEW r \in Requests, req[r].at \in CarryingStates
    PROVE  /\ req[r].token \in Token /\ req[r].token.user \in Users
           /\ req[r].token.to \in Emails
           /\ Proof(req[r].token) \in Secrets(req[r].token.user)
           /\ req[r] = [at |-> req[r].at, token |-> req[r].token]
<1>1. req[r] \in ReqState
  BY DEF TypeOK
<1> QED BY <1>1, ReqTypes, HeldSecrets DEF Token

\* Refresh hands on the token it was given.
LEMMA ReissueKeeps ==
    ASSUME IInv, NEW r \in Requests, Reissue(r)
    PROVE  IInv'
<1>1. TypeOK /\ req[r].at \in CarryingStates
  BY DEF IInv, Reissue, CarryingStates
<1>2. UNCHANGED <<rows, generated, tokens>> /\ marks' \in SUBSET Marks
  BY <1>1 DEF Reissue, TypeOK
<1>3. \/ Goto(r, [at |-> "issue", token |-> req[r].token])
      \/ Goto(r, Idle)
  BY DEF Reissue
<1> QED BY <1>1, <1>2, <1>3, Carried, GotoCarrying, GotoIdle DEF CarryingStates

\* The token a request carried is out.
LEMMA IssueKeeps ==
    ASSUME IInv, NEW r \in Requests, Issue(r)
    PROVE  IInv'
<1>1. TypeOK /\ Pairs /\ req[r].at \in CarryingStates
  BY DEF IInv, Issue, CarryingStates, Pairs
<1>2. /\ tokens' = tokens \cup {req[r].token} /\ Goto(r, Idle)
      /\ UNCHANGED <<rows, generated, marks>>
  BY DEF Issue
<1>3. TypeOK'
  BY <1>1, <1>2, Carried, StateTypes DEF TypeOK, Goto
<1>4. ASSUME NEW u \in Users, NEW s \in Secrets(u)'
      PROVE  s \in Secrets(u)
  <2>1. \A p \in Requests : req'[p] = IF p = r THEN Idle ELSE req[p]
    BY <1>1, <1>2 DEF Goto, TypeOK
  <2>2. Holds(Idle, u) = {}
    BY HoldsNothing DEF Idle, CarryingStates
  <2>3. \A t \in tokens' : t \in tokens \/ Proof(t) \in Secrets(t.user)
    BY <1>1, <1>2, Carried
  <2> QED BY <1>2, <2>1, <2>2, <2>3, SecretsByMember, SecretsByMemberNext
<1> QED BY <1>1, <1>2, <1>3, <1>4, NothingNew DEF IInv, Pairs

\* The token of an email change is made from the account's row.
LEMMA LoadAccountKeeps ==
    ASSUME IInv, NEW r \in Requests, LoadAccount(r)
    PROVE  IInv'
<1>1. TypeOK
  BY DEF IInv
<1>2. req[r] \in ReqState /\ req[r].at = "change"
  BY <1>1 DEF TypeOK, LoadAccount
<1>3. req[r].user \in Users /\ req[r].to \in Emails
  BY <1>2, ReqTypes
<1>4. UNCHANGED <<rows, generated, tokens>> /\ marks' \in SUBSET Marks
  BY <1>1 DEF LoadAccount, TypeOK
<1>5. \/ Goto(r, [at |-> "available", token |-> TokenFor("EmailChange", req[r].user, req[r].to)])
      \/ Goto(r, Idle)
  BY DEF LoadAccount
<1> QED BY <1>3, <1>4, <1>5, GotoMade, GotoIdle DEF CarryingStates

\* ... and handed on, if nobody has the new address.
LEMMA CheckAvailableKeeps ==
    ASSUME IInv, NEW r \in Requests, CheckAvailable(r)
    PROVE  IInv'
<1>1. TypeOK /\ req[r].at \in CarryingStates
  BY DEF IInv, CheckAvailable, CarryingStates
<1>2. UNCHANGED <<rows, generated, tokens>> /\ marks' \in SUBSET Marks
  BY <1>1 DEF CheckAvailable, TypeOK
<1>3. [req[r] EXCEPT !.at = "issue"] = [at |-> "issue", token |-> req[r].token]
  <2>1. \A a, t : [[at |-> a, token |-> t] EXCEPT !.at = "issue"] = [at |-> "issue", token |-> t]
    OBVIOUS
  <2>2. req[r] = [at |-> req[r].at, token |-> req[r].token]
    BY <1>1, Carried
  <2> QED BY <2>1, <2>2, Zenon
<1>4. \/ Goto(r, [at |-> "issue", token |-> req[r].token])
      \/ Goto(r, Idle)
  BY <1>3 DEF CheckAvailable
<1> QED BY <1>1, <1>2, <1>4, Carried, GotoCarrying, GotoIdle DEF CarryingStates

\* A confirmed email change starts an update.
LEMMA CheckStillAvailableKeeps ==
    ASSUME IInv, NEW r \in Requests, CheckStillAvailable(r)
    PROVE  IInv'
<1>1. TypeOK /\ req[r].at \in CarryingStates
  BY DEF IInv, CheckStillAvailable, CarryingStates
<1>2. UNCHANGED <<rows, generated, tokens>> /\ marks' \in SUBSET Marks
  BY <1>1 DEF CheckStillAvailable, TypeOK
<1>3. req[r].token.user \in Users /\ [set |-> "address", to |-> req[r].token.to] \in Patch
  BY <1>1, Carried DEF Patch
<1>4. \/ Goto(r, [at |-> "read", user |-> req[r].token.user,
                  patch |-> [set |-> "address", to |-> req[r].token.to]])
      \/ Goto(r, Idle)
  BY DEF CheckStillAvailable
<1> QED BY <1>2, <1>3, <1>4, GotoRead, GotoIdle

\* find_one and the merge: the only step that makes a pair.
LEMMA ReadKeeps ==
    ASSUME IInv, NEW r \in Requests, Read(r)
    PROVE  IInv'
<1> DEFINE id == req[r].user
           patch == req[r].patch
           key == generated[id] + 1
           row == Merged(rows[id], patch, key)
           q == [at |-> "write", user |-> id, patch |-> patch, row |-> row]
<1>1. TypeOK /\ Pairs
  BY DEF IInv, Pairs
<1>2. req[r] \in ReqState /\ req[r].at = "read"
  BY <1>1 DEF TypeOK, Read
<1>3. id \in Users /\ patch \in Patch
  BY <1>2, ReqTypes
<1>4. /\ generated' = IF NewKey(patch) THEN [generated EXCEPT ![id] = key] ELSE generated
      /\ Goto(r, q) /\ UNCHANGED <<rows, tokens, marks>>
  BY DEF Read
<1>5. generated[id] \in Nat /\ key \in Nat /\ rows[id] \in Row
  BY <1>1, <1>3 DEF TypeOK
<1>6. /\ row \in Row
      /\ ~NewKey(patch) => Secret(row) = Secret(rows[id])
      /\ NewKey(patch) => Secret(row).key = key
  BY <1>3, <1>5, MergedRow DEF Secret
<1>7. q \in ReqState
  BY <1>3, <1>6, StateTypes
<1>8. \A u \in Users : Holds(q, u) = IF u = id THEN {Secret(row)} ELSE {}
  BY DEF Holds, CarryingStates
<1> HIDE DEF row, q, key
<1>9. TypeOK'
  <2>1. generated' \in [Users -> Nat]
    BY <1>1, <1>4, <1>5 DEF TypeOK
  <2>2. req' \in [Requests -> ReqState]
    BY <1>1, <1>4, <1>7 DEF TypeOK, Goto
  <2> QED BY <1>1, <1>4, <2>1, <2>2 DEF TypeOK
<1>10. \A p \in Requests : req'[p] = IF p = r THEN q ELSE req[p]
  BY <1>1, <1>4 DEF Goto, TypeOK
<1>11. ASSUME NEW u \in Users, NEW s \in Secrets(u)'
       PROVE  s \in Secrets(u) \/ (u = id /\ s = Secret(row))
  BY <1>4, <1>8, <1>10, SecretsByMember, SecretsByMemberNext
<1>12. CASE ~NewKey(patch)
  <2>1. Secret(row) \in Secrets(id)
    BY <1>3, <1>6, <1>12, SecretsByMember
  <2>2. \A u \in Users : Secrets(u)' \subseteq Secrets(u)
    BY <1>11, <2>1
  <2> QED BY <1>1, <1>4, <1>9, <1>12, <2>2, NothingNew DEF IInv, Pairs
<1>13. CASE NewKey(patch)
  <2>1. generated' = [generated EXCEPT ![id] = key]
    BY <1>4, <1>13
  <2>2. \A u \in Users : generated'[u] = IF u = id THEN key ELSE generated[u]
    BY <1>1, <2>1 DEF TypeOK
  <2>3. Secret(row).key = key
    BY <1>6, <1>13
  <2>4. \A s \in Secrets(id) : s.key \in Nat /\ s.key <= generated[id]
    <3>1. \A s \in Secrets(id) : s.key <= generated[id]
      BY <1>1, <1>3 DEF Pairs, KeysWereGenerated
    <3>2. \A s \in Secrets(id) : s.key \in Nat
      BY <1>1, <1>3, SecretTypes
    <3> QED BY <3>1, <3>2
  <2>5. \A s \in Secrets(id) : s.key # key
    BY <1>5, <2>4 DEF key
  <2>6. OnePasswordPerKey'
    <3> SUFFICES ASSUME NEW u \in Users, NEW s \in Secrets(u)', NEW t \in Secrets(u)',
                        s.key = t.key
                 PROVE  s.password = t.password
      BY DEF OnePasswordPerKey
    <3>1. CASE s \in Secrets(u) /\ t \in Secrets(u)
      BY <1>1, <3>1 DEF Pairs, OnePasswordPerKey
    <3>2. CASE s \notin Secrets(u) \/ t \notin Secrets(u)
      BY <1>11, <2>3, <2>5, <3>2
    <3> QED BY <3>1, <3>2
  <2>7. KeysWereGenerated'
    <3> SUFFICES ASSUME NEW u \in Users, NEW s \in Secrets(u)'
                 PROVE  s.key <= generated'[u]
      BY DEF KeysWereGenerated
    <3>1. CASE u # id
      <4>1. s \in Secrets(u) /\ generated'[u] = generated[u]
        BY <1>11, <2>2, <3>1
      <4> QED BY <1>1, <4>1 DEF Pairs, KeysWereGenerated
    <3>2. CASE u = id
      <4>1. generated'[u] = key
        BY <2>2, <3>2
      <4>2. CASE s \in Secrets(u)
        BY <1>5, <2>4, <3>2, <4>1, <4>2 DEF key
      <4>3. CASE s = Secret(row)
        BY <1>5, <2>3, <4>1, <4>3
      <4> QED BY <1>11, <3>2, <4>2, <4>3
    <3> QED BY <3>1, <3>2
  <2> QED BY <1>9, <2>6, <2>7 DEF IInv
<1> QED BY <1>12, <1>13

\* repo.update: the pair the request held becomes the row's.
LEMMA WriteKeeps ==
    ASSUME IInv, NEW r \in Requests, Write(r)
    PROVE  IInv'
<1> DEFINE id == req[r].user
           q == AfterUpdate(id, req[r].patch)
<1>1. TypeOK /\ Pairs
  BY DEF IInv, Pairs
<1>2. req[r] \in ReqState /\ req[r].at = "write"
  BY <1>1 DEF TypeOK, Write
<1>3. id \in Users /\ req[r].row \in Row /\ Secret(req[r].row) \in Secrets(id)
  BY <1>1, <1>2, ReqTypes, HeldSecrets
<1>4. /\ rows' = [rows EXCEPT ![id] = req[r].row]
      /\ Goto(r, q) /\ UNCHANGED <<generated, tokens>>
  BY DEF Write
<1>5. q \in ReqState /\ q.at \notin CarryingStates /\ q.at # "write"
  <2>1. [set |-> "key"] \in Patch
    BY DEF Patch
  <2>2. [at |-> "read", user |-> id, patch |-> [set |-> "key"]] \in ReqState
    BY <1>3, <2>1, StateTypes
  <2> QED BY <2>2, StateTypes DEF AfterUpdate, CarryingStates, Idle
<1> HIDE DEF q
<1>6. TypeOK'
  <2>1. marks' \in SUBSET Marks
    BY <1>1, <1>3 DEF Write, TypeOK, Marks
  <2> QED BY <1>1, <1>3, <1>4, <1>5, <2>1 DEF TypeOK, Goto
<1>7. /\ \A p \in Requests : req'[p] = IF p = r THEN q ELSE req[p]
      /\ \A u \in Users : rows'[u] = IF u = id THEN req[r].row ELSE rows[u]
  BY <1>1, <1>4 DEF Goto, TypeOK
<1>8. ASSUME NEW u \in Users, NEW s \in Secrets(u)'
      PROVE  s \in Secrets(u)
  <2>1. Holds(q, u) = {}
    BY <1>5, HoldsNothing
  <2> QED BY <1>3, <1>4, <1>7, <2>1, SecretsByMember, SecretsByMemberNext
<1> QED BY <1>1, <1>4, <1>6, <1>8, NothingNew DEF IInv, Pairs

\* A request that fails leaves rows and tokens alone.
LEMMA WriteConflictKeeps ==
    ASSUME IInv, NEW r \in Requests, WriteConflict(r) \/ Fail(r)
    PROVE  IInv'
<1>1. CASE WriteConflict(r)
  BY <1>1, GotoIdle DEF WriteConflict, IInv, TypeOK
<1>2. CASE Fail(r)
  <2>1. HalfDone(r) => req[r].user \in Users
    BY ReqTypes DEF HalfDone, IInv, TypeOK
  <2>2. marks' \in SUBSET Marks
    BY <1>2, <2>1 DEF Fail, IInv, TypeOK, Marks
  <2> QED BY <1>2, <2>2, GotoIdle DEF Fail
<1> QED BY <1>1, <1>2

----------------------------------------------------------------------------
(* Theorems                                                                *)

(***************************************************************************)
(* The inductive invariant of the account model: rows, tokens and requests *)
(* stay well-typed, no key of an account ever stands for two passwords,    *)
(* and no key is in sight before it was generated.                         *)
(***************************************************************************)
THEOREM Invariance == Spec => []IInv
<1>1. Init => IInv
  BY InitPairs
<1>2. IInv /\ [Next]_vars => IInv'
  <2> SUFFICES ASSUME IInv, [Next]_vars PROVE IInv'
    OBVIOUS
  <2>1. ASSUME NEW r \in Requests, Start(r) \/ Step(r)
        PROVE  IInv'
    <3>1. CASE Start(r)
      BY <3>1, StartKeeps
    <3>2. CASE Step(r)
      BY <3>2, ReissueKeeps, IssueKeeps, LoadAccountKeeps, CheckAvailableKeeps,
         CheckStillAvailableKeeps, ReadKeeps, WriteKeeps, WriteConflictKeeps DEF Step
    <3> QED BY <2>1, <3>1, <3>2
  <2>2. CASE UNCHANGED vars
    <3>1. TypeOK' /\ UNCHANGED generated
      BY <2>2 DEF vars, IInv, TypeOK
    <3>2. \A u \in Users : Secrets(u)' \subseteq Secrets(u)
      BY <2>2, SecretsByMember, SecretsByMemberNext DEF vars
    <3> QED BY <3>1, <3>2, NothingNew DEF IInv, Pairs
  <2> QED BY <2>1, <2>2 DEF Next
<1> QED BY <1>1, <1>2, PTL DEF Spec

(***************************************************************************)
(* An accepted token was bought or mailed under the password the account   *)
(* has now, for any number of concurrent requests and whatever stale rows  *)
(* they write back.                                                        *)
(***************************************************************************)
THEOREM TokensDie == Spec => []TokensDieWithPassword
<1>1. IInv => TokensDieWithPassword
  <2> SUFFICES ASSUME IInv, NEW t \in tokens, Accepted(t)
               PROVE  t.proof = rows[t.user].password
    BY DEF TokensDieWithPassword
  <2>1. t.user \in Users /\ Proof(t) \in Secrets(t.user)
    BY TokensKnown DEF IInv
  <2>2. Secret(rows[t.user]) \in Secrets(t.user)
    BY <2>1, SecretsByMember
  <2>3. Proof(t).key = Secret(rows[t.user]).key
    BY DEF Accepted, Proof, Secret
  <2>4. Proof(t).password = Secret(rows[t.user]).password
    BY <2>1, <2>2, <2>3 DEF IInv, OnePasswordPerKey
  <2> QED BY <2>4 DEF Proof, Secret
<1> QED BY <1>1, Invariance, PTL

----------------------------------------------------------------------------
(* Keys only grow, but where an update is overtaken                        *)

\* The row r is about to write has the row's key and password, or a newer key, unless
\* another request has written the row since r read it.
AheadOf(r) ==
    req[r].at = "write" /\ <<req[r].user, "overtaken">> \notin marks =>
        LET old == rows[req[r].user]
            new == req[r].row
        IN  /\ new.key >= old.key
            /\ new.password # old.password => new.key > old.key

Ahead == \A r \in Requests : AheadOf(r)

\* It is read into being so ...
LEMMA ReadIsAhead ==
    ASSUME IInv, NEW r \in Requests, Read(r)
    PROVE  AheadOf(r)' /\ rows' = rows
<1> DEFINE id == req[r].user
           patch == req[r].patch
           key == generated[id] + 1
           row == Merged(rows[id], patch, key)
<1>1. TypeOK
  BY DEF IInv
<1>2. req[r] \in ReqState /\ req[r].at = "read"
  BY <1>1 DEF TypeOK, Read
<1>3. id \in Users /\ patch \in Patch
  BY <1>2, ReqTypes
<1>4. generated[id] \in Nat /\ key \in Nat /\ rows[id] \in Row
  BY <1>1, <1>3 DEF TypeOK
<1>5. rows[id].key \in Nat /\ rows[id].key <= generated[id]
  <2>1. Secret(rows[id]) \in Secrets(id)
    BY <1>3, SecretsByMember
  <2> QED BY <1>3, <1>4, <2>1 DEF IInv, KeysWereGenerated, Secret, Row
<1>6. /\ req'[r] = [at |-> "write", user |-> id, patch |-> patch, row |-> row]
      /\ rows' = rows
  BY <1>1 DEF Read, Goto, TypeOK
<1>7. row.key >= rows[id].key /\ (row.password # rows[id].password => row.key > rows[id].key)
  <2>1. CASE NewKey(patch)
    <3>1. row.key = key
      BY <1>3, <1>4, <2>1, MergedRow
    <3> QED BY <1>4, <1>5, <3>1 DEF key
  <2>2. CASE ~NewKey(patch)
    <3>1. Secret(row) = Secret(rows[id])
      BY <1>3, <1>4, <2>2, MergedRow
    <3>2. row.key = rows[id].key /\ row.password = rows[id].password
      BY <3>1 DEF Secret
    <3> QED BY <1>5, <3>2
  <2> QED BY <2>1, <2>2
<1> HIDE DEF row
<1> QED BY <1>6, <1>7 DEF AheadOf

\* ... and every other step leaves its request no row to write.
LEMMA OthersWriteNothing ==
    ASSUME TypeOK, NEW r \in Requests, Start(r) \/ Step(r), ~Read(r)
    PROVE  req'[r].at # "write" /\ (~Write(r) => rows' = rows)
<1>1. \A q : Goto(r, q) => req'[r] = q
  BY DEF Goto, TypeOK
<1>2. CASE Start(r)
  <2>1. req[r] = Idle
    BY <1>2 DEF Start, AuthWithPassword, AuthRefresh, RequestVerification,
       ConfirmVerification, RequestPasswordReset, ConfirmPasswordReset,
       RequestEmailChange, ConfirmEmailChange, UpdateRecord
  <2>2. rows' = rows
    BY <1>2 DEF Start, AuthWithPassword, AuthRefresh, RequestVerification,
       ConfirmVerification, RequestPasswordReset, ConfirmPasswordReset,
       RequestEmailChange, ConfirmEmailChange, UpdateRecord
  <2>3. req'[r].at # "write"
    <3>1. ASSUME NEW u \in Active, NEW password \in Passwords, AuthWithPassword(r, u, password)
          PROVE  req'[r].at # "write"
      BY <1>1, <3>1 DEF AuthWithPassword
    <3>2. ASSUME NEW token \in tokens, AuthRefresh(r, token)
          PROVE  req'[r].at # "write"
      BY <1>1, <3>2 DEF AuthRefresh
    <3>3. ASSUME NEW u \in Active, RequestVerification(r, u)
          PROVE  req'[r].at # "write"
      BY <1>1, <3>3 DEF RequestVerification
    <3>4. ASSUME NEW token \in tokens, ConfirmVerification(r, token)
          PROVE  req'[r].at # "write"
      BY <1>1, <3>4 DEF ConfirmVerification
    <3>5. ASSUME NEW u \in Active, RequestPasswordReset(r, u)
          PROVE  req'[r].at # "write"
      BY <1>1, <3>5 DEF RequestPasswordReset
    <3>6. ASSUME NEW token \in tokens, NEW password \in Passwords, ConfirmPasswordReset(r, token, password)
          PROVE  req'[r].at # "write"
      BY <1>1, <3>6 DEF ConfirmPasswordReset
    <3>7. ASSUME NEW token \in tokens, NEW email \in Emails, RequestEmailChange(r, token, email)
          PROVE  req'[r].at # "write"
      BY <1>1, <3>7 DEF RequestEmailChange
    <3>8. ASSUME NEW token \in tokens, ConfirmEmailChange(r, token)
          PROVE  req'[r].at # "write"
      BY <1>1, <3>8 DEF ConfirmEmailChange
    <3>9. ASSUME NEW u \in Active, NEW patch \in ClientPatches, UpdateRecord(r, u, patch)
          PROVE  req'[r].at # "write"
      BY <1>1, <3>9 DEF UpdateRecord
    <3> QED BY <1>2, <3>1, <3>2, <3>3, <3>4, <3>5, <3>6, <3>7, <3>8, <3>9 DEF Start
  <2> QED BY <2>2, <2>3
<1>3. CASE Step(r)
  <2>1. CASE Reissue(r)
    BY <1>1, <2>1 DEF Reissue, Idle
  <2>2. CASE Issue(r)
    BY <1>1, <2>2 DEF Issue, Idle
  <2>3. CASE LoadAccount(r)
    BY <1>1, <2>3 DEF LoadAccount, Idle
  <2>4. CASE CheckAvailable(r)
    <3>1. req[r].at \in CarryingStates
      BY <2>4 DEF CheckAvailable, CarryingStates
    <3>2. req[r] = [at |-> req[r].at, token |-> req[r].token]
      BY <3>1, Carried
    <3>3. \A a, t : [[at |-> a, token |-> t] EXCEPT !.at = "issue"].at = "issue"
      OBVIOUS
    <3>4. [req[r] EXCEPT !.at = "issue"].at = "issue"
      BY <3>2, <3>3, Zenon
    <3>5. Goto(r, [req[r] EXCEPT !.at = "issue"]) \/ Goto(r, Idle)
      BY <2>4 DEF CheckAvailable
    <3>6. req'[r].at # "write"
      <4> DEFINE q == [req[r] EXCEPT !.at = "issue"]
      <4>1. q.at = "issue" /\ (Goto(r, q) \/ Goto(r, Idle))
        BY <3>4, <3>5
      <4> HIDE DEF q
      <4> QED BY <1>1, <4>1 DEF Idle
    <3> QED BY <2>4, <3>6 DEF CheckAvailable
  <2>5. CASE CheckStillAvailable(r)
    BY <1>1, <2>5 DEF CheckStillAvailable, Idle
  <2>6. CASE Write(r)
    <3>1. Goto(r, AfterUpdate(req[r].user, req[r].patch))
      BY <2>6 DEF Write
    <3>2. AfterUpdate(req[r].user, req[r].patch).at # "write"
      BY DEF AfterUpdate, Idle
    <3> QED BY <1>1, <2>6, <3>1, <3>2
  <2>7. CASE WriteConflict(r) \/ Fail(r)
    BY <1>1, <2>7 DEF WriteConflict, Fail, Idle
  <2> QED BY <1>3, <2>1, <2>2, <2>3, <2>4, <2>5, <2>6, <2>7 DEF Step
<1> QED BY <1>2, <1>3

\* A step moves one request, and takes no mark away.
LEMMA StepsAreLocal ==
    ASSUME TypeOK, NEW r \in Requests, Start(r) \/ Step(r)
    PROVE  /\ \A p \in Requests \ {r} : req'[p] = req[p]
           /\ marks \subseteq marks'
<1>1. \A q : Goto(r, q) => \A p \in Requests \ {r} : req'[p] = req[p]
  BY DEF Goto, TypeOK
<1>2. CASE Start(r)
  BY <1>1, <1>2 DEF Start, AuthWithPassword, AuthRefresh, RequestVerification,
     ConfirmVerification, RequestPasswordReset, ConfirmPasswordReset,
     RequestEmailChange, ConfirmEmailChange, UpdateRecord
<1>3. CASE Step(r)
  BY <1>1, <1>3 DEF Step, Reissue, Issue, LoadAccount, CheckAvailable,
     CheckStillAvailable, Read, Write, WriteConflict, Fail
<1> QED BY <1>2, <1>3

\* A write marks the account if somebody else is about to write its row.
LEMMA WriteKeepsAhead ==
    ASSUME TypeOK, Ahead, NEW r \in Requests, Write(r)
    PROVE  /\ Ahead'
           /\ \A u \in Users : <<u, "overtaken">> \notin marks =>
                 /\ rows[u].key \in Nat => rows'[u].key >= rows[u].key
                 /\ rows'[u].password # rows[u].password => rows'[u].key > rows[u].key
<1> DEFINE id == req[r].user
<1>1. /\ req[r].at = "write" /\ rows' = [rows EXCEPT ![id] = req[r].row]
      /\ marks' = IF Overtakes(r) THEN marks \cup {<<id, "overtaken">>} ELSE marks
  BY DEF Write
<1>2. \A u \in Users : rows'[u] = IF u = id THEN req[r].row ELSE rows[u]
  BY <1>1 DEF TypeOK
<1>3. \A p \in Requests \ {r} : req'[p] = req[p]
  BY StepsAreLocal DEF Step
<1>4. req'[r].at # "write"
  <2>1. ~Read(r)
    BY <1>1 DEF Read
  <2> QED BY <2>1, OthersWriteNothing DEF Step
<1>5. ASSUME NEW p \in Requests, p # r, req'[p].at = "write",
             <<req'[p].user, "overtaken">> \notin marks'
      PROVE  AheadOf(p)'
  <2>1. req'[p] = req[p]
    BY <1>3, <1>5
  <2>2. req[p].user # id
    BY <1>1, <1>5, <2>1 DEF Overtakes
  <2>3. req[p].user \in Users
    BY <1>5, <2>1, ReqTypes DEF TypeOK
  <2>4. rows'[req[p].user] = rows[req[p].user]
    BY <1>2, <2>2, <2>3
  <2>5. <<req[p].user, "overtaken">> \notin marks
    BY <1>1, <1>5, <2>1
  <2> QED BY <1>5, <2>1, <2>4, <2>5 DEF Ahead, AheadOf
<1>6. Ahead'
  BY <1>4, <1>5 DEF Ahead, AheadOf
<1>7. AheadOf(r)
  BY DEF Ahead
<1> QED BY <1>1, <1>2, <1>6, <1>7 DEF AheadOf

(***************************************************************************)
(* A key never comes back, and a new password brings a newer one, for any  *)
(* number of requests that may fail between any two steps, unless one      *)
(* update of the account was overtaken by another.                         *)
(***************************************************************************)
THEOREM RevocationIsFinal == Spec => RevokedForGood
<1>1. Init => Ahead
  BY DEF Init, Ahead, AheadOf, Idle
<1>2. IInv /\ Ahead /\ [Next]_vars =>
        /\ Ahead'
        /\ [\A u \in Users :
                <<u, "overtaken">> \notin marks =>
                    /\ rows'[u].key >= rows[u].key
                    /\ rows'[u].password # rows[u].password => rows'[u].key > rows[u].key]_vars
  <2> SUFFICES ASSUME IInv, Ahead, [Next]_vars
               PROVE  /\ Ahead'
                      /\ \A u \in Users :
                            <<u, "overtaken">> \notin marks =>
                                /\ rows'[u].key >= rows[u].key
                                /\ rows'[u].password # rows[u].password =>
                                      rows'[u].key > rows[u].key
    OBVIOUS
  <2>1. TypeOK /\ \A u \in Users : rows[u].key \in Nat
    BY DEF IInv, TypeOK, Row
  <2>2. CASE UNCHANGED vars
    BY <2>1, <2>2 DEF vars, Ahead, AheadOf
  <2>3. ASSUME NEW r \in Requests, Start(r) \/ Step(r)
        PROVE  /\ Ahead'
               /\ \A u \in Users :
                     <<u, "overtaken">> \notin marks =>
                         /\ rows'[u].key >= rows[u].key
                         /\ rows'[u].password # rows[u].password =>
                               rows'[u].key > rows[u].key
    <3>1. CASE Write(r)
      BY <2>1, <3>1, WriteKeepsAhead
    <3>2. CASE ~Write(r)
      <4>1. rows' = rows /\ AheadOf(r)'
        <5>1. CASE Read(r)
          BY <5>1, ReadIsAhead
        <5>2. CASE ~Read(r)
          BY <2>1, <2>3, <3>2, <5>2, OthersWriteNothing DEF AheadOf
        <5> QED BY <5>1, <5>2
      <4>2. ASSUME NEW p \in Requests, p # r
            PROVE  AheadOf(p)'
        <5>1. req'[p] = req[p] /\ marks \subseteq marks'
          BY <2>1, <2>3, <4>2, StepsAreLocal
        <5>2. AheadOf(p)
          BY DEF Ahead
        <5> QED BY <4>1, <5>1, <5>2 DEF AheadOf
      <4>3. Ahead'
        BY <4>1, <4>2 DEF Ahead
      <4> QED BY <2>1, <4>1, <4>3
    <3> QED BY <3>1, <3>2
  <2> QED BY <2>2, <2>3 DEF Next
<1> QED BY <1>1, <1>2, Invariance, PTL DEF Spec, RevokedForGood

----------------------------------------------------------------------------
(* A new address revokes tokens.  Of an account without marks: a row about *)
(* to be written was made from the row as it is, for a second writer marks *)
(* the account; its key, when new, is in no token; and tokens that are     *)
(* accepted go with the address, but while an email change has yet to make *)
(* its key.                                                                *)

\* The tokens out and under way.
Held == tokens \cup {req[r].token : r \in {q \in Requests : Carries(q)}}

Unmarked(u) == \A m \in marks : m[1] # u

\* An update that makes a key is under way.
Pending(u) == \E r \in Requests : HalfDone(r) /\ req[r].user = u

AddressesDiffer == \A u, v \in Users : u # v => rows[u].email # rows[v].email

EditsAreMarked ==
    \A r \in Requests :
        req[r].at \in {"read", "write"} /\ req[r].patch.set = "email"
            => <<req[r].user, "edited">> \in marks

\* The row r is about to write differs from the row as it is in what its patch says.
MadeFromCurrent(r) ==
    LET old == rows[req[r].user]
        new == req[r].row
    IN  IF NewKey(req[r].patch)
        THEN /\ new.email = old.email /\ new.key # old.key
             /\ \A t \in Held : t.user = req[r].user => t.key # new.key
        ELSE /\ new.key = old.key
             /\ req[r].patch.set # "address" => new.email = old.email

WritesAreCurrent ==
    \A r \in Requests : req[r].at = "write" /\ Unmarked(req[r].user) => MadeFromCurrent(r)

TokensAgree ==
    \A u \in Users : Unmarked(u) =>
        \/ Pending(u)
        \/ \A t \in Held : t.user = u /\ t.type # "EmailChange" /\ t.key = rows[u].key
                              => t.to = rows[u].email

AddressInv == AddressesDiffer /\ EditsAreMarked /\ WritesAreCurrent /\ TokensAgree

\* A merged row has the address of the old one, but where the patch sets it.
LEMMA MergedAddress ==
    ASSUME NEW row \in Row, NEW patch \in Patch, NEW key \in Nat
    PROVE  patch.set \notin {"email", "address"} => Merged(row, patch, key).email = row.email
BY DEF Merged, WithPassword, Row, Patch

\* Tokens held are those of the secrets.
LEMMA HeldKnown ==
    ASSUME TypeOK, NEW t \in Held
    PROVE  t \in Token /\ t.user \in Users /\ Proof(t) \in Secrets(t.user)
BY TokensKnown, Carried DEF Held, Carries, CarryingStates

\* A token that is new was made from the row as it is.
Fresh(t) == t.key = rows[t.user].key /\ (t.type # "EmailChange" => t.to = rows[t.user].email)

\* A request goes to carry t, or to carry nothing.
LEMMA HeldAfterGoto ==
    ASSUME TypeOK, NEW r \in Requests, NEW q, Goto(r, q),
           \/ UNCHANGED tokens
           \/ Carries(r) /\ tokens' = tokens \cup {req[r].token},
           NEW t \in Held'
    PROVE  t \in Held \/ (q.at \in CarryingStates /\ t = q.token)
<1>1. \A p \in Requests : req'[p] = IF p = r THEN q ELSE req[p]
  BY DEF Goto, TypeOK
<1>2. CASE t \in tokens'
  BY <1>2 DEF Held
<1>3. ASSUME NEW p \in Requests, Carries(p)', t = req'[p].token
      PROVE  t \in Held \/ (q.at \in CarryingStates /\ t = q.token)
  BY <1>1, <1>3 DEF Held, Carries, CarryingStates
<1> QED BY <1>2, <1>3 DEF Held

LEMMA HeldAfterStart ==
    ASSUME TypeOK, NEW r \in Requests, Start(r), NEW t \in Held'
    PROVE  t \in Held \/ Fresh(t)
<1>1. \A q : Goto(r, q) /\ UNCHANGED tokens =>
         t \in Held \/ (q.at \in CarryingStates /\ t = q.token)
  BY HeldAfterGoto
<1>2. ASSUME NEW u \in Active, NEW password \in Passwords, AuthWithPassword(r, u, password)
      PROVE  t \in Held \/ Fresh(t)
  <2>1. [TokenFor("Auth", u, rows[u].email) EXCEPT !.proof = password]
        = TokenFor("Auth", u, rows[u].email)
    BY <1>2 DEF AuthWithPassword, TokenFor
  <2>2. /\ Goto(r, [at |-> "issue", token |-> TokenFor("Auth", u, rows[u].email)])
        /\ UNCHANGED tokens
    BY <1>2, <2>1 DEF AuthWithPassword
  <2>3. t \in Held \/ t = TokenFor("Auth", u, rows[u].email)
    BY <1>1, <2>2
  <2> QED BY <2>3 DEF Fresh, TokenFor
<1>3. ASSUME NEW token \in tokens,
             \/ AuthRefresh(r, token) \/ ConfirmVerification(r, token)
             \/ \E password \in Passwords : ConfirmPasswordReset(r, token, password)
             \/ \E email \in Emails : RequestEmailChange(r, token, email)
             \/ ConfirmEmailChange(r, token)
      PROVE  t \in Held \/ Fresh(t)
  <2>1. token \in Held
    BY DEF Held
  <2>2. CASE AuthRefresh(r, token) \/ ConfirmEmailChange(r, token)
    BY <1>1, <2>1, <2>2 DEF AuthRefresh, ConfirmEmailChange
  <2>3. CASE ConfirmVerification(r, token)
    BY <1>1, <2>3 DEF ConfirmVerification, CarryingStates
  <2>4. CASE \E password \in Passwords : ConfirmPasswordReset(r, token, password)
    BY <1>1, <2>4 DEF ConfirmPasswordReset, CarryingStates
  <2>5. CASE \E email \in Emails : RequestEmailChange(r, token, email)
    BY <1>1, <2>5 DEF RequestEmailChange, CarryingStates
  <2> QED BY <1>3, <2>2, <2>3, <2>4, <2>5
<1>4. ASSUME NEW u \in Active, RequestVerification(r, u)
      PROVE  t \in Held \/ Fresh(t)
  <2>1. t \in Held \/ t = TokenFor("Verification", u, rows[u].email)
    BY <1>1, <1>4 DEF RequestVerification
  <2> QED BY <2>1 DEF Fresh, TokenFor
<1>5. ASSUME NEW u \in Active, RequestPasswordReset(r, u)
      PROVE  t \in Held \/ Fresh(t)
  <2>1. t \in Held \/ t = TokenFor("PasswordReset", u, rows[u].email)
    BY <1>1, <1>5 DEF RequestPasswordReset
  <2> QED BY <2>1 DEF Fresh, TokenFor
<1>6. ASSUME NEW u \in Active, NEW patch \in ClientPatches, UpdateRecord(r, u, patch)
      PROVE  t \in Held \/ Fresh(t)
  BY <1>1, <1>6 DEF UpdateRecord, CarryingStates
<1> QED BY <1>2, <1>3, <1>4, <1>5, <1>6 DEF Start

LEMMA HeldAfterStep ==
    ASSUME TypeOK, NEW r \in Requests, Step(r), NEW t \in Held'
    PROVE  t \in Held \/ (LoadAccount(r) /\ Fresh(t))
<1>1. \A q : Goto(r, q) /\ UNCHANGED tokens =>
         t \in Held \/ (q.at \in CarryingStates /\ t = q.token)
  BY HeldAfterGoto
<1>2. Idle.at \notin CarryingStates
  BY DEF Idle, CarryingStates
<1>3. Carries(r) => req[r].token \in Held
  BY DEF Held
<1>4. CASE Reissue(r)
  BY <1>1, <1>2, <1>3, <1>4 DEF Reissue, Carries
<1>5. CASE Issue(r)
  <2>1. Carries(r) /\ tokens' = tokens \cup {req[r].token} /\ Goto(r, Idle)
    BY <1>5 DEF Issue, Carries
  <2> QED BY <1>2, <2>1, HeldAfterGoto
<1>6. CASE LoadAccount(r)
  <2>1. t \in Held \/ t = TokenFor("EmailChange", req[r].user, req[r].to)
    BY <1>1, <1>2, <1>6 DEF LoadAccount
  <2> QED BY <1>6, <2>1 DEF Fresh, TokenFor
<1>7. CASE CheckAvailable(r)
  <2>1. req[r] = [at |-> req[r].at, token |-> req[r].token] /\ Carries(r)
    BY <1>7, Carried DEF CheckAvailable, CarryingStates, Carries
  <2>2. \A a, k : [[at |-> a, token |-> k] EXCEPT !.at = "issue"].token = k
    OBVIOUS
  <2>3. [req[r] EXCEPT !.at = "issue"].token = req[r].token
    BY <2>1, <2>2, Zenon
  <2> DEFINE q == [req[r] EXCEPT !.at = "issue"]
  <2>4. q.token = req[r].token /\ (Goto(r, q) \/ Goto(r, Idle)) /\ UNCHANGED tokens
    BY <1>7, <2>3 DEF CheckAvailable
  <2> HIDE DEF q
  <2> QED BY <1>1, <1>2, <1>3, <2>1, <2>4
<1>8. CASE CheckStillAvailable(r)
  BY <1>1, <1>2, <1>8 DEF CheckStillAvailable, CarryingStates
<1>9. CASE Read(r)
  <2>1. PICK q : Goto(r, q) /\ q.at = "write" /\ UNCHANGED tokens
    BY <1>9 DEF Read
  <2> QED BY <1>1, <2>1 DEF CarryingStates
<1>10. CASE Write(r)
  <2>1. Goto(r, AfterUpdate(req[r].user, req[r].patch)) /\ UNCHANGED tokens
    BY <1>10 DEF Write
  <2>2. AfterUpdate(req[r].user, req[r].patch).at \notin CarryingStates
    BY DEF AfterUpdate, Idle, CarryingStates
  <2> QED BY <1>1, <2>1, <2>2
<1>11. CASE WriteConflict(r) \/ Fail(r)
  BY <1>1, <1>2, <1>11 DEF WriteConflict, Fail
<1> QED
  BY <1>4, <1>5, <1>6, <1>7, <1>8, <1>9, <1>10, <1>11 DEF Step

\* Only a client's edit of an address, which is marked, sets an address without
\* the change of the key that follows.
LEMMA EditsStayMarked ==
    ASSUME TypeOK, EditsAreMarked, NEW r \in Requests, Start(r) \/ Step(r)
    PROVE  EditsAreMarked'
<1>1. \A q : Goto(r, q) => req'[r] = q
  BY DEF Goto, TypeOK
<1>2. ASSUME req'[r].at \in {"read", "write"}, req'[r].patch.set = "email"
      PROVE  <<req'[r].user, "edited">> \in marks'
  <2>1. CASE Start(r)
    <3>1. ASSUME NEW u \in Active, NEW patch \in ClientPatches, UpdateRecord(r, u, patch)
          PROVE  <<req'[r].user, "edited">> \in marks'
      <4>1. req'[r].user = u /\ req'[r].patch = patch
        BY <1>1, <3>1 DEF UpdateRecord
      <4> QED BY <1>2, <3>1, <4>1 DEF UpdateRecord
    <3>2. ASSUME NEW token \in tokens, ConfirmVerification(r, token)
          PROVE  FALSE
      BY <1>1, <1>2, <3>2 DEF ConfirmVerification
    <3>3. ASSUME NEW token \in tokens, NEW password \in Passwords,
                 ConfirmPasswordReset(r, token, password)
          PROVE  FALSE
      BY <1>1, <1>2, <3>3 DEF ConfirmPasswordReset
    <3>4. ASSUME NEW token \in tokens, AuthRefresh(r, token) \/ ConfirmEmailChange(r, token)
          PROVE  FALSE
      BY <1>1, <1>2, <3>4 DEF AuthRefresh, ConfirmEmailChange
    <3>5. ASSUME NEW token \in tokens, NEW email \in Emails, RequestEmailChange(r, token, email)
          PROVE  FALSE
      BY <1>1, <1>2, <3>5 DEF RequestEmailChange
    <3>6. ASSUME NEW u \in Active, RequestVerification(r, u) \/ RequestPasswordReset(r, u)
          PROVE  FALSE
      BY <1>1, <1>2, <3>6 DEF RequestVerification, RequestPasswordReset
    <3>7. ASSUME NEW u \in Active, NEW password \in Passwords, AuthWithPassword(r, u, password)
          PROVE  FALSE
      BY <1>1, <1>2, <3>7 DEF AuthWithPassword
    <3> QED BY <2>1, <3>1, <3>2, <3>3, <3>4, <3>5, <3>6, <3>7 DEF Start
  <2>2. CASE Read(r)
    <3>1. req[r].at = "read" /\ marks' = marks
      BY <2>2 DEF Read
    <3>2. req'[r].user = req[r].user /\ req'[r].patch = req[r].patch
      BY <1>1, <2>2 DEF Read
    <3> QED BY <1>2, <3>1, <3>2 DEF EditsAreMarked
  <2>3. CASE CheckStillAvailable(r) \/ Write(r)
    <3>1. CASE CheckStillAvailable(r)
      BY <1>1, <1>2, <3>1 DEF CheckStillAvailable, Idle
    <3>2. CASE Write(r)
      BY <1>1, <1>2, <3>2 DEF Write, AfterUpdate, Idle
    <3> QED BY <2>3, <3>1, <3>2
  <2>4. CASE Reissue(r) \/ Issue(r) \/ LoadAccount(r) \/ WriteConflict(r) \/ Fail(r)
    BY <1>1, <1>2, <2>4 DEF Reissue, Issue, LoadAccount, WriteConflict, Fail, Idle
  <2>5. CASE CheckAvailable(r)
    <3>1. req[r] = [at |-> req[r].at, token |-> req[r].token]
      BY <2>5, Carried DEF CheckAvailable, CarryingStates
    <3>2. \A a, k : [[at |-> a, token |-> k] EXCEPT !.at = "issue"].at = "issue"
      OBVIOUS
    <3> DEFINE q == [req[r] EXCEPT !.at = "issue"]
    <3>3. q.at = "issue"
      BY <3>1, <3>2, Zenon
    <3>4. Goto(r, q) \/ Goto(r, Idle)
      BY <2>5 DEF CheckAvailable
    <3> HIDE DEF q
    <3> QED BY <1>1, <1>2, <3>3, <3>4 DEF Idle
  <2> QED BY <2>1, <2>2, <2>3, <2>4, <2>5 DEF Step
<1>3. ASSUME NEW p \in Requests, p # r, req'[p].at \in {"read", "write"},
             req'[p].patch.set = "email"
      PROVE  <<req'[p].user, "edited">> \in marks'
  BY <1>3, StepsAreLocal DEF EditsAreMarked
<1> QED BY <1>2, <1>3 DEF EditsAreMarked

\* A mark stays.
LEMMA UnmarkedBefore ==
    ASSUME TypeOK, NEW r \in Requests, Start(r) \/ Step(r), NEW u, Unmarked(u)'
    PROVE  Unmarked(u)
BY StepsAreLocal DEF Unmarked

\* An update that makes a key goes on, to its write, or marks the account.
LEMMA PendingStays ==
    ASSUME TypeOK, AddressInv, NEW r \in Requests, Start(r) \/ Step(r), ~Write(r),
           NEW u \in Users, Unmarked(u)', Pending(u)
    PROVE  Pending(u)'
<1>1. PICK q \in Requests : HalfDone(q) /\ req[q].user = u
  BY DEF Pending
<1>2. CASE q # r
  <2>1. req'[q] = req[q]
    BY <1>2, StepsAreLocal
  <2> QED BY <1>1, <2>1 DEF Pending, HalfDone
<1>3. CASE q = r
  <2>1. req[r].at \in {"read", "write"} /\ req[r].patch.set = "key" /\ req[r].user = u
    BY <1>1, <1>3 DEF HalfDone
  <2>2. ~Start(r)
    <3>1. Start(r) => req[r] = Idle
      BY DEF Start, AuthWithPassword, AuthRefresh, RequestVerification,
         ConfirmVerification, RequestPasswordReset, ConfirmPasswordReset,
         RequestEmailChange, ConfirmEmailChange, UpdateRecord
    <3> QED BY <2>1, <3>1 DEF Idle
  <2>3. ~Reissue(r) /\ ~Issue(r) /\ ~LoadAccount(r) /\ ~CheckAvailable(r)
        /\ ~CheckStillAvailable(r)
    BY <2>1 DEF Reissue, Issue, LoadAccount, CheckAvailable, CheckStillAvailable
  <2>4. CASE Read(r)
    <3>1. req'[r].at = "write" /\ req'[r].user = u /\ req'[r].patch = req[r].patch
      BY <2>1, <2>4 DEF Read, Goto, TypeOK
    <3> QED BY <2>1, <3>1 DEF Pending, HalfDone
  <2>5. CASE WriteConflict(r)
    <3>1. MadeFromCurrent(r)
      BY <2>1, <2>5, UnmarkedBefore DEF AddressInv, WritesAreCurrent, WriteConflict
    <3>2. req[r].row.email = rows[u].email
      BY <2>1, <3>1 DEF MadeFromCurrent, NewKey
    <3>3. PICK v \in Users \ {u} : rows[v].email = req[r].row.email
      BY <2>1, <2>5 DEF WriteConflict, Conflict
    <3> QED BY <3>2, <3>3 DEF AddressInv, AddressesDiffer
  <2>6. CASE Fail(r)
    <3>1. <<u, "failed">> \in marks'
      BY <1>1, <1>3, <2>6 DEF Fail
    <3> QED BY <3>1 DEF Unmarked
  <2> QED BY <2>2, <2>3, <2>4, <2>5, <2>6 DEF Step
<1> QED BY <1>2, <1>3

\* A step that does not write a row.
LEMMA OthersKeepAddresses ==
    ASSUME IInv, AddressInv, NEW r \in Requests, Start(r) \/ Step(r), ~Write(r)
    PROVE  AddressInv'
<1>1. TypeOK /\ AddressesDiffer /\ EditsAreMarked /\ WritesAreCurrent /\ TokensAgree
  BY DEF IInv, AddressInv
<1>2. rows' = rows
  <2>1. CASE Read(r)
    BY <2>1 DEF Read
  <2>2. CASE ~Read(r)
    BY <1>1, <2>2, OthersWriteNothing
  <2> QED BY <2>1, <2>2
<1>3. \A t \in Held' : t \in Held \/ Fresh(t)
  BY <1>1, HeldAfterStart, HeldAfterStep
<1>4. AddressesDiffer' /\ EditsAreMarked'
  BY <1>1, <1>2, EditsStayMarked DEF AddressesDiffer
<1>5. ASSUME NEW p \in Requests, req'[p].at = "write", \A m \in marks' : m[1] # req'[p].user
      PROVE  MadeFromCurrent(p)'
  <2>1. Unmarked(req'[p].user)
    BY <1>1, <1>5, StepsAreLocal DEF Unmarked
  <2>2. CASE p # r
    <3>1. req'[p] = req[p]
      BY <1>1, <2>2, StepsAreLocal
    <3>2. MadeFromCurrent(p)
      BY <1>1, <1>5, <2>1, <3>1 DEF WritesAreCurrent
    <3>3. ASSUME NewKey(req[p].patch), NEW t \in Held', t.user = req[p].user
          PROVE  t.key # req[p].row.key
      <4>1. CASE t \in Held
        BY <3>2, <3>3, <4>1 DEF MadeFromCurrent
      <4>2. CASE Fresh(t)
        BY <3>2, <3>3, <4>2 DEF MadeFromCurrent, Fresh
      <4> QED BY <1>3, <4>1, <4>2
    <3> QED BY <1>2, <3>1, <3>2, <3>3 DEF MadeFromCurrent
  <2>3. CASE p = r
    <3>1. Read(r)
      BY <1>1, <1>5, <2>3, OthersWriteNothing
    <3> DEFINE u == req[r].user
               patch == req[r].patch
               key == generated[u] + 1
               row == Merged(rows[u], patch, key)
    <3>2. u \in Users /\ patch \in Patch
      BY <1>1, <3>1, ReqTypes DEF Read, TypeOK
    <3>3. generated[u] \in Nat /\ key \in Nat /\ rows[u] \in Row
      BY <1>1, <3>2 DEF TypeOK
    <3>4. req'[r] = [at |-> "write", user |-> u, patch |-> patch, row |-> row]
      BY <1>1, <3>1 DEF Read, Goto, TypeOK
    <3>5. patch.set # "email"
      <4>1. Unmarked(u)
        BY <2>1, <2>3, <3>4
      <4>2. req[r].at = "read"
        BY <3>1 DEF Read
      <4>3. patch.set = "email" => <<u, "edited">> \in marks
        BY <1>1, <4>2 DEF EditsAreMarked
      <4> QED BY <4>1, <4>3 DEF Unmarked
    <3>6. patch.set # "address" => row.email = rows[u].email
      BY <3>2, <3>3, <3>5, MergedAddress
    <3>7. CASE NewKey(patch)
      <4>1. row.key = key
        BY <3>2, <3>3, <3>7, MergedRow
      <4>2. \A s \in Secrets(u) : s.key \in Nat /\ s.key <= generated[u]
        BY <1>1, <3>2, SecretTypes DEF IInv, KeysWereGenerated
      <4>3. \A s \in Secrets(u) : s.key # key
        BY <3>3, <4>2
      <4>4. rows[u].key # key
        <5>1. Secret(rows[u]) \in Secrets(u)
          BY <3>2, SecretsByMember
        <5> QED BY <4>3, <5>1 DEF Secret
      <4>5. ASSUME NEW t \in Held', t.user = u
            PROVE  t.key # key
        <5>1. CASE t \in Held
          <6>1. Proof(t) \in Secrets(u)
            BY <1>1, <4>5, <5>1, HeldKnown
          <6> QED BY <4>3, <6>1 DEF Proof
        <5>2. CASE Fresh(t)
          BY <4>4, <4>5, <5>2 DEF Fresh
        <5> QED BY <1>3, <5>1, <5>2
      <4>6. patch.set # "address"
        BY <3>7 DEF NewKey
      <4> HIDE DEF row, key
      <4> QED BY <1>2, <2>3, <3>4, <3>6, <3>7, <4>1, <4>4, <4>5, <4>6 DEF MadeFromCurrent
    <3>8. CASE ~NewKey(patch)
      <4>1. row.key = rows[u].key
        BY <3>2, <3>3, <3>8, MergedRow DEF Secret
      <4> HIDE DEF row, key
      <4> QED BY <1>2, <2>3, <3>4, <3>6, <3>8, <4>1 DEF MadeFromCurrent
    <3> QED BY <3>7, <3>8
  <2> QED BY <2>2, <2>3
<1>6. ASSUME NEW u \in Users, Unmarked(u)', ~Pending(u)',
             NEW t \in Held', t.user = u, t.type # "EmailChange", t.key = rows'[u].key
      PROVE  t.to = rows'[u].email
  <2>1. Unmarked(u) /\ ~Pending(u)
    BY <1>1, <1>6, UnmarkedBefore, PendingStays
  <2>2. CASE t \in Held
    BY <1>1, <1>2, <1>6, <2>1, <2>2 DEF TokensAgree
  <2>3. CASE Fresh(t)
    BY <1>2, <1>6, <2>3 DEF Fresh
  <2> QED BY <1>3, <2>2, <2>3
<1>7. WritesAreCurrent'
  BY <1>5 DEF WritesAreCurrent, Unmarked
<1>8. TokensAgree'
  BY <1>6 DEF TokensAgree
<1> QED BY <1>4, <1>7, <1>8 DEF AddressInv

\* The write of an account whose row no other request is about to write.
LEMMA WriteKeepsAddresses ==
    ASSUME IInv, AddressInv, NEW r \in Requests, Write(r)
    PROVE  AddressInv'
<1> DEFINE id == req[r].user
           patch == req[r].patch
           row == req[r].row
<1>1. TypeOK /\ AddressesDiffer /\ EditsAreMarked /\ WritesAreCurrent /\ TokensAgree
  BY DEF IInv, AddressInv
<1>2. Step(r)
  BY DEF Step
<1>3. req[r].at = "write" /\ id \in Users /\ patch \in Patch /\ row \in Row
  BY <1>1, ReqTypes DEF TypeOK, Write
<1>4. rows' = [rows EXCEPT ![id] = row] /\ rows'[id] = row
      /\ \A v \in Users \ {id} : rows'[v] = rows[v]
  BY <1>1, <1>3 DEF Write, TypeOK
<1>5. req'[r] = AfterUpdate(id, patch)
  BY <1>1 DEF Write, Goto, TypeOK
<1>6. \A t \in Held' : t \in Held
  <2>1. ~LoadAccount(r)
    BY <1>3 DEF LoadAccount
  <2> QED BY <1>1, <1>2, <2>1, HeldAfterStep
<1>7. AddressesDiffer'
  <2>1. \A v \in Users \ {id} : rows[v].email # row.email
    BY DEF Write, Conflict
  <2> QED BY <1>1, <1>4, <2>1 DEF AddressesDiffer
<1>8. EditsAreMarked'
  BY <1>1, <1>2, EditsStayMarked
<1>9. ASSUME NEW p \in Requests, req'[p].at = "write", \A m \in marks' : m[1] # req'[p].user
      PROVE  MadeFromCurrent(p)'
  <2>1. p # r
    BY <1>5, <1>9 DEF AfterUpdate, Idle
  <2>2. req'[p] = req[p] /\ Unmarked(req[p].user)
    BY <1>1, <1>2, <1>9, <2>1, StepsAreLocal DEF Unmarked
  <2>3. req[p].user # id
    <3>1. SUFFICES ASSUME req[p].user = id PROVE FALSE
      OBVIOUS
    <3>2. Overtakes(r)
      BY <1>9, <2>1, <2>2, <3>1 DEF Overtakes
    <3>3. <<id, "overtaken">> \in marks'
      BY <3>2 DEF Write
    <3> QED BY <1>9, <2>2, <3>1, <3>3
  <2>4. MadeFromCurrent(p)
    BY <1>1, <1>9, <2>2 DEF WritesAreCurrent
  <2>5. req[p].user \in Users
    BY <1>1, <1>9, <2>2, ReqTypes DEF TypeOK
  <2>6. rows'[req[p].user] = rows[req[p].user]
    BY <1>4, <2>3, <2>5
  <2> QED BY <1>6, <2>2, <2>4, <2>6 DEF MadeFromCurrent
<1>10. \A u \in Users : Pending(u) /\ (u # id \/ patch.set # "key") => Pending(u)'
  <2>1. SUFFICES ASSUME NEW u \in Users, Pending(u), u # id \/ patch.set # "key"
                 PROVE  Pending(u)'
    OBVIOUS
  <2>2. PICK q \in Requests : HalfDone(q) /\ req[q].user = u
    BY <2>1 DEF Pending
  <2>3. q # r
    BY <2>1, <2>2 DEF HalfDone
  <2>4. req'[q] = req[q]
    BY <1>1, <1>2, <2>3, StepsAreLocal
  <2> QED BY <2>2, <2>4 DEF Pending, HalfDone
<1>11. ASSUME NEW u \in Users, Unmarked(u)', ~Pending(u)',
              NEW t \in Held', t.user = u, t.type # "EmailChange", t.key = rows'[u].key
       PROVE  t.to = rows'[u].email
  <2>1. Unmarked(u)
    BY <1>1, <1>2, <1>11, UnmarkedBefore
  <2>2. t \in Held
    BY <1>6
  <2>3. CASE u # id
    BY <1>1, <1>4, <1>10, <1>11, <2>1, <2>2, <2>3 DEF TokensAgree
  <2>4. CASE u = id
    <3>1. MadeFromCurrent(r)
      BY <1>1, <1>3, <2>1, <2>4 DEF WritesAreCurrent
    <3>2. ~NewKey(patch)
      BY <1>4, <1>11, <2>2, <2>4, <3>1 DEF MadeFromCurrent
    <3>3. patch.set # "address"
      <4>1. SUFFICES ASSUME patch.set = "address" PROVE FALSE
        OBVIOUS
      <4>2. req'[r] = [at |-> "read", user |-> id, patch |-> [set |-> "key"]]
        BY <1>5, <4>1 DEF AfterUpdate
      <4>3. req'[r].at = "read" /\ req'[r].user = id /\ req'[r].patch.set = "key"
        BY <4>2
      <4> QED BY <1>11, <2>4, <4>3 DEF Pending, HalfDone
    <3>4. row.key = rows[id].key /\ row.email = rows[id].email
      BY <3>1, <3>2, <3>3 DEF MadeFromCurrent
    <3>5. ~Pending(u)
      BY <1>10, <1>11, <3>2 DEF NewKey
    <3> QED BY <1>1, <1>4, <1>11, <2>1, <2>2, <2>4, <3>4, <3>5 DEF TokensAgree
  <2> QED BY <2>3, <2>4
<1>12. WritesAreCurrent'
  BY <1>9 DEF WritesAreCurrent, Unmarked
<1>13. TokensAgree'
  BY <1>11 DEF TokensAgree
<1> QED BY <1>7, <1>8, <1>12, <1>13 DEF AddressInv

LEMMA InitAddresses == Init => AddressInv
<1>1. SUFFICES ASSUME Init PROVE AddressInv
  OBVIOUS
<1>2. \A r \in Requests : req[r].at = "idle"
  BY <1>1 DEF Init, Idle
<1>3. Held = {}
  BY <1>1, <1>2 DEF Init, Held, Carries
<1>4. AddressesDiffer /\ EditsAreMarked /\ WritesAreCurrent
  BY <1>1, <1>2 DEF Init, AddressesDiffer, EditsAreMarked, WritesAreCurrent
<1> QED BY <1>3, <1>4 DEF AddressInv, TokensAgree

(***************************************************************************)
(* A new address revokes tokens (email_change.rs:157): when no request is  *)
(* running, no token made for an address the account had before is         *)
(* accepted, for any number of requests, accounts and addresses and        *)
(* whatever clients may write, but for the three cases that mark the       *)
(* account: a client wrote the address, an update was overtaken by         *)
(* another, an email change failed between its two updates.                *)
(***************************************************************************)
THEOREM AddressRevokes == Spec => []NewAddressRevokesTokens
<1>1. AddressInv /\ IInv => NewAddressRevokesTokens
  <2>1. SUFFICES ASSUME AddressInv, IInv, \A r \in Requests : req[r] = Idle,
                        NEW t \in tokens, \A m \in marks : m[1] # t.user,
                        t.type # "EmailChange", Accepted(t)
                 PROVE  t.to = rows[t.user].email
    BY DEF NewAddressRevokesTokens
  <2>2. t \in Held
    BY DEF Held
  <2>3. t.user \in Users
    BY <2>1, <2>2, HeldKnown DEF IInv
  <2>4. ~Pending(t.user)
    BY <2>1 DEF Pending, HalfDone, Idle
  <2> QED BY <2>1, <2>2, <2>3, <2>4 DEF AddressInv, TokensAgree, Unmarked, Accepted
<1>2. IInv /\ AddressInv /\ [Next]_vars => AddressInv'
  <2>1. SUFFICES ASSUME IInv, AddressInv, [Next]_vars PROVE AddressInv'
    OBVIOUS
  <2>2. CASE UNCHANGED vars
    BY <2>1, <2>2 DEF vars, AddressInv, AddressesDiffer, EditsAreMarked, WritesAreCurrent,
       TokensAgree, MadeFromCurrent, Held, Carries, Pending, HalfDone, Unmarked
  <2>3. CASE Next
    <3>1. PICK r \in Requests : Start(r) \/ Step(r)
      BY <2>3 DEF Next
    <3> QED BY <2>1, <3>1, WriteKeepsAddresses, OthersKeepAddresses
  <2> QED BY <2>1, <2>2, <2>3
<1> QED BY <1>1, <1>2, Invariance, InitAddresses, PTL DEF Spec
=============================================================================
