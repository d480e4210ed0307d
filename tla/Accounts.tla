------------------------------ MODULE Accounts ------------------------------
(***************************************************************************)
(* Passwords, tokens and the account flows of crates/zerobase-auth: login, *)
(* refresh, email verification, password reset and email change, run by    *)
(* concurrent requests over the rows of one auth collection, together with *)
(* clients that update the rows through the records API.                   *)
(*                                                                         *)
(* A token is a signed copy of the row's tokenKey: nothing is stored, and  *)
(* a token is accepted for as long as its key is the key of the row.       *)
(* Every change of a row goes through RecordService::update_record, which  *)
(* reads the row, merges the patch and writes all columns (two steps; the  *)
(* module RecordService shows the rest of it).  The email change updates   *)
(* twice.                                                                  *)
(*                                                                         *)
(* Abstractions: a signature cannot be forged; the tokenKey is the number  *)
(* of keys generated for the account so far (50 random characters never    *)
(* repeat); a stored hash is the password itself; expiry is a token that   *)
(* is never presented again.  Accounts are not created or deleted.         *)
(***************************************************************************)
EXTENDS Naturals, FiniteSets

CONSTANTS
    Requests,       \* concurrent requests
    Users,          \* the rows of the collection
    Active,         \* bound: the accounts in use, the others keep an address taken
    Emails,         \* mail addresses
    Passwords,      \* passwords
    ClientPatches,  \* what the update rule lets clients write
    MayFail,        \* a repository call or the mail server may return an error
    MaxKeys,        \* bound: keys generated for an account
    MaxTokens       \* bound: tokens in circulation

VARIABLES
    rows,       \* rows[u]: the row of account u
    generated,  \* generated[u]: the number of keys generated for u
    tokens,     \* the tokens handed out so far, in answers and in mails
    req,        \* req[r]: where request r stands and what it has read
    marks       \* history: what happened to an account that excuses it, see Marks

vars == <<rows, generated, tokens, req, marks>>

Row == [email: Emails, verified: BOOLEAN, password: Passwords, key: Nat]

(***************************************************************************)
(* The claims of a token.  `proof` is history: the password presented for  *)
(* an Auth token, the password the account had when a mailed token was     *)
(* made; `to` is the address it was mailed to, for an EmailChange token    *)
(* the newEmail claim (an Auth token keeps the address of the login).      *)
(***************************************************************************)
Token == [type: {"Auth", "Verification", "PasswordReset", "EmailChange"},
          user: Users, key: Nat, to: Emails, proof: Passwords]

Patch == [set: {"other", "key"}]
         \cup [set: {"password"}, to: Passwords]
         \cup [set: {"email", "address"}, to: Emails]
         \cup [set: {"verified"}, to: BOOLEAN]

ASSUME AccountAssumption == /\ Active \subseteq Users
                            /\ ClientPatches \subseteq Patch
                            /\ MaxKeys \in Nat
                            /\ MaxTokens \in Nat

(***************************************************************************)
(* An account is marked when a client writes its address, when an update   *)
(* of it is overtaken by another one between its read and its write, and   *)
(* when an email change fails between its two updates.                     *)
(***************************************************************************)
Marks == Users \X {"edited", "overtaken", "failed"}

Idle == [at |-> "idle"]

ReqState ==
    {Idle}
    \cup [at: {"issue", "refresh", "available", "confirm"}, token: Token]
    \cup [at: {"change"}, user: Users, to: Emails]
    \cup [at: {"read"}, user: Users, patch: Patch]
    \cup [at: {"write"}, user: Users, patch: Patch, row: Row]

TypeOK ==
    /\ rows \in [Users -> Row]
    /\ generated \in [Users -> Nat]
    /\ tokens \in SUBSET Token
    /\ req \in [Requests -> ReqState]
    /\ marks \in SUBSET Marks

\* Accounts as create_record makes them: unverified, with a first key.
Init ==
    /\ rows \in [Users -> [email: Emails, verified: {FALSE}, password: Passwords, key: {0}]]
    /\ \A u, v \in Users : u # v => rows[u].email # rows[v].email
    /\ generated = [u \in Users |-> 0]
    /\ tokens = {}
    /\ req = [r \in Requests |-> Idle]
    /\ marks = {}

Goto(r, state) == req' = [req EXCEPT ![r] = state]

----------------------------------------------------------------------------
(* Tokens and rows.  Each *Bug* operator is a faulty variant used to show  *)
(* that a property depends on the definition that follows it.              *)

\* TokenService::generate from a row that was read.
TokenFor(type, u, to) ==
    [type |-> type, user |-> u, key |-> rows[u].key, to |-> to, proof |-> rows[u].password]

\* The key check every flow makes on the row it has loaded.
Accepted(token) == token.key = rows[token.user].key

\* TokenService::validate and the key check.
Presented(token, type) == token \in tokens /\ token.type = type /\ Accepted(token)

\* A boolean column read back: SQLite has an INTEGER, find_one returns a number ...
StoredBool(value) == IF value THEN "1" ELSE "0"

\* ... and as_bool() of a number is None.
AsBool(json) == json = "true"

AlreadyVerified(u) == AsBool(StoredBool(rows[u].verified))

\* No row has the address.
Free(email) == \A u \in Users : rows[u].email # email

\* Does update_record generate a key for the patch, or bring one?
NewKey(patch) == patch.set \in {"password", "key"}

\* prepare_auth_fields_for_update: a new password comes with a new key.
WithPasswordBug(row, password, key) == [row EXCEPT !.password = password]

WithPassword(row, password, key) == [row EXCEPT !.password = password, !.key = key]

\* The merged row.
Merged(row, patch, key) ==
    CASE patch.set = "password" -> WithPassword(row, patch.to, key)
      [] patch.set = "key"      -> [row EXCEPT !.key = key]
      [] patch.set = "email"    -> [row EXCEPT !.email = patch.to]
      [] patch.set = "address"  -> [row EXCEPT !.email = patch.to, !.verified = TRUE]
      [] patch.set = "verified" -> [row EXCEPT !.verified = patch.to]
      [] OTHER -> row

----------------------------------------------------------------------------
(* Login and refresh                                                       *)

\* auth_with_password: the row found by its address, the password verified.
AuthWithPassword(r, u, password) ==
    /\ req[r] = Idle
    /\ rows[u].password = password
    /\ Goto(r, [at |-> "issue", token |-> [TokenFor("Auth", u, rows[u].email)
                                           EXCEPT !.proof = password]])
    /\ UNCHANGED <<rows, generated, tokens, marks>>

\* auth_refresh, first the middleware's check of the token ...
AuthRefresh(r, token) ==
    /\ req[r] = Idle
    /\ Presented(token, "Auth")
    /\ Goto(r, [at |-> "refresh", token |-> token])
    /\ UNCHANGED <<rows, generated, tokens, marks>>

\* ... then the handler's: the new token is the old one with another expiry.
Reissue(r) ==
    /\ req[r].at = "refresh"
    /\ Goto(r, IF Accepted(req[r].token)
               THEN [at |-> "issue", token |-> req[r].token]
               ELSE Idle)
    /\ UNCHANGED <<rows, generated, tokens, marks>>

\* The answer arrives, or the mail does.
Issue(r) ==
    /\ req[r].at = "issue"
    /\ Cardinality(tokens \cup {req[r].token}) <= MaxTokens
    /\ tokens' = tokens \cup {req[r].token}
    /\ Goto(r, Idle)
    /\ UNCHANGED <<rows, generated, marks>>

----------------------------------------------------------------------------
(* Email verification                                                      *)

RequestVerification(r, u) ==
    /\ req[r] = Idle
    /\ ~AlreadyVerified(u)
    /\ Goto(r, [at |-> "issue", token |-> TokenFor("Verification", u, rows[u].email)])
    /\ UNCHANGED <<rows, generated, tokens, marks>>

ConfirmVerification(r, token) ==
    /\ req[r] = Idle
    /\ Presented(token, "Verification")
    /\ ~AlreadyVerified(token.user)
    /\ Goto(r, [at |-> "read", user |-> token.user,
                patch |-> [set |-> "verified", to |-> TRUE]])
    /\ UNCHANGED <<rows, generated, tokens, marks>>

----------------------------------------------------------------------------
(* Password reset                                                          *)

RequestPasswordReset(r, u) ==
    /\ req[r] = Idle
    /\ Goto(r, [at |-> "issue", token |-> TokenFor("PasswordReset", u, rows[u].email)])
    /\ UNCHANGED <<rows, generated, tokens, marks>>

ConfirmPasswordReset(r, token, password) ==
    /\ req[r] = Idle
    /\ Presented(token, "PasswordReset")
    /\ Goto(r, [at |-> "read", user |-> token.user,
                patch |-> [set |-> "password", to |-> password]])
    /\ UNCHANGED <<rows, generated, tokens, marks>>

----------------------------------------------------------------------------
(* Email change                                                            *)

\* The middleware accepts the caller's token.
RequestEmailChange(r, token, email) ==
    /\ req[r] = Idle
    /\ Presented(token, "Auth")
    /\ Goto(r, [at |-> "change", user |-> token.user, to |-> email])
    /\ UNCHANGED <<rows, generated, tokens, marks>>

\* get_record: the new address differs from the current one.
LoadAccount(r) ==
    /\ req[r].at = "change"
    /\ Goto(r, IF rows[req[r].user].email # req[r].to
               THEN [at |-> "available",
                     token |-> TokenFor("EmailChange", req[r].user, req[r].to)]
               ELSE Idle)
    /\ UNCHANGED <<rows, generated, tokens, marks>>

\* list_records: nobody has it; then the link is mailed to it.
CheckAvailable(r) ==
    /\ req[r].at = "available"
    /\ Goto(r, IF Free(req[r].token.to) THEN [req[r] EXCEPT !.at = "issue"] ELSE Idle)
    /\ UNCHANGED <<rows, generated, tokens, marks>>

\* get_record and the key check ...
ConfirmEmailChange(r, token) ==
    /\ req[r] = Idle
    /\ Presented(token, "EmailChange")
    /\ Goto(r, [at |-> "confirm", token |-> token])
    /\ UNCHANGED <<rows, generated, tokens, marks>>

\* ... list_records: still nobody has the address.
CheckStillAvailable(r) ==
    /\ req[r].at = "confirm"
    /\ LET token == req[r].token
       IN  Goto(r, IF Free(token.to)
                   THEN [at |-> "read", user |-> token.user,
                         patch |-> [set |-> "address", to |-> token.to]]
                   ELSE Idle)
    /\ UNCHANGED <<rows, generated, tokens, marks>>

----------------------------------------------------------------------------
(* update_record                                                           *)

\* PATCH through the records API.
UpdateRecord(r, u, patch) ==
    /\ req[r] = Idle
    /\ Goto(r, [at |-> "read", user |-> u, patch |-> patch])
    /\ marks' = IF patch.set = "email" THEN marks \cup {<<u, "edited">>} ELSE marks
    /\ UNCHANGED <<rows, generated, tokens>>

\* find_one, the merge and prepare_auth_fields_for_update.
Read(r) ==
    /\ req[r].at = "read"
    /\ LET u == req[r].user
           patch == req[r].patch
           key == generated[u] + 1
       IN  /\ NewKey(patch) => key <= MaxKeys
           /\ generated' = IF NewKey(patch) THEN [generated EXCEPT ![u] = key] ELSE generated
           /\ Goto(r, [at |-> "write", user |-> u, patch |-> patch,
                       row |-> Merged(rows[u], patch, key)])
    /\ UNCHANGED <<rows, tokens, marks>>

\* The UNIQUE constraint on the address.
Conflict(u, email) == \E v \in Users \ {u} : rows[v].email = email

\* What follows the update: a changed address is followed by a changed key.
AfterUpdateBug(u, patch) == Idle

AfterUpdate(u, patch) ==
    IF patch.set = "address"
    THEN [at |-> "read", user |-> u, patch |-> [set |-> "key"]]
    ELSE Idle

\* Has another request read the row that r is about to change?
Overtakes(r) ==
    \E q \in Requests \ {r} : req[q].at = "write" /\ req[q].user = req[r].user

\* repo.update: the whole row.
Write(r) ==
    /\ req[r].at = "write"
    /\ ~Conflict(req[r].user, req[r].row.email)
    /\ rows' = [rows EXCEPT ![req[r].user] = req[r].row]
    /\ Goto(r, AfterUpdate(req[r].user, req[r].patch))
    /\ marks' = IF Overtakes(r) THEN marks \cup {<<req[r].user, "overtaken">>} ELSE marks
    /\ UNCHANGED <<generated, tokens>>

\* repo.update fails on the constraint.
WriteConflict(r) ==
    /\ req[r].at = "write"
    /\ Conflict(req[r].user, req[r].row.email)
    /\ Goto(r, Idle)
    /\ UNCHANGED <<rows, generated, tokens, marks>>

\* Has r changed the address, and not yet the key?
HalfDone(r) == req[r].at \in {"read", "write"} /\ req[r].patch.set = "key"

\* The repository or the mail server returns an error, and so does the request.
Fail(r) ==
    /\ MayFail
    /\ req[r] # Idle
    /\ Goto(r, Idle)
    /\ marks' = IF HalfDone(r) THEN marks \cup {<<req[r].user, "failed">>} ELSE marks
    /\ UNCHANGED <<rows, generated, tokens>>

----------------------------------------------------------------------------

Start(r) ==
    \/ \E u \in Active, password \in Passwords : AuthWithPassword(r, u, password)
    \/ \E token \in tokens : AuthRefresh(r, token)
    \/ \E u \in Active : RequestVerification(r, u)
    \/ \E token \in tokens : ConfirmVerification(r, token)
    \/ \E u \in Active : RequestPasswordReset(r, u)
    \/ \E token \in tokens, password \in Passwords : ConfirmPasswordReset(r, token, password)
    \/ \E token \in tokens, email \in Emails : RequestEmailChange(r, token, email)
    \/ \E token \in tokens : ConfirmEmailChange(r, token)
    \/ \E u \in Active, patch \in ClientPatches : UpdateRecord(r, u, patch)

Step(r) ==
    \/ Reissue(r)
    \/ Issue(r)
    \/ LoadAccount(r)
    \/ CheckAvailable(r)
    \/ CheckStillAvailable(r)
    \/ Read(r)
    \/ Write(r)
    \/ WriteConflict(r)
    \/ Fail(r)

Next == \E r \in Requests : Start(r) \/ Step(r)

Spec == Init /\ [][Next]_vars

----------------------------------------------------------------------------
(* Properties                                                              *)

(***************************************************************************)
(* Whoever holds a token that is accepted has proved to know, or was       *)
(* mailed under, the password the account has now: whatever stale rows     *)
(* concurrent updates write back, a key never comes back without the       *)
(* password it was made for (record_service.rs:933-952, auth.rs:229-239).  *)
(***************************************************************************)
TokensDieWithPassword == \A t \in tokens : Accepted(t) => t.proof = rows[t.user].password

(***************************************************************************)
(* The invariant behind it.  The keys with their passwords that rows, rows *)
(* about to be written and tokens of account u hold: no key has two        *)
(* passwords, and none is newer than the last one generated.               *)
(***************************************************************************)
Secret(held) == [key |-> held.key, password |-> held.password]

Proof(token) == [key |-> token.key, password |-> token.proof]

Carries(r) == req[r].at \in {"issue", "refresh", "available", "confirm"}

Secrets(u) ==
    {Secret(rows[u])}
    \cup {Secret(req[r].row) : r \in {q \in Requests : req[q].at = "write" /\ req[q].user = u}}
    \cup {Proof(t) : t \in {s \in tokens : s.user = u}}
    \cup {Proof(req[r].token) : r \in {q \in Requests : Carries(q) /\ req[q].token.user = u}}

OnePasswordPerKey ==
    \A u \in Users : \A s, t \in Secrets(u) : s.key = t.key => s.password = t.password

KeysWereGenerated == \A u \in Users : \A s \in Secrets(u) : s.key <= generated[u]

IInv == /\ TypeOK
        /\ OnePasswordPerKey
        /\ KeysWereGenerated

(***************************************************************************)
(* "when a user changes their password or an admin invalidates sessions,   *)
(* the tokenKey field on the record is rotated.  Any JWT issued before the *)
(* rotation will have the old tokenKey and be rejected."                   *)
(* (docs/architecture/auth-system.md:372): a new password comes with a new *)
(* key, and no account ever gets back a key it had before, unless one      *)
(* update of it was overtaken by another: the row it read brings both      *)
(* back.                                                                   *)
(***************************************************************************)
RevokedForGood ==
    [][\A u \in Users :
          <<u, "overtaken">> \notin marks =>
              /\ rows'[u].key >= rows[u].key
              /\ rows'[u].password # rows[u].password => rows'[u].key > rows[u].key]_vars

(***************************************************************************)
(* "Updates the user's email and rotates tokenKey (invalidating old        *)
(* tokens)." (email_change.rs:157): when no request is running, a token    *)
(* made while the account had another address is not accepted, unless a    *)
(* client wrote the address, an update was overtaken, or an email change   *)
(* failed between its two updates.                                         *)
(***************************************************************************)
NewAddressRevokesTokens ==
    (\A r \in Requests : req[r] = Idle) =>
        \A t \in tokens : /\ \A m \in marks : m[1] # t.user
                          /\ t.type # "EmailChange"
                          /\ Accepted(t)
                          => t.to = rows[t.user].email
=============================================================================
