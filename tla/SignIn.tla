------------------------------- MODULE SignIn -------------------------------
(* The other ways to sign in, over the rows of one auth collection: a second *)
(* factor (mfa.rs), passkeys (passkey.rs) and external identities of one     *)
(* provider (oauth2.rs, external_auths.rs), for concurrent calls, while the  *)
(* password and the address of an account change.                            *)
(* Each call is a sequence of SQL statements; a row is changed by            *)
(* update_record, which reads it, lays the patch over it and writes it whole.*)
(*                                                                           *)
(* Abstractions: the tokenKey and a TOTP secret are numbers that never       *)
(* repeat, a TOTP code is its secret, a recovery code is the secret it was   *)
(* handed out with and a number; what the libraries verify (an assertion, a  *)
(* code exchange) succeeds or the call is as if it had not been made.        *)
EXTENDS Naturals, FiniteSets

CONSTANTS Requests, Users, Passkeys,
          Subjects,    \* external identities
          Address,     \* what the provider knows as their address
          Emails,
          NoEmail,     \* the empty address, also a provider that gives none
          Codes,       \* recovery codes of a setup
          None,
          MfaFields,   \* does the collection have the fields MFA writes?
          Starts       \* rows in the beginning, and how many calls of each kind

VARIABLES rows,     \* [Users -> Row or None]
          passkeys, \* [Passkeys -> the user or None], _webauthn_credentials
          links,    \* [Subjects -> the user or None], _externalAuths
          pending,  \* challenges and setups in memory
          partial,  \* MfaPartial tokens handed out: [user, key]
          req,      \* [Requests -> call]
          made,     \* secrets and keys generated so far
          left,     \* what is left of the bounds
          \* history
          ids,        \* record ids that were ever used
          registered, \* passkeys whose registration was answered
          dropped,    \* passkeys of which a call was cut off or failed
          created,    \* [Subjects -> users created for it, under its address]
          parted,     \* users that neither address nor link ties to their identity
          used,       \* [Users -> recovery codes used, as often as they were]
          answered,   \* challenges that were answered, likewise
          stale       \* users whose row was written from an older state of it

tables == <<rows, passkeys, links>>
history == <<ids, registered, dropped, created, parted, used, answered, stale>>
vars == <<tables, pending, partial, req, made, left, history>>

\* No second factor is the secret 0.
Row == [email : Emails, verified : BOOLEAN, key : Nat,
        secret : Nat, codes : SUBSET (Nat \X Codes)]
Challenge == [kind : {"setup", "register", "assert"}, id : Nat,
              user : Users \cup {None}, passkeys : SUBSET Passkeys, expired : BOOLEAN]
Idle == [at |-> "idle"]

ASSUME SignInAssumption == /\ NoEmail \in Emails
                           /\ Address \in [Subjects -> Emails]
                           /\ None \notin Users \cup Row
                           /\ MfaFields \in BOOLEAN

\* Nothing has been generated when it starts, and the column email is UNIQUE.
ASSUME StartsAssumption ==
    \A start \in Starts :
        /\ start.rows \in [Users -> Row \cup {None}]
        /\ \A u \in Users : start.rows[u] # None =>
              /\ start.rows[u].key = 0
              /\ start.rows[u].secret = 0
              /\ start.rows[u].codes = {}
              /\ \A v \in Users \ {u} :
                    start.rows[v] # None => start.rows[v].email # start.rows[u].email

Init ==
    \E start \in Starts :
        /\ rows = start.rows
        /\ left = start.left
        /\ passkeys = [k \in Passkeys |-> None]
        /\ links = [s \in Subjects |-> None]
        /\ pending = {}
        /\ partial = {}
        /\ req = [r \in Requests |-> Idle]
        /\ made = 0
        /\ ids = {u \in Users : start.rows[u] # None}
        /\ registered = {}
        /\ dropped = {}
        /\ created = [s \in Subjects |-> {}]
        /\ parted = {}
        /\ used = [u \in Users |-> {}]
        /\ answered = {}
        /\ stale = {}

Goto(r, call) == req' = [req EXCEPT ![r] = call]
End(r) == Goto(r, Idle)
May(kind) == left[kind] > 0 /\ left' = [left EXCEPT ![kind] = @ - 1]

\* A use is counted by its number, so that a second one shows.
Count(uses, what) == uses \cup {<<what, Cardinality({n \in uses : n[1] = what}) + 1>>}

-----------------------------------------------------------------------------
(* Challenges and setups: a map under a lock; an entry is removed when it is *)
(* presented, then its expiry is looked at.                                  *)
Challenged(r, kind, u, ks) ==
    /\ made' = made + 1
    /\ pending' = pending \cup {[kind |-> kind, id |-> made + 1, user |-> u,
                                 passkeys |-> ks, expired |-> FALSE]}
    /\ UNCHANGED <<tables, partial, req, history>>

\* Faulty: the entry is removed when the call has succeeded, by its end.
TakenBug(p) == pending

Taken(p) == pending \ {p}

Expire(p) ==
    /\ ~ p.expired
    /\ May("expire")
    /\ pending' = Taken(p) \cup {[p EXCEPT !.expired = TRUE]}
    /\ UNCHANGED <<tables, partial, req, made, history>>

-----------------------------------------------------------------------------
(* update_record.  `seen` is the row the patch was made from, None when it   *)
(* does not depend on one; `then` is what the call does when the row is      *)
(* written, `after` when it cannot be.                                       *)
Update(r, u, seen, patch, then, after) ==
    Goto(r, [at |-> "read", user |-> u, seen |-> seen, patch |-> patch,
             then |-> then, after |-> after])

\* The patch laid over the row, field by field.
Overlay(patch, row) ==
    [f \in DOMAIN row |-> IF f \in DOMAIN patch THEN patch[f] ELSE row[f]]

\* Fields the collection does not have are refused.
Known(patch) == MfaFields \/ DOMAIN patch \cap {"secret", "codes"} = {}

WithEmail(email) == {u \in Users : rows[u] # None /\ rows[u].email = email}

\* The column email is UNIQUE, the empty address included.
Conflict(u, email) == WithEmail(email) \ {u} # {}

\* The user was created for an identity that is not linked to it, or of which
\* a sign-in has found no link already.
Loose(u) ==
    \E s \in Subjects :
        /\ u \in created[s]
        /\ \/ links[s] # u
           \/ \E r \in Requests : req[r].at \in {"match", "create"} /\ req[r].subject = s

ReadRow(r) ==
    /\ req[r].at = "read"
    /\ LET u == req[r].user
       IN  IF rows[u] # None /\ Known(req[r].patch)
           THEN /\ Goto(r, [req[r] EXCEPT !.at = "write", !.seen = rows[u]])
                /\ stale' = IF req[r].seen \in {None, rows[u]} THEN stale ELSE stale \cup {u}
           ELSE Goto(r, req[r].after) /\ UNCHANGED stale
    /\ UNCHANGED <<tables, pending, partial, made, left,
                   ids, registered, dropped, created, parted, used, answered>>

\* The row is gone by now, or the statement fails, or every column is written;
\* so a write can put an old address back.
WriteRow(r) ==
    /\ req[r].at = "write"
    /\ LET u == req[r].user
           row == Overlay(req[r].patch, req[r].seen)
       IN  \/ /\ rows[u] # None
              /\ ~ Conflict(u, row.email)
              /\ rows' = [rows EXCEPT ![u] = row]
              /\ stale' = IF rows[u] = req[r].seen THEN stale ELSE stale \cup {u}
              /\ parted' = IF rows[u].email # row.email /\ Loose(u)
                           THEN parted \cup {u} ELSE parted
              /\ Goto(r, req[r].then)
           \/ Goto(r, req[r].after) /\ UNCHANGED <<rows, stale, parted>>
    /\ UNCHANGED <<passkeys, links, pending, partial, made, left,
                   ids, registered, dropped, created, used, answered>>

\* A new password comes with a new key.
ChangePassword(r, u) ==
    /\ req[r] = Idle
    /\ rows[u] # None
    /\ May("password")
    /\ made' = made + 1
    /\ Update(r, u, None, [key |-> made + 1], Idle, Idle)
    /\ UNCHANGED <<tables, pending, partial, history>>

\* A PATCH of the address, by the user or an administrator.
ChangeEmail(r, u, email) ==
    /\ req[r] = Idle
    /\ rows[u] # None
    /\ May("address")
    /\ Update(r, u, None, [email |-> email], Idle, Idle)
    /\ UNCHANGED <<tables, pending, partial, made, history>>

\* The token of an email change that the user asked for; a second update
\* brings a new key.
ConfirmEmailChange(r, u, email) ==
    /\ req[r] = Idle
    /\ rows[u] # None
    /\ email # NoEmail
    /\ WithEmail(email) = {}
    /\ May("address")
    /\ Update(r, u, None, [email |-> email, verified |-> TRUE],
              [at |-> "rekey", user |-> u], Idle)
    /\ UNCHANGED <<tables, pending, partial, made, history>>

Rekey(r) ==
    /\ req[r].at = "rekey"
    /\ made' = made + 1
    /\ Update(r, req[r].user, None, [key |-> made + 1], Idle, Idle)
    /\ UNCHANGED <<tables, pending, partial, left, history>>

DeleteUser(u) ==
    /\ rows[u] # None
    /\ May("delete")
    /\ rows' = [rows EXCEPT ![u] = None]
    /\ UNCHANGED <<passkeys, links, pending, partial, req, made, history>>

-----------------------------------------------------------------------------
(* The second factor. *)
RequestMfaSetup(u) ==
    /\ rows[u] # None
    /\ rows[u].secret = 0
    /\ May("setup")
    /\ Challenged(None, "setup", u, {})

\* A wrong code ends the setup as well.
ConfirmMfaSetup(r, p) ==
    /\ req[r] = Idle
    /\ p.kind = "setup"
    /\ pending' = Taken(p)
    /\ \/ End(r) /\ UNCHANGED answered
       \/ /\ ~ p.expired
          /\ answered' = Count(answered, p.id)
          /\ Update(r, p.user, None, [secret |-> p.id, codes |-> {p.id} \X Codes],
                    Idle, Idle)
    /\ UNCHANGED <<tables, partial, made, left,
                   ids, registered, dropped, created, parted, used, stale>>

\* With a second factor the password gives a partial token only.
AuthWithPassword(u) ==
    /\ rows[u] # None
    /\ rows[u].secret # 0
    /\ May("login")
    /\ partial' = partial \cup {[user |-> u, key |-> rows[u].key]}
    /\ UNCHANGED <<tables, pending, req, made, history>>

\* Faulty: the code stays in the list.
RemainingBug(codes, code) == codes

Remaining(codes, code) == codes \ {code}

\* The TOTP code of the row's secret: the factor is verified in one step.
\* A recovery code is looked for in the row that was read, and what is left
\* of that list is written.
AuthWithMfa(r, token, code) ==
    /\ req[r] = Idle
    /\ May("mfa")
    /\ LET u == token.user
           row == rows[u]
       IN  /\ row # None
           /\ row.key = token.key
           /\ row.secret # 0
           /\ code \in row.codes
           /\ Update(r, u, row, [codes |-> Remaining(row.codes, code)],
                     [at |-> "spent", user |-> u, code |-> code], Idle)
    /\ UNCHANGED <<tables, pending, partial, made, history>>

\* The full token is answered.
Spent(r) ==
    /\ req[r].at = "spent"
    /\ used' = [used EXCEPT ![req[r].user] = Count(@, req[r].code)]
    /\ End(r)
    /\ UNCHANGED <<tables, pending, partial, made, left,
                   ids, registered, dropped, created, parted, answered, stale>>

DisableMfa(r, u) ==
    /\ req[r] = Idle
    /\ rows[u] # None
    /\ rows[u].secret # 0
    /\ May("disable")
    /\ Update(r, u, None, [secret |-> 0, codes |-> {}], Idle, Idle)
    /\ UNCHANGED <<tables, pending, partial, made, history>>

-----------------------------------------------------------------------------
(* Passkeys. *)
RequestPasskeyRegister(u) ==
    /\ rows[u] # None
    /\ May("register")
    /\ Challenged(None, "register", u, {})

\* The credential that was made is stored, whether the user is still there
\* or not.
ConfirmPasskeyRegister(r, p, k) ==
    /\ p.kind = "register"
    /\ k \notin registered
    /\ pending' = Taken(p)
    /\ \/ UNCHANGED <<passkeys, registered, answered>>
       \/ /\ ~ p.expired
          /\ passkeys' = [passkeys EXCEPT ![k] = p.user]
          /\ registered' = registered \cup {k}
          /\ answered' = Count(answered, p.id)
    /\ UNCHANGED <<rows, links, partial, req, made, left,
                   ids, dropped, created, parted, used, stale>>

Stored == {k \in Passkeys : passkeys[k] # None}

PasskeyBegin ==
    /\ Stored # {}
    /\ May("begin")
    /\ Challenged(None, "assert", None, Stored)

\* The assertion is verified against the passkeys of the challenge, then the
\* credential is looked up.
PasskeyFinish(r, p, k) ==
    /\ req[r] = Idle
    /\ p.kind = "assert"
    /\ k \in p.passkeys
    /\ pending' = Taken(p)
    /\ \/ End(r)
       \/ /\ ~ p.expired
          /\ passkeys[k] # None
          /\ \E at \in {"load", "remove"} :   \* is there a new counter?
                Goto(r, [at |-> at, user |-> passkeys[k], passkey |-> k, challenge |-> p.id])
    /\ UNCHANGED <<tables, partial, made, left, history>>

\* The new counter is stored by a delete and a create of the same row; an
\* error of either is ignored, the id being there already is one.
RemovePasskey(r) ==
    /\ req[r].at = "remove"
    /\ Goto(r, [req[r] EXCEPT !.at = "restore"])
    /\ \/ passkeys' = [passkeys EXCEPT ![req[r].passkey] = None]
       \/ UNCHANGED passkeys
    /\ UNCHANGED <<rows, links, pending, partial, made, left, history>>

\* Faulty: the row is not made again.
RestoredBug(table, k, u) == table

Restored(table, k, u) == [table EXCEPT ![k] = u]

RestorePasskey(r) ==
    /\ req[r].at = "restore"
    /\ Goto(r, [req[r] EXCEPT !.at = "load"])
    /\ \/ /\ passkeys' = Restored(passkeys, req[r].passkey, req[r].user)
          /\ UNCHANGED dropped
       \/ /\ UNCHANGED passkeys
          /\ dropped' = dropped \cup {req[r].passkey}
    /\ UNCHANGED <<rows, links, pending, partial, made, left,
                   ids, registered, created, parted, used, answered, stale>>

\* get_record, and the token is answered.
LoadUser(r) ==
    /\ req[r].at = "load"
    /\ answered' = IF rows[req[r].user] = None THEN answered
                   ELSE Count(answered, req[r].challenge)
    /\ End(r)
    /\ UNCHANGED <<tables, pending, partial, made, left,
                   ids, registered, dropped, created, parted, used, stale>>

-----------------------------------------------------------------------------
(* External identities.  The provider gives the address, or none. *)
AuthWithOAuth2(r, s) ==
    /\ req[r] = Idle
    /\ May("oauth")
    /\ \E email \in {Address[s], NoEmail}, verified \in BOOLEAN :
          Goto(r, [at |-> "find", subject |-> s, email |-> email, verified |-> verified])
    /\ UNCHANGED <<tables, pending, partial, made, history>>

\* Faulty: the link counts only while the user has the provider's address.
LinkedBug(s) == links[s] \in WithEmail(Address[s])

Linked(s) == links[s] # None

\* find_by_provider.  Of a linked user the row is read, or the call fails.
FindLink(r) ==
    /\ req[r].at = "find"
    /\ IF Linked(req[r].subject)
       THEN End(r)
       ELSE Goto(r, [req[r] EXCEPT !.at = "match"])
    /\ UNCHANGED <<tables, pending, partial, made, left, history>>

\* A user with the address; an error of the search is as if there was none.
FindByEmail(r) ==
    /\ req[r].at = "match"
    /\ LET call == req[r]
           found == IF call.email = NoEmail THEN {} ELSE WithEmail(call.email)
       IN  \/ \E u \in found :
                 Goto(r, [at |-> "link", subject |-> call.subject, user |-> u,
                          mark |-> call.verified])
           \/ Goto(r, [call EXCEPT !.at = "create"])
    /\ UNCHANGED <<tables, pending, partial, made, left, history>>

\* create_record under an id that was never used; it may fail.
CreateUser(r) ==
    /\ req[r].at = "create"
    /\ LET call == req[r]
       IN  \/ \E u \in Users \ ids :
                 /\ ~ Conflict(u, call.email)
                 /\ rows' = [rows EXCEPT ![u] =
                       [email |-> call.email, verified |-> call.verified, key |-> made + 1,
                        secret |-> 0, codes |-> {}]]
                 /\ made' = made + 1
                 /\ ids' = ids \cup {u}
                 /\ created' = IF call.email = NoEmail THEN created
                               ELSE [created EXCEPT ![call.subject] = @ \cup {u}]
                 /\ Goto(r, [at |-> "link", subject |-> call.subject, user |-> u,
                             mark |-> FALSE])
           \/ End(r) /\ UNCHANGED <<rows, made, ids, created>>
    /\ UNCHANGED <<passkeys, links, pending, partial, left,
                   registered, dropped, parted, used, answered, stale>>

\* Both pairs, identity and user, are UNIQUE.
Linkable(s, u) == links[s] = None /\ \A t \in Subjects : links[t] # u

\* The identity is linked; a user that was found is marked as verified if the
\* provider says so, whether that update works or not.
LinkUser(r) ==
    /\ req[r].at = "link"
    /\ LET call == req[r]
       IN  \/ /\ Linkable(call.subject, call.user)
              /\ links' = [links EXCEPT ![call.subject] = call.user]
              /\ IF call.mark
                 THEN Update(r, call.user, None, [verified |-> TRUE], Idle, Idle)
                 ELSE End(r)
           \/ End(r) /\ UNCHANGED links
    /\ UNCHANGED <<rows, passkeys, pending, partial, made, left, history>>

\* The user is there, and the link to be deleted is looked up and deleted.
UnlinkExternalAuth(s) ==
    /\ links[s] # None
    /\ rows[links[s]] # None
    /\ May("unlink")
    /\ links' = [links EXCEPT ![s] = None]
    /\ parted' = IF rows[links[s]].email = Address[s] THEN parted ELSE parted \cup {links[s]}
    /\ UNCHANGED <<rows, passkeys, pending, partial, req, made,
                   ids, registered, dropped, created, used, answered, stale>>

\* The process ends and is started again.
Crash ==
    /\ May("crash")
    /\ pending' = {}
    /\ req' = [r \in Requests |-> Idle]
    /\ dropped' = dropped \cup {req[r].passkey : r \in {q \in Requests : req[q].at = "restore"}}
    /\ UNCHANGED <<tables, partial, made,
                   ids, registered, created, parted, used, answered, stale>>

-----------------------------------------------------------------------------
Mfa(r) ==
    \/ \E u \in Users : ChangePassword(r, u) \/ DisableMfa(r, u)
    \/ \E p \in pending : ConfirmMfaSetup(r, p)
    \/ \E token \in partial : \E code \in (1 .. made) \X Codes : AuthWithMfa(r, token, code)
    \/ ReadRow(r) \/ WriteRow(r) \/ Spent(r)

Passkey(r) ==
    \/ \E p \in pending, k \in Passkeys :
          ConfirmPasskeyRegister(r, p, k) \/ PasskeyFinish(r, p, k)
    \/ RemovePasskey(r) \/ RestorePasskey(r) \/ LoadUser(r)

Email(r) ==
    \/ \E u \in Users, email \in Emails :
          ChangeEmail(r, u, email) \/ ConfirmEmailChange(r, u, email)
    \/ Rekey(r)

OAuth(r) ==
    \/ \E s \in Subjects : AuthWithOAuth2(r, s)
    \/ FindLink(r) \/ FindByEmail(r) \/ CreateUser(r) \/ LinkUser(r)

Next ==
    \/ \E r \in Requests : Mfa(r) \/ Passkey(r) \/ Email(r) \/ OAuth(r)
    \/ \E p \in pending : Expire(p)
    \/ \E u \in Users :
          DeleteUser(u) \/ RequestMfaSetup(u) \/ AuthWithPassword(u) \/ RequestPasskeyRegister(u)
    \/ PasskeyBegin
    \/ \E s \in Subjects : UnlinkExternalAuth(s)
    \/ Crash

Spec == Init /\ [][Next]_vars

-----------------------------------------------------------------------------
TypeOK ==
    /\ \A u \in Users : rows[u] = None \/
          /\ rows[u].email \in Emails
          /\ rows[u].verified \in BOOLEAN
          /\ rows[u].key \in 0 .. made /\ rows[u].secret \in 0 .. made
          /\ rows[u].codes \subseteq (1 .. made) \X Codes
          /\ \A v \in Users \ {u} : rows[v] # None => rows[v].email # rows[u].email
    /\ passkeys \in [Passkeys -> Users \cup {None}]
    /\ links \in [Subjects -> Users \cup {None}]
    /\ pending \subseteq Challenge
    /\ \A token \in partial : token.user \in Users /\ token.key \in 0 .. made

(* A recovery code signs in once, and the codes of a row are those of its    *)
(* secret, as long as no write of the row undid another one: only then can a *)
(* code come back or outlive its setup.                                      *)
RecoveryCodesAreSpent ==
    \A u \in Users \ stale :
        /\ \A use \in used[u] : use[2] = 1
        /\ rows[u] # None =>
              /\ rows[u].codes \subseteq {rows[u].secret} \X Codes
              /\ \A use \in used[u] : use[1] \notin rows[u].codes

(* A passkey that was registered is there when no sign-in is renewing it,    *)
(* however the renewals of several sign-ins mix; only a failed or cut-off    *)
(* renewal loses it.                                                         *)
PasskeysKept ==
    \A k \in registered \ dropped :
        passkeys[k] = None => \E r \in Requests : req[r].at = "restore" /\ req[r].passkey = k

(* A challenge or a setup is answered with success at most once. *)
ChallengesOnce == \A n \in answered : n[2] = 1

(* An identity whose address does not change at the provider gets at most   *)
(* one account under it, however its first sign-ins overlap or fail and      *)
(* whichever addresses the accounts take on later: the link holds an account *)
(* that has left the address.  It cannot hold one that was not linked when   *)
(* its address changed, as when the statement that links it had failed, or   *)
(* that was unlinked since: the next sign-in makes another one.              *)
OneAccountPerIdentity ==
    \A s \in Subjects : Cardinality({u \in created[s] \ parted : rows[u] # None}) <= 1

=============================================================================
