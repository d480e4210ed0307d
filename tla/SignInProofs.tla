---------------------------- MODULE SignInProofs ----------------------------
(***************************************************************************)
(* SignIn for any number of calls, users, passkeys and identities: the     *)
(* invariant IInv is inductive, and the properties the run checks follow.  *)
(* Its parts are about different tables and are proved one by one: the     *)
(* types, the challenges, the passkeys, the accounts of an identity and    *)
(* the recovery codes.                                                     *)
(***************************************************************************)
EXTENDS SignIn, FiniteSetTheorems, TLAPS

----------------------------------------------------------------------------
(* The types                                                               *)

\* Codes and rows made from the first n secrets and keys.
CodesTo(n) == (1 .. n) \X Codes

RowTo(n) == [email : Emails, verified : BOOLEAN, key : 0 .. n, secret : 0 .. n,
             codes : SUBSET CodesTo(n)]

\* The patches the calls make.
KeyPatch(n) == [key : 0 .. n]
FactorPatch(n) == [secret : 0 .. n, codes : SUBSET CodesTo(n)]
CodesPatch(n) == [codes : SUBSET CodesTo(n)]
MarkPatch == [verified : {TRUE}]
EmailPatch == [email : Emails] \cup [email : Emails, verified : {TRUE}]

PatchTo(n) ==
    KeyPatch(n) \cup FactorPatch(n) \cup CodesPatch(n) \cup MarkPatch \cup EmailPatch

RekeyCall == [at : {"rekey"}, user : Users]

SpentCall(n) == [at : {"spent"}, user : Users, code : CodesTo(n)]

UpdateCall(n) == [at : {"read", "write"}, user : Users, seen : RowTo(n) \cup {None},
                  patch : PatchTo(n), then : {Idle} \cup SpentCall(n) \cup RekeyCall,
                  after : {Idle}]

PasskeyCall(n) == [at : {"load", "remove", "restore"}, user : Users,
                   passkey : Passkeys, challenge : 1 .. n]

OAuthCall == [at : {"find", "match", "create"}, subject : Subjects, email : Emails,
              verified : BOOLEAN]

LinkCall == [at : {"link"}, subject : Subjects, user : Users, mark : BOOLEAN]

CallTo(n) == {Idle} \cup SpentCall(n) \cup UpdateCall(n) \cup PasskeyCall(n)
             \cup RekeyCall \cup OAuthCall \cup LinkCall

ChallengeTo(n) == {p \in Challenge : p.id \in 1 .. n /\ (p.kind # "assert" => p.user \in Users)}

Types ==
    /\ made \in Nat
    /\ rows \in [Users -> RowTo(made) \cup {None}]
    /\ passkeys \in [Passkeys -> Users \cup {None}]
    /\ links \in [Subjects -> Users \cup {None}]
    /\ pending \subseteq ChallengeTo(made)
    /\ partial \subseteq [user : Users, key : 0 .. made]
    /\ req \in [Requests -> CallTo(made)]
    /\ ids \subseteq Users
    /\ registered \subseteq Passkeys
    /\ created \in [Subjects -> SUBSET Users]
    /\ used \in [Users -> SUBSET (CodesTo(made) \X Nat)]
    /\ \A u \in Users : IsFiniteSet(used[u])
    /\ answered \subseteq (1 .. made) \X Nat
    /\ IsFiniteSet(answered)

----------------------------------------------------------------------------
(* The inductive invariant                                                 *)

\* The call renews the counter of a passkey, or is about to answer.
Signing(r) == req[r].at \in {"load", "remove", "restore"}

\* A challenge is pending, or held by one sign-in, or answered.
ChallengesApart ==
    /\ \A p, q \in pending : p.id = q.id => p = q
    /\ \A p \in pending, n \in answered : n[1] # p.id
    /\ \A r \in Requests : Signing(r) =>
          /\ \A p \in pending : p.id # req[r].challenge
          /\ \A n \in answered : n[1] # req[r].challenge
          /\ \A s \in Requests \ {r} : Signing(s) => req[s].challenge # req[r].challenge

\* A row has an id that is in use, and an update that writes has a row.
RowsKnown ==
    /\ \A u \in Users : rows[u] # None => u \in ids
    /\ \A r \in Requests : req[r].at = "write" => req[r].user \in ids /\ req[r].seen # None

UniqueAddresses ==
    \A u, v \in Users :
        u # v /\ rows[u] # None /\ rows[v] # None => rows[u].email # rows[v].email

\* A sign-in has the address of its identity, or none.
CallsHaveAddress ==
    \A r \in Requests : req[r].at \in {"find", "match", "create"} =>
        req[r].email \in {Address[req[r].subject], NoEmail}

\* A sign-in of the identity that has found no link.
Searching(s) == \E r \in Requests : req[r].at \in {"match", "create"} /\ req[r].subject = s

\* An account that was created for the identity has its address, or is linked to
\* it and every sign-in finds the link.
AccountsHeld ==
    /\ \A s \in Subjects : created[s] \subseteq ids
    /\ \A s \in Subjects : \A u \in created[s] \ parted :
          rows[u] # None =>
              \/ rows[u].email = Address[s]
              \/ links[s] = u /\ ~ Searching(s)

\* The accounts that count for an identity are one.
OneHeld ==
    \A s \in Subjects : \A u, v \in created[s] \ parted :
        rows[u] # None /\ rows[v] # None => u = v

Updating(r) == req[r].at \in {"read", "write"}

\* A patch of the second factor, and one that takes a code off the list.
SetsFactor(patch) == "secret" \in DOMAIN patch
TakesCode(patch) == "codes" \in DOMAIN patch /\ "secret" \notin DOMAIN patch

\* An update that brings a new second factor.
Setting(r) == Updating(r) /\ SetsFactor(req[r].patch) /\ req[r].patch.secret # 0

\* A setup is pending or one update's, and its codes are its own.
SetupsApart ==
    /\ \A r \in Requests : Updating(r) /\ SetsFactor(req[r].patch) =>
          req[r].patch.codes \subseteq {req[r].patch.secret} \X Codes
    /\ \A r \in Requests : Setting(r) =>
          /\ \A p \in pending : p.id # req[r].patch.secret
          /\ \A s \in Requests \ {r} : Setting(s) => req[s].patch.secret # req[r].patch.secret

\* A login that takes a recovery code takes one of the row it has read.
Spending ==
    \A r \in Requests : Updating(r) =>
        IF TakesCode(req[r].patch)
        THEN /\ req[r].then.at = "spent"
             /\ req[r].then.user = req[r].user
             /\ req[r].at = "read" \/ req[r].user \notin stale =>
                   /\ req[r].seen # None
                   /\ req[r].then.code \in req[r].seen.codes
                   /\ req[r].patch.codes = Remaining(req[r].seen.codes, req[r].then.code)
        ELSE req[r].then.at # "spent"

\* The setup with this number is not in the user's row, and no code of it is
\* used.
Unwritten(u, n) ==
    /\ rows[u] # None => rows[u].secret # n
    /\ \A use \in used[u] : use[1][1] # n
    /\ \A r \in Requests : req[r].at = "spent" /\ req[r].user = u => req[r].code[1] # n

\* The codes of a row are those of its secret, those that were used are gone,
\* and an open setup is new, as long as no write undid another one.
CodesOf(u) ==
    /\ rows[u] # None =>
          /\ rows[u].codes \subseteq {rows[u].secret} \X Codes
          /\ \A use \in used[u] : use[1] \notin rows[u].codes
          /\ \A r \in Requests :
                req[r].at = "spent" /\ req[r].user = u => req[r].code \notin rows[u].codes
    /\ \A use \in used[u] : use[2] = 1
    /\ \A r \in Requests : req[r].at = "spent" /\ req[r].user = u =>
          /\ \A use \in used[u] : use[1] # req[r].code
          /\ \A s \in Requests \ {r} :
                req[s].at = "spent" /\ req[s].user = u => req[s].code # req[r].code
    /\ \A p \in pending : p.kind = "setup" /\ p.user = u => Unwritten(u, p.id)
    /\ \A r \in Requests :
          Setting(r) /\ req[r].user = u => Unwritten(u, req[r].patch.secret)

IInv == /\ Types
        /\ ChallengesApart /\ ChallengesOnce
        /\ PasskeysKept
        /\ RowsKnown /\ UniqueAddresses /\ CallsHaveAddress /\ AccountsHeld /\ OneHeld
        /\ SetupsApart /\ Spending /\ \A u \in Users \ stale : CodesOf(u)

----------------------------------------------------------------------------
(* Lemmas about rows, patches and calls                                    *)

\* What was made of the first n numbers is made of the first n + 1.
LEMMA Monotone ==
  ASSUME NEW n \in Nat
  PROVE  /\ CodesTo(n) \subseteq CodesTo(n + 1) /\ RowTo(n) \subseteq RowTo(n + 1)
         /\ CallTo(n) \subseteq CallTo(n + 1) /\ ChallengeTo(n) \subseteq ChallengeTo(n + 1)
  <1>1. 1 .. n \subseteq 1 .. n + 1 /\ 0 .. n \subseteq 0 .. n + 1
    OBVIOUS
  <1>2. CodesTo(n) \subseteq CodesTo(n + 1)
    BY <1>1 DEF CodesTo
  <1>3. RowTo(n) \subseteq RowTo(n + 1)
    BY <1>1, <1>2 DEF RowTo
  <1>4. PatchTo(n) \subseteq PatchTo(n + 1)
    BY <1>1, <1>2 DEF PatchTo, KeyPatch, FactorPatch, CodesPatch
  <1>5. SpentCall(n) \subseteq SpentCall(n + 1)
    BY <1>2 DEF SpentCall
  <1>6. UpdateCall(n) \subseteq UpdateCall(n + 1)
    BY <1>3, <1>4, <1>5 DEF UpdateCall
  <1>7. PasskeyCall(n) \subseteq PasskeyCall(n + 1)
    BY <1>1 DEF PasskeyCall
  <1>8. ChallengeTo(n) \subseteq ChallengeTo(n + 1)
    BY <1>1 DEF ChallengeTo
  <1> QED
    BY <1>2, <1>3, <1>5, <1>6, <1>7, <1>8 DEF CallTo

\* A row, patched, is a row; a patch of the second
\* factor brings its secret and its codes, one that takes a code its codes, and
\* the others neither.
LEMMA OverlayRow ==
  ASSUME NEW n \in Nat, NEW row \in RowTo(n), NEW patch \in PatchTo(n)
  PROVE  /\ Overlay(patch, row) \in RowTo(n)
         /\ Overlay(patch, row).secret =
               IF SetsFactor(patch) THEN patch.secret ELSE row.secret
         /\ Overlay(patch, row).codes =
               IF SetsFactor(patch) \/ TakesCode(patch) THEN patch.codes ELSE row.codes
  <1> DEFINE new == Overlay(patch, row)
  <1>1. /\ DOMAIN new = {"email", "verified", "key", "secret", "codes"}
        /\ \A f \in {"email", "verified", "key", "secret", "codes"} :
              new[f] = IF f \in DOMAIN patch THEN patch[f] ELSE row[f]
    BY DEF Overlay, RowTo
  <1>2. \/ DOMAIN patch = {"key"} /\ patch["key"] \in 0 .. n
        \/ /\ DOMAIN patch = {"secret", "codes"}
           /\ patch["secret"] \in 0 .. n /\ patch["codes"] \in SUBSET CodesTo(n)
        \/ DOMAIN patch = {"codes"} /\ patch["codes"] \in SUBSET CodesTo(n)
        \/ DOMAIN patch = {"verified"} /\ patch["verified"] \in BOOLEAN
        \/ DOMAIN patch = {"email"} /\ patch["email"] \in Emails
        \/ /\ DOMAIN patch = {"email", "verified"}
           /\ patch["email"] \in Emails /\ patch["verified"] \in BOOLEAN
    BY DEF PatchTo, KeyPatch, FactorPatch, CodesPatch, MarkPatch, EmailPatch
  <1>3. /\ new["email"] \in Emails /\ new["verified"] \in BOOLEAN /\ new["key"] \in 0 .. n
        /\ new["secret"] \in 0 .. n /\ new["codes"] \in SUBSET CodesTo(n)
    BY <1>1, <1>2 DEF RowTo
  <1>4. new = [email |-> new["email"], verified |-> new["verified"], key |-> new["key"],
               secret |-> new["secret"], codes |-> new["codes"]]
    BY <1>1 DEF Overlay
  <1>5. new \in RowTo(n)
    BY <1>3, <1>4 DEF RowTo
  <1>6. /\ new.secret = IF SetsFactor(patch) THEN patch.secret ELSE row.secret
        /\ new.codes =
              IF SetsFactor(patch) \/ TakesCode(patch) THEN patch.codes ELSE row.codes
    BY <1>1, <1>2 DEF SetsFactor, TakesCode
  <1> QED
    BY <1>5, <1>6

\* A patch with a secret is one of the second factor.
LEMMA FactorTyped ==
  ASSUME NEW n, NEW patch \in PatchTo(n), SetsFactor(patch)
  PROVE  patch \in FactorPatch(n)
  <1>1. patch \in KeyPatch(n) => DOMAIN patch = {"key"}
    BY DEF KeyPatch
  <1>2. patch \in CodesPatch(n) => DOMAIN patch = {"codes"}
    BY DEF CodesPatch
  <1>3. patch \in MarkPatch => DOMAIN patch = {"verified"}
    BY DEF MarkPatch
  <1>4. patch \in EmailPatch => DOMAIN patch \in {{"email"}, {"email", "verified"}}
    BY DEF EmailPatch
  <1> QED
    BY <1>1, <1>2, <1>3, <1>4 DEF PatchTo, SetsFactor

\* What the types say of a call at each of its steps.
LEMMA CallTyped ==
  ASSUME Types, NEW r \in Requests
  PROVE  /\ req[r].at \in {"read", "write"} => req[r] \in UpdateCall(made)
         /\ req[r].at = "spent" => req[r] \in SpentCall(made)
         /\ req[r].at \in {"load", "remove", "restore"} => req[r] \in PasskeyCall(made)
         /\ req[r].at \in {"find", "match", "create"} => req[r] \in OAuthCall
         /\ req[r].at = "link" => req[r] \in LinkCall
         /\ req[r].at = "rekey" => req[r] \in RekeyCall
         /\ req[r].at = "idle" => req[r] = Idle
  BY DEF Types, CallTo, UpdateCall, SpentCall, PasskeyCall, RekeyCall, OAuthCall, LinkCall, Idle

\* The fields of an update.
LEMMA UpdateFields ==
  ASSUME Types, NEW r \in Requests, Updating(r)
  PROVE  /\ req[r].user \in Users /\ req[r].patch \in PatchTo(made)
         /\ req[r].seen \in RowTo(made) \cup {None}
         /\ req[r].then \in {Idle} \cup SpentCall(made) \cup RekeyCall
         /\ req[r].then.at \in {"idle", "spent", "rekey"} /\ req[r].after = Idle
  <1>1. Idle.at = "idle" /\ \A call \in SpentCall(made) \cup RekeyCall : call.at \in {"spent", "rekey"}
    BY DEF Idle, SpentCall, RekeyCall
  <1> QED
    BY <1>1, CallTyped DEF Updating, UpdateCall

\* A row is not None, and a row of the types is a row of the model.
LEMMA RowFacts ==
  ASSUME Types
  PROVE  /\ None \notin Users /\ \A n \in Nat : None \notin RowTo(n)
         /\ \A u \in Users : rows[u] # None => rows[u] \in RowTo(made)
  <1>1. \A n \in Nat : RowTo(n) \subseteq Row
    BY DEF RowTo, Row, CodesTo
  <1> QED
    BY <1>1, SignInAssumption DEF Types

\* A step of a call is no step of another one.
LEMMA OwnCall ==
  ASSUME Types, NEW r \in Requests, Mfa(r) \/ Passkey(r) \/ Email(r) \/ OAuth(r)
  PROVE  \A q \in Requests \ {r} : req'[q] = req[q]
  <1>1. ASSUME NEW call, Goto(r, call) PROVE \A q \in Requests \ {r} : req'[q] = req[q]
    BY <1>1 DEF Goto, Types
  <1>2. CASE Mfa(r)
    <2>1. ASSUME NEW u \in Users, ChangePassword(r, u) \/ DisableMfa(r, u)
          PROVE  \A q \in Requests \ {r} : req'[q] = req[q]
      BY <1>1, <2>1 DEF ChangePassword, DisableMfa, Update
    <2>2. ASSUME NEW p \in pending, ConfirmMfaSetup(r, p)
          PROVE  \A q \in Requests \ {r} : req'[q] = req[q]
      BY <1>1, <2>2 DEF ConfirmMfaSetup, Update, End
    <2>3. ASSUME NEW token \in partial, NEW code \in (1 .. made) \X Codes,
                 AuthWithMfa(r, token, code)
          PROVE  \A q \in Requests \ {r} : req'[q] = req[q]
      BY <1>1, <2>3 DEF AuthWithMfa, Update
    <2>4. ReadRow(r) \/ WriteRow(r) \/ Spent(r) => \A q \in Requests \ {r} : req'[q] = req[q]
      BY <1>1 DEF ReadRow, WriteRow, Spent, End
    <2> QED
      BY <1>2, <2>1, <2>2, <2>3, <2>4 DEF Mfa
  <1>3. CASE Passkey(r)
    <2>1. ASSUME NEW p \in pending, NEW k \in Passkeys,
                 ConfirmPasskeyRegister(r, p, k) \/ PasskeyFinish(r, p, k)
          PROVE  \A q \in Requests \ {r} : req'[q] = req[q]
      BY <1>1, <2>1 DEF ConfirmPasskeyRegister, PasskeyFinish, End
    <2>2. RemovePasskey(r) \/ RestorePasskey(r) \/ LoadUser(r)
             => \A q \in Requests \ {r} : req'[q] = req[q]
      BY <1>1 DEF RemovePasskey, RestorePasskey, LoadUser, End
    <2> QED
      BY <1>3, <2>1, <2>2 DEF Passkey
  <1>4. CASE OAuth(r)
    BY <1>1, <1>4 DEF OAuth, AuthWithOAuth2, FindLink, FindByEmail, CreateUser, LinkUser,
                      Update, End
  <1>5. CASE Email(r)
    BY <1>1, <1>5 DEF Email, ChangeEmail, ConfirmEmailChange, Rekey, Update
  <1> QED
    BY <1>2, <1>3, <1>4, <1>5

\* A change of an address starts an update that is none of the second factor.
LEMMA EmailCalls ==
  ASSUME Types, NEW r \in Requests, Email(r)
  PROVE  /\ UNCHANGED <<rows, passkeys, links, pending, partial, ids, registered, dropped,
                        created, parted, used, answered, stale>>
         /\ made' \in {made, made + 1} /\ req' \in [Requests -> CallTo(made')]
         /\ req[r].at \in {"idle", "rekey"} /\ req'[r].at = "read"
         /\ req'[r].then.at # "spent"
         /\ ~ SetsFactor(req'[r].patch) /\ ~ TakesCode(req'[r].patch)
  <1>0. made \in Nat /\ Idle.at = "idle"
    BY DEF Types, Idle
  <1>1. ASSUME NEW n \in {made, made + 1}, made' = n, NEW u \in Users, NEW patch \in PatchTo(n),
               NEW then \in {Idle} \cup RekeyCall, Update(r, u, None, patch, then, Idle),
               "secret" \notin DOMAIN patch, "codes" \notin DOMAIN patch
        PROVE  /\ req' \in [Requests -> CallTo(made')]
               /\ req'[r].at = "read" /\ req'[r].then.at # "spent"
               /\ ~ SetsFactor(req'[r].patch) /\ ~ TakesCode(req'[r].patch)
    <2> DEFINE call == [at |-> "read", user |-> u, seen |-> None, patch |-> patch,
                        then |-> then, after |-> Idle]
    <2>1. call \in CallTo(n) /\ CallTo(made) \subseteq CallTo(n)
      BY <1>0, <1>1, Monotone DEF CallTo, UpdateCall
    <2>2. req' = [req EXCEPT ![r] = call]
      BY <1>1 DEF Update, Goto
    <2>3. call.at = "read" /\ call.patch = patch /\ call.then = then
      OBVIOUS
    <2>4. then.at # "spent"
      BY <1>0, <1>1 DEF RekeyCall
    <2> HIDE DEF call
    <2>5. req' \in [Requests -> CallTo(n)] /\ req'[r] = call
      BY <2>1, <2>2 DEF Types
    <2> QED
      BY <1>1, <2>3, <2>4, <2>5 DEF SetsFactor, TakesCode
  <1>2. ASSUME NEW u \in Users, NEW email \in Emails,
               ChangeEmail(r, u, email) \/ ConfirmEmailChange(r, u, email)
        PROVE  /\ made' = made /\ req[r].at = "idle" /\ req' \in [Requests -> CallTo(made')]
               /\ req'[r].at = "read" /\ req'[r].then.at # "spent"
               /\ ~ SetsFactor(req'[r].patch) /\ ~ TakesCode(req'[r].patch)
    <2>1. made' = made /\ req[r].at = "idle"
      BY <1>0, <1>2 DEF ChangeEmail, ConfirmEmailChange
    <2>2. /\ [email |-> email] \in PatchTo(made)
          /\ [email |-> email, verified |-> TRUE] \in PatchTo(made)
      BY DEF PatchTo, EmailPatch
    <2>3. [at |-> "rekey", user |-> u] \in RekeyCall
      BY DEF RekeyCall
    <2>4. CASE ChangeEmail(r, u, email)
      BY <1>1, <2>1, <2>2, <2>4 DEF ChangeEmail
    <2>5. CASE ConfirmEmailChange(r, u, email)
      BY <1>1, <2>1, <2>2, <2>3, <2>5 DEF ConfirmEmailChange
    <2> QED
      BY <1>2, <2>1, <2>4, <2>5
  <1>3. CASE Rekey(r)
    <2>1. made' = made + 1 /\ req[r].at = "rekey" /\ req[r].user \in Users
      BY <1>3, CallTyped DEF Rekey, RekeyCall
    <2>2. [key |-> made + 1] \in PatchTo(made + 1)
      BY <1>0 DEF PatchTo, KeyPatch
    <2>3. /\ req' \in [Requests -> CallTo(made')]
          /\ req'[r].at = "read" /\ req'[r].then.at # "spent"
          /\ ~ SetsFactor(req'[r].patch) /\ ~ TakesCode(req'[r].patch)
      BY <1>1, <1>3, <2>1, <2>2 DEF Rekey
    <2> QED
      BY <1>3, <2>1, <2>3 DEF Rekey, tables, history
  <1>4. UNCHANGED <<rows, passkeys, links, pending, partial, ids, registered, dropped,
                    created, parted, used, answered, stale>>
    BY DEF Email, ChangeEmail, ConfirmEmailChange, Rekey, tables, history
  <1> QED
    BY <1>2, <1>3, <1>4 DEF Email

----------------------------------------------------------------------------
(* Type correctness                                                        *)

\* A step in which a request goes to a well-formed call.
LEMMA GotoTyped ==
  ASSUME Types, NEW r \in Requests, NEW call, Goto(r, call), made' \in {made, made + 1},
         call \in CallTo(made')
  PROVE  req' \in [Requests -> CallTo(made')]
  <1>1. CallTo(made) \subseteq CallTo(made')
    BY Monotone DEF Types
  <1> QED
    BY <1>1 DEF Types, Goto

\* What the types say of the variables that a step leaves alone, whether it
\* makes a new number or not.
LEMMA Widened ==
  ASSUME Types, made' \in {made, made + 1}
  PROVE  /\ made' \in Nat
         /\ rows \in [Users -> RowTo(made') \cup {None}]
         /\ pending \subseteq ChallengeTo(made')
         /\ partial \subseteq [user : Users, key : 0 .. made']
         /\ req \in [Requests -> CallTo(made')]
         /\ used \in [Users -> SUBSET (CodesTo(made') \X Nat)]
         /\ answered \subseteq (1 .. made') \X Nat
  <1>1. /\ made' \in Nat /\ 0 .. made \subseteq 0 .. made' /\ 1 .. made \subseteq 1 .. made'
        /\ CodesTo(made) \subseteq CodesTo(made') /\ RowTo(made) \subseteq RowTo(made')
        /\ CallTo(made) \subseteq CallTo(made') /\ ChallengeTo(made) \subseteq ChallengeTo(made')
    BY Monotone DEF Types
  <1>2. /\ rows \in [Users -> RowTo(made') \cup {None}]
        /\ req \in [Requests -> CallTo(made')] /\ pending \subseteq ChallengeTo(made')
    BY <1>1 DEF Types
  <1>3. /\ partial \subseteq [user : Users, key : 0 .. made']
        /\ answered \subseteq (1 .. made') \X Nat
    BY <1>1 DEF Types
  <1>4. CodesTo(made) \X Nat \subseteq CodesTo(made') \X Nat
    BY <1>1
  <1>5. used \in [Users -> SUBSET (CodesTo(made') \X Nat)]
    BY <1>4 DEF Types
  <1> QED
    BY <1>1, <1>2, <1>3, <1>5

\* Counting a use adds one pair of what is counted and a number, which is 1
\* for the first use.
LEMMA CountTyped ==
  ASSUME NEW S, NEW uses \in SUBSET (S \X Nat), IsFiniteSet(uses), NEW what \in S
  PROVE  /\ Count(uses, what) \in SUBSET (S \X Nat)
         /\ IsFiniteSet(Count(uses, what))
         /\ (\A n \in uses : n[1] # what) => Count(uses, what) = uses \cup {<<what, 1>>}
  <1> DEFINE same == {n \in uses : n[1] = what}
  <1>1. IsFiniteSet(same) /\ Cardinality(same) \in Nat
    <2>1. IsFiniteSet(same)
      BY FS_Subset
    <2> QED
      BY <2>1, FS_CardinalityType
  <1>2. Count(uses, what) = uses \cup {<<what, Cardinality(same) + 1>>}
    BY DEF Count
  <1>3. IsFiniteSet(Count(uses, what))
    <2>1. \A x : IsFiniteSet(uses \cup {x})
      BY FS_AddElement
    <2> QED
      BY <1>2, <2>1
  <1>4. (\A n \in uses : n[1] # what) => Cardinality(same) = 0
    BY FS_EmptySet
  <1> QED
    BY <1>1, <1>2, <1>3, <1>4

\* Counting the answer of a challenge, or the use of a code, keeps the types.
LEMMA AnswerTyped ==
  ASSUME Types, NEW id \in 1 .. made
  PROVE  Count(answered, id) \subseteq (1 .. made) \X Nat /\ IsFiniteSet(Count(answered, id))
  <1>1. answered \in SUBSET ((1 .. made) \X Nat) /\ IsFiniteSet(answered)
    BY DEF Types
  <1> QED
    BY <1>1, CountTyped

LEMMA UseTyped ==
  ASSUME Types, NEW u \in Users, NEW code \in CodesTo(made)
  PROVE  /\ Count(used[u], code) \in SUBSET (CodesTo(made) \X Nat)
         /\ IsFiniteSet(Count(used[u], code))
  <1>1. used[u] \in SUBSET (CodesTo(made) \X Nat) /\ IsFiniteSet(used[u])
    BY DEF Types
  <1> QED
    BY <1>1, CountTyped

\* The calls of an update.
LEMMA UpdateTyped ==
  ASSUME NEW n \in Nat, NEW u \in Users, NEW seen \in RowTo(n) \cup {None},
         NEW patch \in PatchTo(n), NEW then \in {Idle} \cup SpentCall(n)
  PROVE  [at |-> "read", user |-> u, seen |-> seen, patch |-> patch, then |-> then,
          after |-> Idle] \in CallTo(n)
  BY DEF CallTo, UpdateCall

\* A fresh challenge is well-formed.
LEMMA ChallengedTyped ==
  ASSUME Types, NEW kind \in {"setup", "register", "assert"}, NEW u \in Users \cup {None},
         NEW ks \in SUBSET Passkeys, kind # "assert" => u \in Users,
         Challenged(None, kind, u, ks)
  PROVE  Types'
  <1>1. made' = made + 1 /\ made \in Nat
    BY DEF Challenged, Types
  <1>2. [kind |-> kind, id |-> made + 1, user |-> u, passkeys |-> ks, expired |-> FALSE]
           \in ChallengeTo(made')
    BY <1>1 DEF ChallengeTo, Challenge
  <1>3. pending' \subseteq ChallengeTo(made')
    BY <1>1, <1>2, Widened DEF Challenged
  <1>4. UNCHANGED <<tables, partial, req, history>>
    BY DEF Challenged
  <1> QED
    BY <1>1, <1>3, <1>4, Widened DEF Types, tables, history

\* The steps of an update keep the types.
LEMMA UpdateTypes ==
  ASSUME Types, RowsKnown, NEW r \in Requests, ReadRow(r) \/ WriteRow(r)
  PROVE  Types'
  <1> DEFINE u == req[r].user
  <1>0. req[r] \in UpdateCall(made) /\ Updating(r)
    BY CallTyped DEF ReadRow, WriteRow, Updating
  <1>1. /\ u \in Users /\ req[r].patch \in PatchTo(made)
        /\ req[r].then \in CallTo(made) /\ req[r].after \in CallTo(made)
    BY <1>0, UpdateFields DEF CallTo
  <1>2. CASE ReadRow(r)
    <2>1. rows[u] # None =>
             [req[r] EXCEPT !.at = "write", !.seen = rows[u]] \in UpdateCall(made)
      BY <1>0, <1>1 DEF UpdateCall, Types
    <2>2. req' \in [Requests -> CallTo(made)]
      BY <1>1, <1>2, <2>1 DEF ReadRow, Goto, Types, CallTo
    <2> QED
      BY <1>2, <2>2 DEF ReadRow, Types, tables
  <1>3. CASE WriteRow(r)
    <2>1. req' \in [Requests -> CallTo(made)]
      BY <1>1, <1>3 DEF WriteRow, Goto, Types
    <2>2. rows' \in [Users -> RowTo(made) \cup {None}]
      <3>1. req[r].seen \in RowTo(made)
        BY <1>0, <1>3, UpdateFields DEF RowsKnown, WriteRow
      <3>2. Overlay(req[r].patch, req[r].seen) \in RowTo(made)
        BY <1>1, <3>1, OverlayRow DEF Types
      <3> QED
        BY <1>1, <1>3, <3>2 DEF WriteRow, Types
    <2> QED
      BY <1>3, <2>1, <2>2 DEF WriteRow, Types
  <1> QED
    BY <1>2, <1>3

\* The calls that start an update keep the types.
LEMMA StartTypes ==
  ASSUME Types, NEW r \in Requests,
         \/ \E u \in Users : ChangePassword(r, u) \/ DisableMfa(r, u)
         \/ \E p \in pending : ConfirmMfaSetup(r, p)
         \/ \E token \in partial : \E code \in (1 .. made) \X Codes : AuthWithMfa(r, token, code)
  PROVE  Types'
  <1>0. made \in Nat /\ Idle \in CallTo(made)
    BY DEF Types, CallTo
  <1>1. ASSUME NEW u \in Users, ChangePassword(r, u) PROVE Types'
    <2>1. made' = made + 1
      BY <1>1 DEF ChangePassword
    <2>2. [key |-> made + 1] \in PatchTo(made')
      BY <1>0, <2>1 DEF PatchTo, KeyPatch
    <2>3. req' \in [Requests -> CallTo(made')]
      BY <1>0, <1>1, <2>1, <2>2, UpdateTyped, GotoTyped DEF ChangePassword, Update
    <2> QED
      BY <1>1, <2>1, <2>3, Widened DEF ChangePassword, Types, tables, history
  <1>2. ASSUME NEW u \in Users, DisableMfa(r, u) PROVE Types'
    <2>1. made' = made
      BY <1>2 DEF DisableMfa
    <2>2. [secret |-> 0, codes |-> {}] \in PatchTo(made)
      BY <1>0 DEF PatchTo, FactorPatch
    <2>3. req' \in [Requests -> CallTo(made')]
      BY <1>0, <1>2, <2>1, <2>2, UpdateTyped, GotoTyped DEF DisableMfa, Update
    <2> QED
      BY <1>2, <2>1, <2>3 DEF DisableMfa, Types, tables, history
  <1>3. ASSUME NEW p \in pending, ConfirmMfaSetup(r, p) PROVE Types'
    <2>1. made' = made /\ p \in ChallengeTo(made) /\ p.id \in 1 .. made /\ p.user \in Users
      BY <1>3 DEF ConfirmMfaSetup, Types, ChallengeTo
    <2>2. [secret |-> p.id, codes |-> {p.id} \X Codes] \in PatchTo(made)
      BY <1>0, <2>1 DEF PatchTo, FactorPatch, CodesTo
    <2>3. req' \in [Requests -> CallTo(made')]
      BY <1>0, <1>3, <2>1, <2>2, UpdateTyped, GotoTyped DEF ConfirmMfaSetup, Update, End
    <2>4. answered' \subseteq (1 .. made) \X Nat /\ IsFiniteSet(answered')
      BY <1>3, <2>1, AnswerTyped DEF ConfirmMfaSetup, Types
    <2> QED
      BY <1>3, <2>1, <2>3, <2>4 DEF ConfirmMfaSetup, Taken, Types, tables
  <1>4. ASSUME NEW token \in partial, NEW code \in (1 .. made) \X Codes,
               AuthWithMfa(r, token, code)
        PROVE  Types'
    <2>1. made' = made /\ token.user \in Users /\ rows[token.user] \in RowTo(made)
      BY <1>4, RowFacts DEF AuthWithMfa, Types
    <2>2. [codes |-> Remaining(rows[token.user].codes, code)] \in PatchTo(made)
      BY <2>1 DEF PatchTo, CodesPatch, Remaining, RowTo
    <2>3. [at |-> "spent", user |-> token.user, code |-> code] \in SpentCall(made)
      BY <2>1 DEF SpentCall, CodesTo
    <2>4. req' \in [Requests -> CallTo(made')]
      BY <1>0, <1>4, <2>1, <2>2, <2>3, UpdateTyped, GotoTyped DEF AuthWithMfa, Update
    <2> QED
      BY <1>4, <2>1, <2>4 DEF AuthWithMfa, Types, tables, history
  <1> QED
    BY <1>1, <1>2, <1>3, <1>4

\* So do the other steps of the second factor and of passkeys ...
LEMMA PasskeyTypes ==
  ASSUME Types, NEW r \in Requests, Spent(r) \/ Passkey(r)
  PROVE  Types'
  <1>0. made \in Nat /\ Idle \in CallTo(made) /\ PasskeyCall(made) \subseteq CallTo(made)
    BY DEF Types, CallTo
  <1>1. CASE Spent(r)
    <2>1. req[r].user \in Users /\ req[r].code \in CodesTo(made) /\ made' = made
      BY <1>1, CallTyped DEF Spent, SpentCall
    <2>2. /\ used'[req[r].user] \in SUBSET (CodesTo(made) \X Nat)
          /\ IsFiniteSet(used'[req[r].user])
          /\ \A u \in Users \ {req[r].user} : used'[u] = used[u]
          /\ used' = [u \in Users |-> used'[u]]
      BY <1>1, <2>1, UseTyped DEF Spent, Types
    <2>3. req' \in [Requests -> CallTo(made')]
      BY <1>0, <1>1, <2>1, GotoTyped DEF Spent, End
    <2> QED
      BY <1>1, <2>1, <2>2, <2>3 DEF Spent, Types, tables
  <1>2. ASSUME NEW p \in pending, NEW k \in Passkeys, ConfirmPasskeyRegister(r, p, k)
        PROVE  Types'
    <2>1. made' = made /\ p.id \in 1 .. made /\ p.user \in Users
      BY <1>2 DEF ConfirmPasskeyRegister, Types, ChallengeTo
    <2>2. answered' \subseteq (1 .. made) \X Nat /\ IsFiniteSet(answered')
      BY <1>2, <2>1, AnswerTyped DEF ConfirmPasskeyRegister, Types
    <2> QED
      BY <1>2, <2>1, <2>2 DEF ConfirmPasskeyRegister, Taken, Types
  <1>3. ASSUME NEW p \in pending, NEW k \in Passkeys, PasskeyFinish(r, p, k) PROVE Types'
    <2>1. made' = made /\ p.id \in 1 .. made
      BY <1>3 DEF PasskeyFinish, Types, ChallengeTo
    <2>2. ASSUME passkeys[k] # None, NEW at \in {"load", "remove"}
          PROVE  [at |-> at, user |-> passkeys[k], passkey |-> k, challenge |-> p.id]
                    \in CallTo(made)
      BY <1>0, <2>1, <2>2 DEF PasskeyCall, Types
    <2>3. req' \in [Requests -> CallTo(made')]
      BY <1>0, <1>3, <2>1, <2>2, GotoTyped DEF PasskeyFinish, End
    <2> QED
      BY <1>3, <2>1, <2>3 DEF PasskeyFinish, Taken, Types, tables, history
  <1>4. CASE RemovePasskey(r) \/ RestorePasskey(r)
    <2>1. req[r] \in PasskeyCall(made) /\ made' = made
      BY <1>4, CallTyped DEF RemovePasskey, RestorePasskey
    <2>2. \A at \in {"load", "restore"} : [req[r] EXCEPT !.at = at] \in PasskeyCall(made)
      BY <2>1 DEF PasskeyCall
    <2>3. req' \in [Requests -> CallTo(made')]
      BY <1>0, <1>4, <2>1, <2>2, GotoTyped DEF RemovePasskey, RestorePasskey
    <2>4. passkeys' \in [Passkeys -> Users \cup {None}]
      BY <1>4, <2>1 DEF RemovePasskey, RestorePasskey, Restored, PasskeyCall, Types
    <2> QED
      BY <1>4, <2>1, <2>3, <2>4 DEF RemovePasskey, RestorePasskey, Types, history
  <1>5. CASE LoadUser(r)
    <2>1. req[r].challenge \in 1 .. made /\ made' = made
      BY <1>5, CallTyped DEF LoadUser, PasskeyCall
    <2>2. answered' \subseteq (1 .. made) \X Nat /\ IsFiniteSet(answered')
      BY <1>5, <2>1, AnswerTyped DEF LoadUser, Types
    <2>3. req' \in [Requests -> CallTo(made')]
      BY <1>0, <1>5, <2>1, GotoTyped DEF LoadUser, End
    <2> QED
      BY <1>5, <2>1, <2>2, <2>3 DEF LoadUser, Types, tables
  <1> QED
    BY <1>1, <1>2, <1>3, <1>4, <1>5 DEF Passkey

\* ... of external identities ...
LEMMA OAuthTypes ==
  ASSUME Types, NEW r \in Requests, OAuth(r)
  PROVE  Types'
  <1>0. /\ made \in Nat /\ Idle \in CallTo(made)
        /\ \A n \in Nat : OAuthCall \subseteq CallTo(n) /\ LinkCall \subseteq CallTo(n)
    BY DEF Types, CallTo
  <1>1. ASSUME NEW s \in Subjects, AuthWithOAuth2(r, s) PROVE Types'
    <2>1. Address[s] \in Emails /\ NoEmail \in Emails /\ made' = made
      BY <1>1, SignInAssumption DEF AuthWithOAuth2
    <2>2. \A email \in {Address[s], NoEmail}, verified \in BOOLEAN :
             [at |-> "find", subject |-> s, email |-> email, verified |-> verified]
                \in CallTo(made)
      BY <1>0, <2>1 DEF OAuthCall
    <2>3. req' \in [Requests -> CallTo(made')]
      BY <1>1, <2>1, <2>2, GotoTyped DEF AuthWithOAuth2
    <2> QED
      BY <1>1, <2>1, <2>3 DEF AuthWithOAuth2, Types, tables, history
  <1>2. CASE FindLink(r)
    <2>1. req[r] \in OAuthCall /\ made' = made
      BY <1>2, CallTyped DEF FindLink
    <2>2. [req[r] EXCEPT !.at = "match"] \in OAuthCall
      BY <2>1 DEF OAuthCall
    <2>3. req' \in [Requests -> CallTo(made')]
      BY <1>0, <1>2, <2>1, <2>2, GotoTyped DEF FindLink, End
    <2> QED
      BY <1>2, <2>1, <2>3 DEF FindLink, Types, tables, history
  <1>3. CASE FindByEmail(r)
    <2>1. req[r] \in OAuthCall /\ made' = made
      BY <1>3, CallTyped DEF FindByEmail
    <2>2. [req[r] EXCEPT !.at = "create"] \in OAuthCall
      BY <2>1 DEF OAuthCall
    <2>3. \A u \in Users : [at |-> "link", subject |-> req[r].subject, user |-> u,
                            mark |-> req[r].verified] \in LinkCall
      BY <2>1 DEF OAuthCall, LinkCall
    <2>4. \A e : WithEmail(e) \subseteq Users
      BY DEF WithEmail
    <2>5. req' \in [Requests -> CallTo(made')]
      BY <1>0, <1>3, <2>1, <2>2, <2>3, <2>4, GotoTyped DEF FindByEmail
    <2> QED
      BY <1>3, <2>1, <2>5 DEF FindByEmail, Types, tables, history
  <1>4. CASE CreateUser(r)
    <2>1. req[r] \in OAuthCall
      BY <1>4, CallTyped DEF CreateUser
    <2>2. CASE /\ End(r)
               /\ UNCHANGED <<rows, made, ids, created, passkeys, links, pending, partial,
                              registered, used, answered>>
      <3>1. req' \in [Requests -> CallTo(made')]
        BY <1>0, <2>2, GotoTyped DEF End
      <3> QED
        BY <2>2, <3>1 DEF Types
    <2>3. ASSUME NEW u \in Users \ ids,
                 rows' = [rows EXCEPT ![u] =
                    [email |-> req[r].email, verified |-> req[r].verified, key |-> made + 1,
                     secret |-> 0, codes |-> {}]],
                 made' = made + 1,
                 ids' = ids \cup {u},
                 created' = IF req[r].email = NoEmail THEN created
                            ELSE [created EXCEPT ![req[r].subject] = @ \cup {u}],
                 Goto(r, [at |-> "link", subject |-> req[r].subject, user |-> u,
                          mark |-> FALSE]),
                 UNCHANGED <<passkeys, links, pending, partial, registered, used, answered>>
          PROVE  Types'
      <3>1. [at |-> "link", subject |-> req[r].subject, user |-> u, mark |-> FALSE]
               \in LinkCall
        BY <2>1 DEF OAuthCall, LinkCall
      <3>2. req' \in [Requests -> CallTo(made')]
        BY <1>0, <2>3, <3>1, GotoTyped
      <3>3. [email |-> req[r].email, verified |-> req[r].verified, key |-> made + 1,
             secret |-> 0, codes |-> {}] \in RowTo(made')
        BY <1>0, <2>1, <2>3 DEF OAuthCall, RowTo
      <3>4. rows' \in [Users -> RowTo(made') \cup {None}]
        BY <2>3, <3>3, Widened
      <3>5. created' \in [Subjects -> SUBSET Users] /\ ids' \subseteq Users
        BY <2>1, <2>3 DEF Types, OAuthCall
      <3> QED
        BY <2>3, <3>2, <3>4, <3>5, Widened DEF Types
    <2> QED
      BY <1>4, <2>2, <2>3 DEF CreateUser
  <1>5. CASE LinkUser(r)
    <2>1. req[r].subject \in Subjects /\ req[r].user \in Users /\ made' = made
      BY <1>5, CallTyped DEF LinkUser, LinkCall
    <2>2. links' \in [Subjects -> Users \cup {None}]
      BY <1>5, <2>1 DEF LinkUser, Types
    <2>3. [verified |-> TRUE] \in PatchTo(made)
      BY DEF PatchTo, MarkPatch
    <2>4. [at |-> "read", user |-> req[r].user, seen |-> None, patch |-> [verified |-> TRUE],
           then |-> Idle, after |-> Idle] \in CallTo(made)
      BY <1>0, <2>1, <2>3, UpdateTyped
    <2>5. req' \in [Requests -> CallTo(made')]
      BY <1>0, <1>5, <2>1, <2>4, GotoTyped DEF LinkUser, Update, End
    <2> QED
      BY <1>5, <2>1, <2>2, <2>5 DEF LinkUser, Types, history
  <1> QED
    BY <1>1, <1>2, <1>3, <1>4, <1>5 DEF OAuth

\* ... and the steps of no call of its own.
LEMMA OtherTypes ==
  ASSUME Types,
         \/ \E p \in pending : Expire(p)
         \/ \E u \in Users :
               DeleteUser(u) \/ RequestMfaSetup(u) \/ AuthWithPassword(u)
               \/ RequestPasskeyRegister(u)
         \/ PasskeyBegin
         \/ \E s \in Subjects : UnlinkExternalAuth(s)
         \/ Crash
  PROVE  Types'
  <1>1. ASSUME NEW p \in pending, Expire(p) PROVE Types'
    <2>1. p \in ChallengeTo(made)
      BY DEF Types
    <2>2. [p EXCEPT !.expired = TRUE] \in ChallengeTo(made)
      BY <2>1 DEF ChallengeTo, Challenge
    <2> QED
      BY <1>1, <2>2 DEF Expire, Taken, Types, tables, history
  <1>2. ASSUME NEW u \in Users, DeleteUser(u) PROVE Types'
    BY <1>2 DEF DeleteUser, Types, history
  <1>3. ASSUME NEW u \in Users, RequestMfaSetup(u) \/ RequestPasskeyRegister(u) PROVE Types'
    BY <1>3, ChallengedTyped DEF RequestMfaSetup, RequestPasskeyRegister
  <1>4. ASSUME NEW u \in Users, AuthWithPassword(u) PROVE Types'
    <2>1. rows[u].key \in 0 .. made
      BY <1>4, RowFacts DEF AuthWithPassword, RowTo
    <2> QED
      BY <1>4, <2>1 DEF AuthWithPassword, Types, tables, history
  <1>5. CASE PasskeyBegin
    BY <1>5, ChallengedTyped DEF PasskeyBegin, Stored
  <1>6. ASSUME NEW s \in Subjects, UnlinkExternalAuth(s) PROVE Types'
    BY <1>6 DEF UnlinkExternalAuth, Types, history
  <1>7. CASE Crash
    BY <1>7 DEF Crash, Types, CallTo, tables
  <1> QED
    BY <1>1, <1>2, <1>3, <1>4, <1>5, <1>6, <1>7

LEMMA TypesStep ==
  ASSUME Types, RowsKnown, Next
  PROVE  Types'
  <1>1. ASSUME NEW r \in Requests, Email(r) PROVE Types'
    BY <1>1, EmailCalls, Widened DEF Types
  <1> QED
    BY <1>1, UpdateTypes, StartTypes, PasskeyTypes, OAuthTypes, OtherTypes DEF Next, Mfa, Passkey

----------------------------------------------------------------------------
(* The passkeys                                                            *)

\* In a step that leaves the passkeys and their renewals alone, nothing is
\* lost; the others are a registration, the two steps of a renewal, and a crash.
LEMMA PasskeysStep ==
  ASSUME Types, PasskeysKept, Next
  PROVE  PasskeysKept'
  <1>1. ASSUME UNCHANGED <<passkeys, registered, dropped>>,
               \A q \in Requests : req[q].at = "restore" => req'[q] = req[q]
        PROVE  PasskeysKept'
    BY <1>1 DEF PasskeysKept
  <1>2. ASSUME NEW r \in Requests, Mfa(r) PROVE PasskeysKept'
    <2>1. UNCHANGED <<passkeys, registered, dropped>>
      BY <1>2 DEF Mfa, ChangePassword, DisableMfa, ConfirmMfaSetup, AuthWithMfa, ReadRow,
                  WriteRow, Spent, tables, history
    <2>2. req[r].at # "restore"
      <3>1. \/ req[r] = Idle
            \/ ReadRow(r) \/ WriteRow(r) \/ Spent(r)
        BY <1>2 DEF Mfa, ChangePassword, DisableMfa, ConfirmMfaSetup, AuthWithMfa
      <3> QED
        BY <3>1 DEF ReadRow, WriteRow, Spent, Idle
    <2> QED
      BY <1>1, <1>2, <2>1, <2>2, OwnCall
  <1>3. ASSUME NEW r \in Requests, OAuth(r) PROVE PasskeysKept'
    <2>1. UNCHANGED <<passkeys, registered, dropped>>
      BY <1>3 DEF OAuth, AuthWithOAuth2, FindLink, FindByEmail, CreateUser, LinkUser,
                  tables, history
    <2>2. req[r].at # "restore"
      BY <1>3 DEF OAuth, AuthWithOAuth2, FindLink, FindByEmail, CreateUser, LinkUser, Idle
    <2> QED
      BY <1>1, <1>3, <2>1, <2>2, OwnCall
  <1>4. ASSUME NEW r \in Requests, NEW p \in pending, NEW k \in Passkeys,
               PasskeyFinish(r, p, k)
        PROVE  PasskeysKept'
    BY <1>1, <1>4 DEF PasskeyFinish, End, Goto, Idle, Types, tables, history
  <1>5. ASSUME NEW r \in Requests, LoadUser(r) PROVE PasskeysKept'
    BY <1>1, <1>5 DEF LoadUser, End, Goto, Types, tables
  <1>6. ASSUME NEW r \in Requests, NEW p \in pending, NEW k \in Passkeys,
               ConfirmPasskeyRegister(r, p, k)
        PROVE  PasskeysKept'
    <2>1. p.user # None
      <3>1. p.user \in Users
        BY <1>6 DEF ConfirmPasskeyRegister, Types, ChallengeTo
      <3> QED
        BY <3>1, RowFacts
    <2> QED
      BY <1>6, <2>1 DEF ConfirmPasskeyRegister, PasskeysKept, Types
  <1>7. ASSUME NEW r \in Requests, RemovePasskey(r) PROVE PasskeysKept'
    <2>1. req[r] \in PasskeyCall(made)
      BY <1>7, CallTyped DEF RemovePasskey
    <2>2. req'[r].at = "restore" /\ req'[r].passkey = req[r].passkey
      BY <1>7, <2>1 DEF RemovePasskey, Goto, Types, PasskeyCall
    <2>3. \A q \in Requests \ {r} : req'[q] = req[q]
      BY <1>7 DEF RemovePasskey, Goto, Types
    <2>4. UNCHANGED <<registered, dropped>>
      BY <1>7 DEF RemovePasskey, history
    <2>5. \A k \in Passkeys \ {req[r].passkey} : passkeys'[k] = passkeys[k]
      BY <1>7 DEF RemovePasskey, Types
    <2>6. req[r].at # "restore"
      BY <1>7 DEF RemovePasskey
    <2> QED
      BY <2>2, <2>3, <2>4, <2>5, <2>6 DEF PasskeysKept, Types
  <1>8. ASSUME NEW r \in Requests, RestorePasskey(r) PROVE PasskeysKept'
    <2>1. req[r].user \in Users /\ req[r].passkey \in Passkeys /\ None \notin Users
      BY <1>8, CallTyped, RowFacts DEF RestorePasskey, PasskeyCall
    <2>2. \A q \in Requests \ {r} : req'[q] = req[q]
      BY <1>8 DEF RestorePasskey, Goto, Types
    <2>3. registered' = registered /\ dropped \subseteq dropped'
      BY <1>8 DEF RestorePasskey
    <2>4. \A k \in Passkeys \ {req[r].passkey} : passkeys'[k] = passkeys[k]
      BY <1>8 DEF RestorePasskey, Restored, Types
    <2>5. passkeys'[req[r].passkey] # None \/ req[r].passkey \in dropped'
      BY <1>8, <2>1 DEF RestorePasskey, Restored, Types
    <2> QED
      BY <2>2, <2>3, <2>4, <2>5 DEF PasskeysKept, Types
  <1>9. CASE Crash
    BY <1>9 DEF Crash, PasskeysKept, tables
  <1>10. ASSUME \/ \E p \in pending : Expire(p)
                \/ \E u \in Users :
                      DeleteUser(u) \/ RequestMfaSetup(u) \/ AuthWithPassword(u)
                      \/ RequestPasskeyRegister(u)
                \/ PasskeyBegin
                \/ \E s \in Subjects : UnlinkExternalAuth(s)
         PROVE  PasskeysKept'
    <2>1. UNCHANGED <<passkeys, registered, dropped, req>>
      BY <1>10 DEF Expire, DeleteUser, RequestMfaSetup, AuthWithPassword,
                   RequestPasskeyRegister, PasskeyBegin, UnlinkExternalAuth, Challenged, tables,
                   history
    <2> QED
      BY <1>1, <2>1
  <1>11. ASSUME NEW r \in Requests, Email(r) PROVE PasskeysKept'
    BY <1>1, <1>11, EmailCalls, OwnCall
  <1> QED
    BY <1>2, <1>3, <1>4, <1>5, <1>6, <1>7, <1>8, <1>9, <1>10, <1>11 DEF Next, Passkey

----------------------------------------------------------------------------
(* The challenges                                                          *)

\* A step that answers none and starts no sign-in.
LEMMA ChallengesFrame ==
  ASSUME ChallengesApart, ChallengesOnce, pending' \subseteq pending, answered' = answered,
         \A q \in Requests : Signing(q)' => /\ Signing(q)
                                            /\ req'[q].challenge = req[q].challenge
  PROVE  ChallengesApart' /\ ChallengesOnce'
  BY DEF ChallengesApart, ChallengesOnce

\* A step that answers a challenge that was pending or held by r.
LEMMA ChallengeAnswered ==
  ASSUME Types, ChallengesApart, ChallengesOnce, NEW id \in 1 .. made,
         answered' = Count(answered, id), pending' \subseteq pending,
         \A n \in answered : n[1] # id, \A p \in pending' : p.id # id,
         \A q \in Requests : Signing(q)' => /\ Signing(q)
                                            /\ req'[q].challenge = req[q].challenge
                                            /\ req[q].challenge # id
  PROVE  ChallengesApart' /\ ChallengesOnce'
  <1>1. answered' = answered \cup {<<id, 1>>}
    <2>1. answered \in SUBSET ((1 .. made) \X Nat) /\ IsFiniteSet(answered)
      BY DEF Types
    <2> QED
      BY <2>1, CountTyped
  <1>2. ChallengesOnce'
    BY <1>1 DEF ChallengesOnce
  <1>3. ChallengesApart'
    <2>1. \A n \in answered' : n[1] = id \/ n \in answered
      BY <1>1
    <2> QED
      BY <2>1 DEF ChallengesApart
  <1> QED
    BY <1>2, <1>3

\* A new challenge has a number that none had.
LEMMA ChallengeMade ==
  ASSUME Types, ChallengesApart, ChallengesOnce, NEW kind, NEW u, NEW ks,
         Challenged(None, kind, u, ks)
  PROVE  ChallengesApart' /\ ChallengesOnce'
  <1>1. /\ made \in Nat /\ \A p \in pending : p.id \in 1 .. made
        /\ \A n \in answered : n[1] \in 1 .. made
    BY DEF Types, ChallengeTo
  <1>2. \A q \in Requests : Signing(q) => req[q].challenge \in 1 .. made
    BY CallTyped DEF Signing, PasskeyCall
  <1>3. \A p \in pending' : p.id = made + 1 \/ p \in pending
    BY DEF Challenged
  <1>4. \A p, q \in pending' : p.id = made + 1 /\ q.id = made + 1 => p = q
    <2> DEFINE new == [kind |-> kind, id |-> made + 1, user |-> u, passkeys |-> ks,
                       expired |-> FALSE]
    <2>1. pending' = pending \cup {new}
      BY DEF Challenged
    <2>2. \A p \in pending : p.id # made + 1
      BY <1>1
    <2> HIDE DEF new
    <2> QED
      BY <2>1, <2>2
  <1>5. UNCHANGED <<answered, req>>
    BY DEF Challenged, history
  <1>6. \A p, q \in pending' : p.id = q.id => p = q
    BY <1>1, <1>3, <1>4 DEF ChallengesApart
  <1>7. \A p \in pending', n \in answered' : n[1] # p.id
    BY <1>1, <1>3, <1>5 DEF ChallengesApart
  <1>8. \A r \in Requests : Signing(r) => \A p \in pending' : p.id # req[r].challenge
    BY <1>1, <1>2, <1>3 DEF ChallengesApart
  <1> QED
    BY <1>5, <1>6, <1>7, <1>8 DEF ChallengesApart, ChallengesOnce, Signing

\* The second factor and external identities start no sign-in with a passkey.
LEMMA QuietCalls ==
  ASSUME Types, NEW r \in Requests,
         \/ \E u \in Users : ChangePassword(r, u) \/ DisableMfa(r, u)
         \/ \E token \in partial : \E code \in (1 .. made) \X Codes : AuthWithMfa(r, token, code)
         \/ ReadRow(r) \/ WriteRow(r) \/ Spent(r) \/ Email(r) \/ OAuth(r)
  PROVE  ~ Signing(r)'
  <1>1. ASSUME NEW call, Goto(r, call), call.at \notin {"load", "remove", "restore"}
        PROVE  ~ Signing(r)'
    BY <1>1 DEF Goto, Types, Signing
  <1>2. Idle.at = "idle"
    BY DEF Idle
  <1>3. ASSUME NEW u, NEW seen, NEW patch, NEW then, Update(r, u, seen, patch, then, Idle)
        PROVE  ~ Signing(r)'
    BY <1>1, <1>3 DEF Update
  <1>4. CASE \/ \E u \in Users : ChangePassword(r, u) \/ DisableMfa(r, u)
             \/ \E token \in partial : \E code \in (1 .. made) \X Codes :
                   AuthWithMfa(r, token, code)
    BY <1>3, <1>4 DEF ChangePassword, DisableMfa, AuthWithMfa
  <1>5. CASE ReadRow(r) \/ WriteRow(r)
    <2>1. /\ req[r] \in UpdateCall(made) /\ req[r].after = Idle
          /\ req[r].then.at \in {"idle", "spent", "rekey"}
      BY <1>5, CallTyped, UpdateFields DEF ReadRow, WriteRow, Updating
    <2>2. [req[r] EXCEPT !.at = "write", !.seen = rows[req[r].user]].at = "write"
      BY <2>1 DEF UpdateCall
    <2> QED
      BY <1>1, <1>2, <1>5, <2>1, <2>2 DEF ReadRow, WriteRow
  <1>6. CASE Spent(r)
    BY <1>1, <1>2, <1>6 DEF Spent, End
  <1>7. CASE (\E s \in Subjects : AuthWithOAuth2(r, s)) \/ CreateUser(r) \/ LinkUser(r)
    BY <1>1, <1>2, <1>3, <1>7 DEF AuthWithOAuth2, CreateUser, LinkUser, End
  <1>8. CASE FindLink(r) \/ FindByEmail(r)
    <2>1. req[r] \in OAuthCall
      BY <1>8, CallTyped DEF FindLink, FindByEmail
    <2>2. /\ [req[r] EXCEPT !.at = "match"].at = "match"
          /\ [req[r] EXCEPT !.at = "create"].at = "create"
      BY <2>1 DEF OAuthCall
    <2> QED
      BY <1>1, <1>2, <1>8, <2>2 DEF FindLink, FindByEmail, End
  <1>9. CASE Email(r)
    BY <1>9, EmailCalls DEF Signing
  <1> QED
    BY <1>4, <1>5, <1>6, <1>7, <1>8, <1>9 DEF OAuth

LEMMA ChallengesStep ==
  ASSUME Types, ChallengesApart, ChallengesOnce, Next
  PROVE  ChallengesApart' /\ ChallengesOnce'
  <1>0. /\ \A p \in pending : p.id \in 1 .. made
        /\ \A p \in pending : pending \ {p} \subseteq pending
    BY DEF Types, ChallengeTo
  <1>1. ASSUME NEW r \in Requests, NEW p \in pending, ConfirmMfaSetup(r, p)
        PROVE  ChallengesApart' /\ ChallengesOnce'
    <2>1. pending' = pending \ {p} /\ req[r] = Idle
      BY <1>1 DEF ConfirmMfaSetup, Taken
    <2>2. \A q \in Requests : Signing(q)' => Signing(q) /\ req'[q] = req[q]
      BY <1>1 DEF ConfirmMfaSetup, Update, End, Goto, Idle, Signing, Types
    <2>3. CASE answered' = answered
      BY <1>0, <2>1, <2>2, <2>3, ChallengesFrame
    <2>4. CASE answered' = Count(answered, p.id)
      <3>1. \A n \in answered : n[1] # p.id
        BY DEF ChallengesApart
      <3>2. \A o \in pending' : o.id # p.id
        BY <2>1 DEF ChallengesApart
      <3>3. \A q \in Requests : Signing(q) => req[q].challenge # p.id
        BY DEF ChallengesApart
      <3> QED
        BY <1>0, <2>1, <2>2, <2>4, <3>1, <3>2, <3>3, ChallengeAnswered
    <2> QED
      BY <1>1, <2>3, <2>4 DEF ConfirmMfaSetup
  <1>2. ASSUME NEW r \in Requests, NEW p \in pending, NEW k \in Passkeys,
               ConfirmPasskeyRegister(r, p, k)
        PROVE  ChallengesApart' /\ ChallengesOnce'
    <2>1. pending' = pending \ {p} /\ req' = req
      BY <1>2 DEF ConfirmPasskeyRegister, Taken
    <2>2. \A q \in Requests : Signing(q)' => Signing(q) /\ req'[q] = req[q]
      BY <2>1 DEF Signing
    <2>3. CASE answered' = answered
      BY <1>0, <2>1, <2>2, <2>3, ChallengesFrame
    <2>4. CASE answered' = Count(answered, p.id)
      <3>1. \A n \in answered : n[1] # p.id
        BY DEF ChallengesApart
      <3>2. \A o \in pending' : o.id # p.id
        BY <2>1 DEF ChallengesApart
      <3>3. \A q \in Requests : Signing(q) => req[q].challenge # p.id
        BY DEF ChallengesApart
      <3> QED
        BY <1>0, <2>1, <2>2, <2>4, <3>1, <3>2, <3>3, ChallengeAnswered
    <2> QED
      BY <1>2, <2>3, <2>4 DEF ConfirmPasskeyRegister
  <1>3. ASSUME NEW r \in Requests, NEW p \in pending, NEW k \in Passkeys,
               PasskeyFinish(r, p, k)
        PROVE  ChallengesApart' /\ ChallengesOnce'
    <2>1. pending' = pending \ {p} /\ answered' = answered /\ req[r] = Idle
      BY <1>3 DEF PasskeyFinish, Taken, history
    <2>2. \A q \in Requests \ {r} : req'[q] = req[q]
      BY <1>3, OwnCall DEF Passkey
    <2>3. CASE End(r)
      <3>1. \A q \in Requests : Signing(q)' => Signing(q) /\ req'[q] = req[q]
        BY <2>2, <2>3 DEF End, Goto, Idle, Signing, Types
      <3> QED
        BY <1>0, <2>1, <3>1, ChallengesFrame
    <2>4. ASSUME NEW at, Goto(r, [at |-> at, user |-> passkeys[k], passkey |-> k,
                                  challenge |-> p.id])
          PROVE  ChallengesApart' /\ ChallengesOnce'
      <3>1. req'[r].challenge = p.id
        BY <2>4 DEF Goto, Types
      <3>2. \A o \in pending' : o.id # p.id
        BY <2>1 DEF ChallengesApart
      <3>3. \A n \in answered : n[1] # p.id
        BY DEF ChallengesApart
      <3>4. \A q \in Requests : Signing(q) => req[q].challenge # p.id
        BY DEF ChallengesApart
      <3>5. \A q \in Requests \ {r} : Signing(q)' = Signing(q)
        BY <2>2 DEF Signing
      <3> QED
        BY <2>1, <2>2, <3>1, <3>2, <3>3, <3>4, <3>5 DEF ChallengesApart, ChallengesOnce
    <2> QED
      BY <1>3, <2>3, <2>4 DEF PasskeyFinish
  <1>4. ASSUME NEW r \in Requests, RemovePasskey(r) \/ RestorePasskey(r)
        PROVE  ChallengesApart' /\ ChallengesOnce'
    <2>1. req[r] \in PasskeyCall(made) /\ Signing(r)
      BY <1>4, CallTyped DEF RemovePasskey, RestorePasskey, Signing
    <2>2. req'[r].challenge = req[r].challenge
      BY <1>4, <2>1 DEF RemovePasskey, RestorePasskey, Goto, Types, PasskeyCall
    <2>3. \A q \in Requests \ {r} : req'[q] = req[q]
      BY <1>4, OwnCall DEF Passkey
    <2>4. UNCHANGED <<pending, answered>>
      BY <1>4 DEF RemovePasskey, RestorePasskey, history
    <2> QED
      BY <2>1, <2>2, <2>3, <2>4, ChallengesFrame DEF Signing
  <1>5. ASSUME NEW r \in Requests, LoadUser(r) PROVE ChallengesApart' /\ ChallengesOnce'
    <2>1. Signing(r) /\ req[r].challenge \in 1 .. made /\ pending' = pending
      BY <1>5, CallTyped DEF LoadUser, PasskeyCall, Signing
    <2>2. \A q \in Requests : Signing(q)' => q # r /\ Signing(q) /\ req'[q] = req[q]
      BY <1>5 DEF LoadUser, End, Goto, Idle, Signing, Types
    <2>3. CASE answered' = answered
      BY <2>1, <2>2, <2>3, ChallengesFrame
    <2>4. CASE answered' = Count(answered, req[r].challenge)
      <3>1. \A n \in answered : n[1] # req[r].challenge
        BY <2>1 DEF ChallengesApart
      <3>2. \A o \in pending' : o.id # req[r].challenge
        BY <2>1 DEF ChallengesApart
      <3>3. \A q \in Requests : Signing(q)' => req[q].challenge # req[r].challenge
        BY <2>1, <2>2 DEF ChallengesApart
      <3> QED
        BY <2>1, <2>2, <2>4, <3>1, <3>2, <3>3, ChallengeAnswered
    <2> QED
      BY <1>5, <2>3, <2>4 DEF LoadUser
  <1>6. ASSUME NEW p \in pending, Expire(p) PROVE ChallengesApart' /\ ChallengesOnce'
    <2> DEFINE old == [p EXCEPT !.expired = TRUE]
    <2>1. old.id = p.id
      BY DEF Types, ChallengeTo, Challenge
    <2>2. pending' = (pending \ {p}) \cup {old} /\ UNCHANGED <<answered, req>>
      BY <1>6 DEF Expire, Taken, history
    <2> HIDE DEF old
    <2>3. \A q \in pending' : \E o \in pending : q.id = o.id /\ (IF o = p THEN q = old ELSE q = o)
      BY <2>1, <2>2
    <2> QED
      BY <2>2, <2>3 DEF ChallengesApart, ChallengesOnce, Signing
  <1>7. ASSUME NEW u \in Users, RequestMfaSetup(u) \/ RequestPasskeyRegister(u)
        PROVE  ChallengesApart' /\ ChallengesOnce'
    BY <1>7, ChallengeMade DEF RequestMfaSetup, RequestPasskeyRegister
  <1>8. CASE PasskeyBegin
    BY <1>8, ChallengeMade DEF PasskeyBegin
  <1>9. CASE Crash
    BY <1>9 DEF Crash, ChallengesApart, ChallengesOnce, Signing, Idle, tables
  <1>10. ASSUME NEW r \in Requests,
                \/ \E u \in Users : ChangePassword(r, u) \/ DisableMfa(r, u)
                \/ \E token \in partial : \E code \in (1 .. made) \X Codes :
                      AuthWithMfa(r, token, code)
                \/ ReadRow(r) \/ WriteRow(r) \/ Spent(r) \/ Email(r) \/ OAuth(r)
         PROVE  ChallengesApart' /\ ChallengesOnce'
    <2>1. UNCHANGED <<pending, answered>>
      BY <1>10, EmailCalls DEF ChangePassword, DisableMfa, AuthWithMfa, ReadRow, WriteRow, Spent, OAuth,
                   AuthWithOAuth2, FindLink, FindByEmail, CreateUser, LinkUser, history
    <2>2. \A q \in Requests \ {r} : req'[q] = req[q]
      BY <1>10, OwnCall DEF Mfa
    <2>3. ~ Signing(r)'
      BY <1>10, QuietCalls
    <2> QED
      BY <2>1, <2>2, <2>3, ChallengesFrame DEF Signing
  <1>11. ASSUME \/ \E u \in Users : DeleteUser(u) \/ AuthWithPassword(u)
                \/ \E s \in Subjects : UnlinkExternalAuth(s)
         PROVE  ChallengesApart' /\ ChallengesOnce'
    <2>1. UNCHANGED <<pending, answered, req>>
      BY <1>11 DEF DeleteUser, AuthWithPassword, UnlinkExternalAuth, history
    <2> QED
      BY <2>1, ChallengesFrame DEF Signing
  <1> QED
    BY <1>1, <1>2, <1>3, <1>4, <1>5, <1>6, <1>7, <1>8, <1>9, <1>10, <1>11 DEF Next, Mfa, Passkey

----------------------------------------------------------------------------
(* The accounts of an identity                                             *)

AccountInv == RowsKnown /\ UniqueAddresses /\ CallsHaveAddress /\ AccountsHeld /\ OneHeld

\* A call that looks for the account of an identity.
Looking(r) == req[r].at \in {"find", "match", "create"}

\* The calls that hold a row, or an address, got it from where they had it, and
\* a search goes on only when there is no link.
CallsGoOn ==
    /\ \A q \in Requests : req'[q].at = "write" => req'[q] = req[q]
    /\ \A q \in Requests : Looking(q)' =>
          \/ /\ req'[q].at = "find"
             /\ req'[q].email \in {Address[req'[q].subject], NoEmail}
          \/ /\ Looking(q)
             /\ req'[q].subject = req[q].subject /\ req'[q].email = req[q].email
             /\ req[q].at = "find" /\ req'[q].at # "find" => links[req[q].subject] = None

\* No sign-in of a linked identity begins to search.
LEMMA SearchesFrame ==
  ASSUME CallsGoOn, NEW s \in Subjects, links[s] # None
  PROVE  Searching(s)' => Searching(s)
  <1> SUFFICES ASSUME NEW q \in Requests, req'[q].at \in {"match", "create"}, req'[q].subject = s
               PROVE  Searching(s)
    BY DEF Searching
  <1>1. Looking(q) /\ req[q].subject = s /\ req[q].at # "find"
    BY DEF CallsGoOn, Looking
  <1> QED
    BY <1>1 DEF Searching, Looking

\* A step that changes no account and takes no link away.
LEMMA AccountsFrame ==
  ASSUME Types, AccountInv, CallsGoOn, UNCHANGED <<rows, ids, created, parted>>,
         \A s \in Subjects : links[s] # None => links'[s] = links[s]
  PROVE  AccountInv'
  <1>1. RowsKnown'
    BY DEF AccountInv, RowsKnown, CallsGoOn
  <1>2. UniqueAddresses' /\ OneHeld'
    BY DEF AccountInv, UniqueAddresses, OneHeld
  <1>3. CallsHaveAddress'
    BY DEF AccountInv, CallsHaveAddress, CallsGoOn, Looking
  <1>4. AccountsHeld'
    <2>1. ASSUME NEW s \in Subjects, NEW u \in created[s] \ parted, rows[u] # None
          PROVE  rows[u].email = Address[s] \/ (links'[s] = u /\ ~ Searching(s)')
      <3>1. u \in Users /\ u # None
        BY RowFacts DEF Types
      <3> QED
        BY <2>1, <3>1, SearchesFrame DEF AccountInv, AccountsHeld
    <2> QED
      BY <2>1 DEF AccountInv, AccountsHeld
  <1> QED
    BY <1>1, <1>2, <1>3, <1>4 DEF AccountInv

\* Of the calls that look for no account only ReadRow has a row to write.
LEMMA OtherCalls ==
  ASSUME Types, NEW r \in Requests,
         \/ \E u \in Users : ChangePassword(r, u) \/ DisableMfa(r, u)
         \/ \E p \in pending : ConfirmMfaSetup(r, p)
         \/ \E token \in partial : \E code \in (1 .. made) \X Codes : AuthWithMfa(r, token, code)
         \/ WriteRow(r) \/ Spent(r) \/ LinkUser(r)
         \/ \E p \in pending, k \in Passkeys : PasskeyFinish(r, p, k)
         \/ RemovePasskey(r) \/ RestorePasskey(r) \/ LoadUser(r) \/ Email(r)
  PROVE  req'[r].at # "write" /\ ~ Looking(r)'
  <1> DEFINE Other == req'[r].at # "write" /\ ~ Looking(r)'
  <1>1. ASSUME NEW call, Goto(r, call), call.at \notin {"write", "find", "match", "create"}
        PROVE  Other
    BY <1>1 DEF Goto, Types, Looking
  <1>2. Idle.at = "idle"
    BY DEF Idle
  <1>3. ASSUME NEW u, NEW seen, NEW patch, NEW then, Update(r, u, seen, patch, then, Idle)
        PROVE  Other
    BY <1>1, <1>3 DEF Update
  <1>4. CASE \/ \E u \in Users : ChangePassword(r, u) \/ DisableMfa(r, u)
             \/ \E p \in pending : ConfirmMfaSetup(r, p)
             \/ \E token \in partial : \E code \in (1 .. made) \X Codes :
                   AuthWithMfa(r, token, code)
    BY <1>1, <1>2, <1>3, <1>4 DEF ChangePassword, DisableMfa, ConfirmMfaSetup, AuthWithMfa, End
  <1>5. CASE WriteRow(r)
    <2>1. /\ req[r].after = Idle
          /\ req[r].then.at \in {"idle", "spent", "rekey"}
      BY <1>5, UpdateFields DEF WriteRow, Updating
    <2> QED
      BY <1>1, <1>2, <1>5, <2>1 DEF WriteRow
  <1>6. CASE Spent(r) \/ LoadUser(r)
    BY <1>1, <1>2, <1>6 DEF Spent, LoadUser, End
  <1>7. CASE LinkUser(r)
    BY <1>1, <1>2, <1>3, <1>7 DEF LinkUser, End
  <1>8. ASSUME NEW p \in pending, NEW k \in Passkeys, PasskeyFinish(r, p, k) PROVE Other
    BY <1>1, <1>2, <1>8 DEF PasskeyFinish, End
  <1>9. CASE RemovePasskey(r) \/ RestorePasskey(r)
    <2>1. req[r] \in PasskeyCall(made)
      BY <1>9, CallTyped DEF RemovePasskey, RestorePasskey
    <2>2. /\ [req[r] EXCEPT !.at = "restore"].at = "restore"
          /\ [req[r] EXCEPT !.at = "load"].at = "load"
      BY <2>1 DEF PasskeyCall
    <2> QED
      BY <1>1, <1>9, <2>2 DEF RemovePasskey, RestorePasskey
  <1>10. CASE Email(r)
    BY <1>10, EmailCalls DEF Looking
  <1> QED
    BY <1>4, <1>5, <1>6, <1>7, <1>8, <1>9, <1>10

\* An update that writes a row gives it an address no other one has, and lets go
\* of an account only when it gives it another one.
LEMMA WriteAccounts ==
  ASSUME Types, AccountInv, NEW r \in Requests, WriteRow(r)
  PROVE  AccountInv'
  <1> PICK u : u = req[r].user
    OBVIOUS
  <1> PICK row : row = Overlay(req[r].patch, req[r].seen)
    OBVIOUS
  <1>0. u \in Users /\ req[r].after = Idle /\ UNCHANGED <<ids, created, links>> /\ ~ Looking(r)
    BY UpdateFields DEF WriteRow, Updating, Looking
  <1>1. \A q \in Requests \ {r} : req'[q] = req[q]
    BY OwnCall DEF Mfa
  <1>2. CallsGoOn
    <2>1. req'[r].at # "write" /\ ~ Looking(r)'
      BY OtherCalls
    <2>2. \A q \in Requests : Looking(q)' => q # r /\ req'[q] = req[q] /\ Looking(q)
      BY <1>1, <2>1 DEF Looking
    <2> QED
      BY <1>1, <2>1, <2>2 DEF CallsGoOn
  <1>3. CASE UNCHANGED <<rows, parted>>
    BY <1>0, <1>2, <1>3, AccountsFrame
  <1>4. CASE /\ rows[u] # None
             /\ ~ Conflict(u, row.email)
             /\ rows' = [rows EXCEPT ![u] = row]
             /\ parted' = IF rows[u].email # row.email /\ Loose(u)
                          THEN parted \cup {u} ELSE parted
    <2>1. rows'[u] = row /\ \A v \in Users \ {u} : rows'[v] = rows[v]
      BY <1>0, <1>4 DEF Types
    <2>2. \A v \in Users : rows'[v] # None => rows[v] # None
      BY <1>4, <2>1
    <2>3. RowsKnown'
      BY <1>0, <1>2, <2>2 DEF AccountInv, RowsKnown, CallsGoOn
    <2>4. UniqueAddresses'
      <3>1. \A v \in Users \ {u} : rows[v] # None => rows[v].email # row.email
        BY <1>4 DEF Conflict, WithEmail
      <3> QED
        BY <2>1, <2>2, <3>1 DEF AccountInv, UniqueAddresses
    <2>5. CallsHaveAddress'
      BY <1>2 DEF AccountInv, CallsHaveAddress, CallsGoOn, Looking
    <2>6. parted \subseteq parted' /\ \A s \in Subjects : created[s] \subseteq Users
      BY <1>4 DEF Types
    <2>7. AccountsHeld'
      <3>1. ASSUME NEW s \in Subjects, NEW v \in created[s] \ parted', rows'[v] # None
            PROVE  rows'[v].email = Address[s] \/ (links[s] = v /\ ~ Searching(s)')
        <4>1. v \in Users /\ v # None /\ rows[v] # None
          BY <2>2, <2>6, <3>1, RowFacts
        <4>2. rows[v].email = Address[s] \/ (links[s] = v /\ ~ Searching(s))
          BY <2>6, <3>1, <4>1 DEF AccountInv, AccountsHeld
        <4>3. rows'[v].email = rows[v].email \/ (links[s] = v /\ ~ Searching(s))
          <5>1. CASE v = u /\ rows[u].email # row.email
            BY <1>4, <3>1, <5>1 DEF Loose, Searching
          <5>2. CASE v # u \/ rows[u].email = row.email
            BY <2>1, <4>1, <5>2
          <5> QED
            BY <5>1, <5>2
        <4> QED
          BY <1>2, <4>1, <4>2, <4>3, SearchesFrame
      <3> QED
        BY <1>0, <3>1 DEF AccountInv, AccountsHeld
    <2>8. OneHeld'
      BY <1>0, <2>2, <2>6 DEF AccountInv, OneHeld
    <2> QED
      BY <2>3, <2>4, <2>5, <2>7, <2>8 DEF AccountInv
  <1> QED
    BY <1>3, <1>4 DEF WriteRow

\* The row to write is read.
LEMMA ReadAccounts ==
  ASSUME Types, AccountInv, NEW r \in Requests, ReadRow(r)
  PROVE  AccountInv'
  <1> PICK u : u = req[r].user
    OBVIOUS
  <1>0. /\ u \in Users /\ req[r].after = Idle /\ req[r] \in UpdateCall(made)
        /\ UNCHANGED <<rows, ids, created, parted, links>> /\ ~ Looking(r)
    BY CallTyped, UpdateFields DEF ReadRow, Updating, Looking, tables
  <1>1. \A q \in Requests \ {r} : req'[q] = req[q]
    BY OwnCall DEF Mfa
  <1>2. CASE rows[u] # None /\ Goto(r, [req[r] EXCEPT !.at = "write", !.seen = rows[u]])
    <2>1. /\ req'[r].at = "write" /\ req'[r].user = u /\ req'[r].seen = rows[u]
      BY <1>0, <1>2 DEF Goto, Types, UpdateCall
    <2>2. RowsKnown'
      BY <1>0, <1>1, <1>2, <2>1 DEF AccountInv, RowsKnown
    <2>3. \A q \in Requests : Looking(q)' => q # r /\ req'[q] = req[q]
      BY <1>1, <2>1 DEF Looking
    <2>4. UniqueAddresses' /\ CallsHaveAddress' /\ OneHeld'
      BY <1>0, <2>3 DEF AccountInv, UniqueAddresses, CallsHaveAddress, OneHeld, Looking
    <2>5. \A s \in Subjects : Searching(s)' => Searching(s)
      BY <2>3 DEF Searching, Looking
    <2>6. AccountsHeld'
      BY <1>0, <2>5 DEF AccountInv, AccountsHeld
    <2> QED
      BY <2>2, <2>4, <2>6 DEF AccountInv
  <1>3. CASE Goto(r, Idle)
    <2>1. req'[r].at = "idle"
      BY <1>3 DEF Goto, Types, Idle
    <2>2. CallsGoOn
      BY <1>1, <2>1 DEF CallsGoOn, Looking
    <2> QED
      BY <1>0, <2>2, AccountsFrame
  <1> QED
    BY <1>0, <1>2, <1>3 DEF ReadRow

\* The search for the account of an identity carries its address along, and goes
\* on without a link.
LEMMA SearchAccounts ==
  ASSUME Types, AccountInv, NEW r \in Requests,
         (\E s \in Subjects : AuthWithOAuth2(r, s)) \/ FindLink(r) \/ FindByEmail(r)
  PROVE  AccountInv'
  <1>1. \A q \in Requests \ {r} : req'[q] = req[q]
    BY OwnCall DEF OAuth
  <1>2. UNCHANGED <<rows, links, ids, created, parted>>
    BY DEF AuthWithOAuth2, FindLink, FindByEmail, tables, history
  <1>3. /\ req'[r].at # "write"
        /\ Looking(r)' =>
              \/ /\ req'[r].at = "find"
                 /\ req'[r].email \in {Address[req'[r].subject], NoEmail}
              \/ /\ Looking(r)
                 /\ req'[r].subject = req[r].subject /\ req'[r].email = req[r].email
                 /\ req[r].at = "find" /\ req'[r].at # "find" => links[req[r].subject] = None
    <2>1. ASSUME NEW s \in Subjects, AuthWithOAuth2(r, s)
          PROVE  req'[r].at = "find" /\ req'[r].email \in {Address[req'[r].subject], NoEmail}
      BY <2>1 DEF AuthWithOAuth2, Goto, Types
    <2>2. CASE FindLink(r) \/ FindByEmail(r)
      <3>1. req[r] \in OAuthCall /\ Looking(r)
        BY <2>2, CallTyped DEF FindLink, FindByEmail, Looking
      <3>2. /\ req'[r].at # "write"
            /\ Looking(r)' => req'[r].subject = req[r].subject /\ req'[r].email = req[r].email
        BY <2>2, <3>1 DEF FindLink, FindByEmail, End, Idle, Goto, Types, OAuthCall, Looking
      <3>3. Looking(r)' /\ req[r].at = "find" => links[req[r].subject] = None
        BY <2>2 DEF FindLink, FindByEmail, Linked, End, Idle, Goto, Types, Looking
      <3> QED
        BY <3>1, <3>2, <3>3
    <2> QED
      BY <2>1, <2>2
  <1>4. CallsGoOn
    BY <1>1, <1>3 DEF CallsGoOn, Looking
  <1> QED
    BY <1>2, <1>4, AccountsFrame

\* A new account has an id and an address that no other one has: were there
\* another one of the identity, this sign-in would have found its address or its
\* link.
LEMMA CreateAccounts ==
  ASSUME Types, AccountInv, NEW r \in Requests, CreateUser(r)
  PROVE  AccountInv'
  <1>0. /\ \A q \in Requests \ {r} : req'[q] = req[q]
        /\ req[r].subject \in Subjects /\ req[r].email \in {Address[req[r].subject], NoEmail}
        /\ Searching(req[r].subject) /\ UNCHANGED <<links, parted>>
    BY OwnCall, CallTyped
       DEF OAuth, CreateUser, OAuthCall, AccountInv, CallsHaveAddress, Searching
  <1>1. req'[r].at \notin {"write", "find", "match", "create"}
    BY DEF CreateUser, End, Goto, Idle, Types
  <1>2. CallsGoOn
    BY <1>0, <1>1 DEF CallsGoOn, Looking
  <1>3. CASE UNCHANGED <<rows, ids, created>>
    BY <1>0, <1>2, <1>3, AccountsFrame
  <1>4. ASSUME NEW u \in Users \ ids, NEW row,
               row.email = req[r].email,
               ~ Conflict(u, req[r].email),
               rows' = [rows EXCEPT ![u] = row],
               ids' = ids \cup {u},
               created' = IF req[r].email = NoEmail THEN created
                          ELSE [created EXCEPT ![req[r].subject] = @ \cup {u}]
        PROVE  AccountInv'
    <2>1. rows'[u].email = req[r].email /\ \A v \in Users \ {u} : rows'[v] = rows[v]
      BY <1>4 DEF Types
    <2>2. \A v \in Users \ {u} : rows[v] # None => rows[v].email # req[r].email
      BY <1>4 DEF Conflict, WithEmail
    <2>3. RowsKnown'
      BY <1>2, <1>4, <2>1 DEF AccountInv, RowsKnown, CallsGoOn
    <2>4. UniqueAddresses'
      BY <2>1, <2>2 DEF AccountInv, UniqueAddresses
    <2>5. CallsHaveAddress'
      BY <1>2 DEF AccountInv, CallsHaveAddress, CallsGoOn, Looking
    <2>6. ASSUME NEW s \in Subjects, NEW v \in created'[s]
          PROVE  \/ v \in created[s] /\ v \in ids /\ v \in Users /\ v # u
                 \/ v = u /\ s = req[r].subject /\ req[r].email = Address[s]
      <3>1. v \in created[s] \/ (v = u /\ s = req[r].subject /\ req[r].email # NoEmail)
        BY <1>0, <1>4, <2>6 DEF Types
      <3>2. v \in created[s] => v \in ids /\ v \in Users /\ v # u
        BY <1>4 DEF AccountInv, AccountsHeld, Types
      <3> QED
        BY <1>0, <3>1, <3>2
    <2>7. AccountsHeld'
      <3>1. ASSUME NEW s \in Subjects, NEW v \in created'[s] \ parted, rows'[v] # None
            PROVE  rows'[v].email = Address[s] \/ (links[s] = v /\ ~ Searching(s)')
        <4>1. CASE v = u /\ req[r].email = Address[s]
          BY <2>1, <4>1
        <4>2. CASE v \in created[s] /\ v \in Users /\ v # u
          <5>1. v # None /\ rows'[v] = rows[v]
            BY <2>1, <4>2, RowFacts
          <5> QED
            BY <1>2, <3>1, <4>2, <5>1, SearchesFrame DEF AccountInv, AccountsHeld
        <4> QED
          BY <2>6, <3>1, <4>1, <4>2
      <3>2. \A s \in Subjects : created'[s] \subseteq ids'
        BY <1>4, <2>6
      <3> QED
        BY <1>0, <3>1, <3>2 DEF AccountsHeld
    <2>8. OneHeld'
      <3>1. ASSUME NEW s \in Subjects, NEW v \in created[s] \ parted, v \in Users, v # u,
                   rows[v] # None, s = req[r].subject, req[r].email = Address[s]
            PROVE  FALSE
        <4>1. rows[v].email = Address[s]
          BY <1>0, <3>1 DEF AccountInv, AccountsHeld
        <4> QED
          BY <2>2, <3>1, <4>1
      <3>2. ASSUME NEW s \in Subjects, NEW v \in created'[s] \ parted,
                   NEW w \in created'[s] \ parted, rows'[v] # None, rows'[w] # None
            PROVE  v = w
        <4>1. v # u => v \in created[s] /\ v \in Users /\ rows[v] # None
          BY <2>1, <2>6, <3>2
        <4>2. w # u => w \in created[s] /\ w \in Users /\ rows[w] # None
          BY <2>1, <2>6, <3>2
        <4>3. CASE v # u /\ w # u
          BY <3>2, <4>1, <4>2, <4>3 DEF AccountInv, OneHeld
        <4>4. CASE v = u
          BY <2>6, <3>1, <3>2, <4>2, <4>4
        <4>5. CASE w = u
          BY <2>6, <3>1, <3>2, <4>1, <4>5
        <4> QED
          BY <4>3, <4>4, <4>5
      <3> QED
        BY <1>0, <3>2 DEF OneHeld
    <2> QED
      BY <2>3, <2>4, <2>5, <2>7, <2>8 DEF AccountInv
  <1>5. ASSUME NEW u \in Users \ ids,
               ~ Conflict(u, req[r].email),
               rows' = [rows EXCEPT ![u] =
                  [email |-> req[r].email, verified |-> req[r].verified, key |-> made + 1,
                   secret |-> 0, codes |-> {}]],
               ids' = ids \cup {u},
               created' = IF req[r].email = NoEmail THEN created
                          ELSE [created EXCEPT ![req[r].subject] = @ \cup {u}]
        PROVE  AccountInv'
    <2>1. PICK row : row = [email |-> req[r].email, verified |-> req[r].verified,
                            key |-> made + 1, secret |-> 0, codes |-> {}]
      OBVIOUS
    <2>2. row.email = req[r].email
      BY <2>1
    <2> QED
      BY <1>4, <1>5, <2>1, <2>2
  <1> QED
    BY <1>3, <1>5 DEF CreateUser

\* An account is unlinked: it has the address of the identity, or is let go of.
LEMMA UnlinkAccounts ==
  ASSUME Types, AccountInv, NEW s \in Subjects, UnlinkExternalAuth(s)
  PROVE  AccountInv'
  <1>1. /\ UNCHANGED <<rows, req, ids, created>> /\ parted \subseteq parted'
        /\ \A t \in Subjects \ {s} : links'[t] = links[t]
        /\ rows[links[s]].email = Address[s] \/ links[s] \in parted'
    BY DEF UnlinkExternalAuth, Types
  <1>2. RowsKnown' /\ UniqueAddresses' /\ CallsHaveAddress' /\ OneHeld'
    BY <1>1 DEF AccountInv, RowsKnown, UniqueAddresses, CallsHaveAddress, OneHeld
  <1>3. \A t \in Subjects : Searching(t)' = Searching(t)
    BY <1>1 DEF Searching
  <1>4. AccountsHeld'
    BY <1>1, <1>3 DEF AccountInv, AccountsHeld
  <1> QED
    BY <1>2, <1>4 DEF AccountInv

LEMMA AccountsStep ==
  ASSUME Types, AccountInv, Next
  PROVE  AccountInv'
  <1>1. ASSUME NEW r \in Requests,
               \/ \E u \in Users : ChangePassword(r, u) \/ DisableMfa(r, u)
               \/ \E p \in pending : ConfirmMfaSetup(r, p)
               \/ \E token \in partial : \E code \in (1 .. made) \X Codes :
                     AuthWithMfa(r, token, code)
               \/ Spent(r) \/ LinkUser(r)
               \/ \E p \in pending, k \in Passkeys : PasskeyFinish(r, p, k)
               \/ RemovePasskey(r) \/ RestorePasskey(r) \/ LoadUser(r) \/ Email(r)
        PROVE  AccountInv'
    <2>1. UNCHANGED <<rows, ids, created, parted>>
      BY <1>1, EmailCalls
         DEF ChangePassword, DisableMfa, ConfirmMfaSetup, AuthWithMfa, Spent, LinkUser,
             PasskeyFinish, RemovePasskey, RestorePasskey, LoadUser, tables, history
    <2>2. \A s \in Subjects : links[s] # None => links'[s] = links[s]
      <3>1. CASE LinkUser(r)
        BY <3>1, CallTyped DEF LinkUser, LinkCall, Linkable, Types
      <3>2. CASE ~ LinkUser(r)
        BY <1>1, <3>2, EmailCalls
           DEF ChangePassword, DisableMfa, ConfirmMfaSetup, AuthWithMfa, Spent,
               PasskeyFinish, RemovePasskey, RestorePasskey, LoadUser, tables
      <3> QED
        BY <3>1, <3>2
    <2>3. \A q \in Requests \ {r} : req'[q] = req[q]
      BY <1>1, OwnCall DEF Mfa, Passkey, OAuth
    <2>4. req'[r].at # "write" /\ ~ Looking(r)'
      BY <1>1, OtherCalls
    <2>5. CallsGoOn
      BY <2>3, <2>4 DEF CallsGoOn, Looking
    <2> QED
      BY <2>1, <2>2, <2>5, AccountsFrame
  <1>2. ASSUME \/ \E r \in Requests, p \in pending, k \in Passkeys :
                     ConfirmPasskeyRegister(r, p, k)
               \/ \E p \in pending : Expire(p)
               \/ \E u \in Users :
                     RequestMfaSetup(u) \/ AuthWithPassword(u) \/ RequestPasskeyRegister(u)
               \/ PasskeyBegin
        PROVE  AccountInv'
    <2>1. UNCHANGED <<rows, links, ids, created, parted, req>>
      BY <1>2 DEF ConfirmPasskeyRegister, Expire, RequestMfaSetup, AuthWithPassword,
                  RequestPasskeyRegister, PasskeyBegin, Challenged, tables, history
    <2>2. CallsGoOn
      BY <2>1 DEF CallsGoOn, Looking
    <2> QED
      BY <2>1, <2>2, AccountsFrame
  <1>3. ASSUME NEW u \in Users, DeleteUser(u) PROVE AccountInv'
    <2>1. /\ UNCHANGED <<links, ids, created, parted, req>>
          /\ \A v \in Users : rows'[v] # None => rows'[v] = rows[v]
      BY <1>3 DEF DeleteUser, Types, history
    <2>2. RowsKnown' /\ UniqueAddresses' /\ CallsHaveAddress'
      BY <2>1 DEF AccountInv, RowsKnown, UniqueAddresses, CallsHaveAddress
    <2>3. \A s \in Subjects : created[s] \subseteq Users /\ Searching(s)' = Searching(s)
      BY <2>1 DEF Types, Searching
    <2>4. AccountsHeld'
      BY <2>1, <2>3 DEF AccountInv, AccountsHeld
    <2>5. OneHeld'
      BY <2>1, <2>3 DEF AccountInv, OneHeld
    <2> QED
      BY <2>2, <2>4, <2>5 DEF AccountInv
  <1>4. CASE Crash
    <2>1. /\ UNCHANGED <<rows, links, ids, created, parted>>
          /\ \A q \in Requests : req'[q].at = "idle"
      BY <1>4 DEF Crash, Idle, tables
    <2>2. CallsGoOn
      BY <2>1 DEF CallsGoOn, Looking
    <2> QED
      BY <2>1, <2>2, AccountsFrame
  <1> QED
    BY <1>1, <1>2, <1>3, <1>4, ReadAccounts, WriteAccounts, SearchAccounts, CreateAccounts,
       UnlinkAccounts DEF Next, Mfa, Passkey, OAuth

\* One account that counts is at most one.
LEMMA OneAccount ==
  ASSUME OneHeld
  PROVE  OneAccountPerIdentity
  <1> SUFFICES ASSUME NEW s \in Subjects
               PROVE  Cardinality({u \in created[s] \ parted : rows[u] # None}) <= 1
    BY DEF OneAccountPerIdentity
  <1> DEFINE own == {u \in created[s] \ parted : rows[u] # None}
  <1>2. \A u, v \in own : u = v
    BY DEF OneHeld
  <1>3. CASE own = {}
    BY <1>3, FS_EmptySet
  <1>4. ASSUME NEW u \in own PROVE Cardinality(own) <= 1
    <2>1. own = {u}
      BY <1>2, <1>4
    <2>2. Cardinality({u}) = 1
      BY FS_Singleton
    <2>3. Cardinality(own) = 1
      BY <2>1, <2>2
    <2> QED
      BY <2>3
  <1> QED
    BY <1>3, <1>4

----------------------------------------------------------------------------
(* The recovery codes                                                      *)

CodesInv == SetupsApart /\ Spending /\ \A u \in Users \ stale : CodesOf(u)

\* The calls that write no second factor, and those that hold no code.
Patching(r) == Updating(r) /\ (SetsFactor(req[r].patch) \/ TakesCode(req[r].patch))
Holding(r) == req[r].at = "spent"

\* Every challenge that is open was open before.
NoneOpened ==
    \A p \in pending' : \E o \in pending : o.id = p.id /\ o.kind = p.kind /\ o.user = p.user

\* The user's codes are as good as they were when a step leaves the second factor
\* and the codes used alone, or deletes the row.
LEMMA CodesFrame ==
  ASSUME NEW u \in Users, CodesOf(u), NoneOpened,
         rows'[u] # None => /\ rows[u] # None
                            /\ rows'[u].secret = rows[u].secret
                            /\ rows'[u].codes = rows[u].codes,
         used'[u] = used[u],
         \A q \in Requests : Holding(q)' /\ req'[q].user = u => req'[q] = req[q],
         \A q \in Requests : Setting(q)' /\ req'[q].user = u =>
            Setting(q) /\ req'[q].user = req[q].user /\ req'[q].patch = req[q].patch
  PROVE  CodesOf(u)'
  <1>1. ASSUME NEW n, Unwritten(u, n) PROVE Unwritten(u, n)'
    BY <1>1 DEF Unwritten, Holding
  <1>2. \A q \in Requests : req'[q].at = "spent" /\ req'[q].user = u =>
           req'[q] = req[q] /\ req[q].at = "spent" /\ req[q].user = u
    BY DEF Holding
  <1>3. /\ rows'[u] # None =>
             /\ rows'[u].codes \subseteq {rows'[u].secret} \X Codes
             /\ \A use \in used'[u] : use[1] \notin rows'[u].codes
             /\ \A r \in Requests :
                   req'[r].at = "spent" /\ req'[r].user = u => req'[r].code \notin rows'[u].codes
        /\ \A use \in used'[u] : use[2] = 1
        /\ \A r \in Requests : req'[r].at = "spent" /\ req'[r].user = u =>
             /\ \A use \in used'[u] : use[1] # req'[r].code
             /\ \A s \in Requests \ {r} :
                   req'[s].at = "spent" /\ req'[s].user = u => req'[s].code # req'[r].code
    BY <1>2 DEF CodesOf
  <1>4. ASSUME NEW p \in pending', p.kind = "setup", p.user = u PROVE Unwritten(u, p.id)'
    <2>1. Unwritten(u, p.id)
      BY <1>4 DEF CodesOf, NoneOpened
    <2> QED
      BY <1>1, <2>1
  <1>5. ASSUME NEW r \in Requests, Setting(r)', req'[r].user = u
        PROVE  Unwritten(u, req[r].patch.secret)'
    <2>1. Unwritten(u, req[r].patch.secret) /\ req'[r].patch = req[r].patch
      BY <1>5 DEF CodesOf
    <2>2. PICK n : n = req[r].patch.secret
      OBVIOUS
    <2>3. Unwritten(u, n)'
      BY <1>1, <2>1, <2>2
    <2> QED
      BY <2>1, <2>2, <2>3 DEF Unwritten
  <1> QED
    BY <1>3, <1>4, <1>5 DEF CodesOf

\* The updates stay what they are when a step starts none that touches the
\* second factor.
LEMMA UpdatesFrame ==
  ASSUME SetupsApart, Spending, NoneOpened, stale \subseteq stale',
         \A q \in Requests : Updating(q)' =>
            \/ req'[q] = req[q]
            \/ /\ req'[q].then.at # "spent"
               /\ ~ SetsFactor(req'[q].patch) /\ ~ TakesCode(req'[q].patch)
  PROVE  SetupsApart' /\ Spending'
  <1>1. \A q \in Requests : Updating(q)' /\ SetsFactor(req'[q].patch) =>
           req'[q] = req[q] /\ Updating(q) /\ SetsFactor(req[q].patch)
    BY DEF Updating
  <1>2. \A q \in Requests : Setting(q)' => req'[q] = req[q] /\ Setting(q)
    BY <1>1 DEF Setting
  <1>3. SetupsApart'
    BY <1>1, <1>2 DEF SetupsApart, NoneOpened
  <1>4. Spending'
    BY DEF Spending, Updating
  <1> QED
    BY <1>3, <1>4

\* A step of no request that patches the second factor or holds a code, with the
\* rows, the codes used and the stale rows as they were.
LEMMA CodesUntouched ==
  ASSUME CodesInv, NoneOpened, UNCHANGED <<rows, used, stale>>,
         \A q \in Requests : Updating(q)' =>
            \/ req'[q] = req[q]
            \/ /\ req'[q].then.at # "spent"
               /\ ~ SetsFactor(req'[q].patch) /\ ~ TakesCode(req'[q].patch),
         \A q \in Requests : Holding(q)' => req'[q] = req[q]
  PROVE  CodesInv'
  <1>1. SetupsApart' /\ Spending'
    BY UpdatesFrame DEF CodesInv
  <1>2. \A q \in Requests : Setting(q)' => req'[q] = req[q] /\ Setting(q)
    BY DEF Setting, Updating
  <1>3. ASSUME NEW u \in Users \ stale PROVE CodesOf(u)'
    BY <1>2, CodesFrame DEF CodesInv
  <1> QED
    BY <1>1, <1>3 DEF CodesInv

\* A new challenge or setup has a number that no row, no patch and no code has.
LEMMA CodesOpened ==
  ASSUME Types, CodesInv, NEW kind, NEW u, NEW ks, Challenged(None, kind, u, ks)
  PROVE  CodesInv'
  <1> DEFINE n == made + 1
  <1>1. /\ UNCHANGED <<rows, used, stale, req>>
        /\ \A p \in pending' : p \in pending \/ p.id = n
    BY DEF Challenged, tables, history
  <1>2. \A r \in Requests : Setting(r) => req[r].patch.secret # n
    <2>1. ASSUME NEW r \in Requests, Setting(r) PROVE req[r].patch.secret \in 0 .. made
      <3>1. req[r].patch \in FactorPatch(made)
        BY <2>1, UpdateFields, FactorTyped DEF Setting
      <3> QED
        BY <3>1 DEF FactorPatch
    <2> QED
      BY <2>1 DEF Types
  <1>3. ASSUME NEW v \in Users PROVE Unwritten(v, n)
    <2>1. rows[v] # None => rows[v].secret # n
      <3>1. rows[v] # None => rows[v].secret \in 0 .. made
        BY RowFacts DEF RowTo
      <3> QED
        BY <3>1 DEF Types
    <2>2. \A use \in used[v] : use[1][1] # n
      <3>1. \A use \in used[v] : use[1][1] \in 1 .. made
        BY DEF Types, CodesTo
      <3> QED
        BY <3>1 DEF Types
    <2>3. \A r \in Requests : req[r].at = "spent" => req[r].code[1] # n
      <3>1. \A r \in Requests : req[r].at = "spent" => req[r].code[1] \in 1 .. made
        BY CallTyped DEF SpentCall, CodesTo
      <3> QED
        BY <3>1 DEF Types
    <2> QED
      BY <2>1, <2>2, <2>3 DEF Unwritten
  <1> HIDE DEF n
  <1>4. SetupsApart'
    <2>1. \A r \in Requests : Setting(r)' = Setting(r) /\ Updating(r)' = Updating(r)
      BY <1>1 DEF Setting, Updating
    <2> QED
      BY <1>1, <1>2, <2>1 DEF CodesInv, SetupsApart
  <1>5. Spending'
    BY <1>1 DEF CodesInv, Spending, Updating
  <1>6. ASSUME NEW v \in Users \ stale' PROVE CodesOf(v)'
    <2>1. CodesOf(v)
      BY <1>1, <1>6 DEF CodesInv
    <2>2. ASSUME NEW m, Unwritten(v, m) PROVE Unwritten(v, m)'
      BY <1>1, <2>2 DEF Unwritten
    <2>3. ASSUME NEW p \in pending', p.kind = "setup", p.user = v PROVE Unwritten(v, p.id)'
      <3>1. Unwritten(v, p.id)
        BY <1>1, <1>3, <2>1, <2>3 DEF CodesOf
      <3> QED
        BY <2>2, <3>1
    <2>4. ASSUME NEW r \in Requests, Setting(r)', req'[r].user = v
          PROVE  Unwritten(v, req[r].patch.secret)'
      <3>1. Unwritten(v, req[r].patch.secret)
        BY <1>1, <2>1, <2>4 DEF CodesOf, Setting, Updating
      <3> QED
        BY <1>1, <3>1 DEF Unwritten
    <2> QED
      BY <1>1, <2>1, <2>3, <2>4 DEF CodesOf
  <1> QED
    BY <1>1, <1>4, <1>5, <1>6 DEF CodesInv

\* The second factor is taken away: no code, and the secret that is none.
LEMMA CodesDisabled ==
  ASSUME Types, CodesInv, NEW r \in Requests, NEW u \in Users, DisableMfa(r, u)
  PROVE  CodesInv'
  <1>1. /\ UNCHANGED <<rows, used, stale, pending>>
        /\ \A q \in Requests \ {r} : req'[q] = req[q]
    BY OwnCall DEF Mfa, DisableMfa, tables, history
  <1>2. req'[r] = [at |-> "read", user |-> u, seen |-> None,
                   patch |-> [secret |-> 0, codes |-> {}], then |-> Idle, after |-> Idle]
    BY DEF DisableMfa, Update, Goto, Types
  <1>3. ~ TakesCode(req'[r].patch) /\ ~ Setting(r)' /\ ~ Holding(r)'
    BY <1>2 DEF TakesCode, Setting, Holding
  <1>4. \A q \in Requests : Setting(q)' => q # r /\ req'[q] = req[q] /\ Setting(q)
    BY <1>1, <1>3 DEF Setting, Updating
  <1>5. SetupsApart'
    <2>1. req'[r].patch.codes = {}
      BY <1>2
    <2> QED
      BY <1>1, <1>4, <2>1 DEF CodesInv, SetupsApart, Updating
  <1>6. Spending'
    <2>1. req'[r].then.at # "spent"
      BY <1>2 DEF Idle
    <2> QED
      BY <1>1, <1>3, <2>1 DEF CodesInv, Spending, Updating
  <1>7. ASSUME NEW v \in Users \ stale' PROVE CodesOf(v)'
    <2>1. \A q \in Requests : Holding(q)' => req'[q] = req[q]
      BY <1>1, <1>3
    <2> QED
      BY <1>1, <1>4, <1>7, <2>1, CodesFrame DEF CodesInv, NoneOpened
  <1> QED
    BY <1>5, <1>6, <1>7 DEF CodesInv

\* A setup is confirmed: its number goes from the challenge to the update.
LEMMA CodesConfirmed ==
  ASSUME Types, ChallengesApart, CodesInv, NEW r \in Requests, NEW p \in pending,
         ConfirmMfaSetup(r, p)
  PROVE  CodesInv'
  <1>1. /\ UNCHANGED <<rows, used, stale>> /\ pending' = pending \ {p} /\ p.kind = "setup"
        /\ \A q \in Requests \ {r} : req'[q] = req[q]
    BY OwnCall DEF Mfa, ConfirmMfaSetup, Taken, tables
  <1>2. NoneOpened
    BY <1>1 DEF NoneOpened
  <1>3. CASE End(r)
    <2>1. req'[r].at = "idle"
      BY <1>3 DEF End, Goto, Idle, Types
    <2> QED
      BY <1>1, <1>2, <2>1, CodesUntouched DEF Updating, Holding
  <1>4. CASE Update(r, p.user, None, [secret |-> p.id, codes |-> {p.id} \X Codes], Idle, Idle)
    <2>1. req'[r] = [at |-> "read", user |-> p.user, seen |-> None,
                     patch |-> [secret |-> p.id, codes |-> {p.id} \X Codes],
                     then |-> Idle, after |-> Idle]
      BY <1>4 DEF Update, Goto, Types
    <2>2. /\ ~ TakesCode(req'[r].patch) /\ ~ Holding(r)' /\ req'[r].then.at # "spent"
          /\ req'[r].patch.secret = p.id /\ req'[r].patch.codes = {p.id} \X Codes
          /\ req'[r].user = p.user
      BY <2>1 DEF TakesCode, Holding, Idle
    <2>3. \A q \in Requests \ {r} : Setting(q)' = Setting(q) /\ Updating(q)' = Updating(q)
      BY <1>1 DEF Setting, Updating
    <2>4. SetupsApart'
      <3>1. \A q \in Requests : Updating(q)' /\ SetsFactor(req'[q].patch) =>
               req'[q].patch.codes \subseteq {req'[q].patch.secret} \X Codes
        BY <1>1, <2>2, <2>3 DEF CodesInv, SetupsApart
      <3>2. \A o \in pending' : o.id # p.id
        BY <1>1 DEF ChallengesApart
      <3>3. \A q \in Requests \ {r} : Setting(q) => req[q].patch.secret # p.id
        BY DEF CodesInv, SetupsApart
      <3>4. \A q \in Requests : Setting(q)' =>
               /\ \A o \in pending' : o.id # req'[q].patch.secret
               /\ \A s \in Requests \ {q} :
                     Setting(s)' => req'[s].patch.secret # req'[q].patch.secret
        BY <1>1, <2>2, <2>3, <3>2, <3>3 DEF CodesInv, SetupsApart
      <3> QED
        BY <3>1, <3>4 DEF SetupsApart
    <2>5. Spending'
      BY <1>1, <2>2 DEF CodesInv, Spending, Updating
    <2>6. ASSUME NEW v \in Users \ stale' PROVE CodesOf(v)'
      <3>1. CodesOf(v)
        BY <1>1, <2>6 DEF CodesInv
      <3>2. \A q \in Requests : req'[q].at = "spent" => q # r /\ req'[q] = req[q]
        BY <1>1, <2>2 DEF Holding
      <3>3. ASSUME NEW m, Unwritten(v, m) PROVE Unwritten(v, m)'
        BY <1>1, <3>2, <3>3 DEF Unwritten
      <3>4. ASSUME NEW o \in pending', o.kind = "setup", o.user = v PROVE Unwritten(v, o.id)'
        <4>1. Unwritten(v, o.id)
          BY <1>1, <3>1, <3>4 DEF CodesOf
        <4> QED
          BY <3>3, <4>1
      <3>5. ASSUME NEW q \in Requests, Setting(q)', req'[q].user = v
            PROVE  Unwritten(v, req[q].patch.secret)'
        <4>1. PICK m : m = req'[q].patch.secret
          OBVIOUS
        <4>2. Unwritten(v, m)
          BY <1>1, <2>2, <2>3, <3>1, <3>5, <4>1 DEF CodesOf
        <4>3. Unwritten(v, m)'
          BY <3>3, <4>2
        <4> QED
          BY <4>1, <4>3 DEF Unwritten
      <3> QED
        BY <1>1, <3>1, <3>2, <3>4, <3>5 DEF CodesOf
    <2> QED
      BY <2>4, <2>5, <2>6 DEF CodesInv
  <1> QED
    BY <1>3, <1>4 DEF ConfirmMfaSetup

\* A recovery code was found in the row that was read.
LEMMA CodesTaken ==
  ASSUME Types, CodesInv, NEW r \in Requests, NEW token \in partial,
         NEW code \in (1 .. made) \X Codes, AuthWithMfa(r, token, code)
  PROVE  CodesInv'
  <1> DEFINE u == token.user
             row == rows[u]
  <1>1. /\ UNCHANGED <<rows, used, stale, pending>>
        /\ \A q \in Requests \ {r} : req'[q] = req[q]
    BY OwnCall DEF Mfa, AuthWithMfa, tables, history
  <1>2. req'[r] = [at |-> "read", user |-> u, seen |-> row,
                   patch |-> [codes |-> Remaining(row.codes, code)],
                   then |-> [at |-> "spent", user |-> u, code |-> code], after |-> Idle]
    BY DEF AuthWithMfa, Update, Goto, Types
  <1>3. code \in row.codes /\ row # None
    BY DEF AuthWithMfa
  <1> HIDE DEF row, u
  <1>4. ~ SetsFactor(req'[r].patch) /\ ~ Holding(r)'
    BY <1>2 DEF SetsFactor, Holding
  <1>5. \A q \in Requests : Setting(q)' => q # r /\ req'[q] = req[q] /\ Setting(q)
    BY <1>1, <1>4 DEF Setting, Updating
  <1>6. SetupsApart'
    BY <1>1, <1>4, <1>5 DEF CodesInv, SetupsApart, Updating
  <1>7. Spending'
    <2>1. /\ TakesCode(req'[r].patch) /\ req'[r].then.at = "spent"
          /\ req'[r].then.user = req'[r].user /\ req'[r].seen # None
          /\ req'[r].then.code \in req'[r].seen.codes
          /\ req'[r].patch.codes = Remaining(req'[r].seen.codes, req'[r].then.code)
      BY <1>2, <1>3 DEF TakesCode
    <2> QED
      BY <1>1, <2>1 DEF CodesInv, Spending, Updating
  <1>8. ASSUME NEW v \in Users \ stale' PROVE CodesOf(v)'
    <2>1. \A q \in Requests : Holding(q)' => req'[q] = req[q]
      BY <1>1, <1>4
    <2> QED
      BY <1>1, <1>5, <1>8, <2>1, CodesFrame DEF CodesInv, NoneOpened
  <1> QED
    BY <1>6, <1>7, <1>8 DEF CodesInv

\* The row is read again: an update made from another state of it is stale.
LEMMA CodesRead ==
  ASSUME Types, CodesInv, NEW r \in Requests, ReadRow(r)
  PROVE  CodesInv'
  <1> DEFINE u == req[r].user
  <1>0. /\ u \in Users /\ req[r] \in UpdateCall(made) /\ req[r].after = Idle
        /\ Updating(r) /\ req[r].at = "read"
    BY CallTyped, UpdateFields DEF ReadRow, Updating
  <1>1. /\ UNCHANGED <<rows, used, pending>> /\ stale \subseteq stale'
        /\ \A q \in Requests \ {r} : req'[q] = req[q]
    BY OwnCall DEF Mfa, ReadRow, tables
  <1>2. CASE Goto(r, Idle) /\ stale' = stale
    <2>1. req'[r].at = "idle"
      BY <1>2 DEF Goto, Idle, Types
    <2> QED
      BY <1>1, <1>2, <2>1, CodesUntouched DEF Updating, Holding, NoneOpened
  <1>3. CASE /\ rows[u] # None
             /\ Goto(r, [req[r] EXCEPT !.at = "write", !.seen = rows[u]])
             /\ stale' = IF req[r].seen \in {None, rows[u]} THEN stale ELSE stale \cup {u}
    <2>1. /\ req'[r].at = "write" /\ req'[r].user = u /\ req'[r].seen = rows[u]
          /\ req'[r].patch = req[r].patch /\ req'[r].then = req[r].then
      BY <1>0, <1>3 DEF Goto, Types, UpdateCall
    <2>2. \A q \in Requests : /\ Updating(q)' = Updating(q)
                              /\ req'[q].patch = req[q].patch /\ req'[q].user = req[q].user
      BY <1>0, <1>1, <2>1 DEF Updating
    <2>3. \A q \in Requests : Setting(q)' = Setting(q)
      BY <2>2 DEF Setting
    <2>4. SetupsApart'
      BY <1>1, <2>2, <2>3 DEF CodesInv, SetupsApart
    <2>5. Spending'
      <3>1. CASE TakesCode(req[r].patch)
        <4>1. /\ req[r].seen # None /\ req[r].then.at = "spent" /\ req[r].then.user = u
              /\ req[r].then.code \in req[r].seen.codes
              /\ req[r].patch.codes = Remaining(req[r].seen.codes, req[r].then.code)
          BY <1>0, <3>1 DEF CodesInv, Spending
        <4>2. u \notin stale' => req[r].seen = rows[u]
          BY <1>3, <4>1
        <4> QED
          BY <1>1, <2>1, <2>2, <3>1, <4>1, <4>2 DEF CodesInv, Spending
      <3>2. CASE ~ TakesCode(req[r].patch)
        <4>1. req[r].then.at # "spent"
          BY <1>0, <3>2 DEF CodesInv, Spending
        <4> QED
          BY <1>1, <2>1, <2>2, <3>2, <4>1 DEF CodesInv, Spending
      <3> QED
        BY <3>1, <3>2
    <2>6. ASSUME NEW v \in Users \ stale' PROVE CodesOf(v)'
      <3>1. \A q \in Requests : Holding(q)' => req'[q] = req[q]
        BY <1>1, <2>1 DEF Holding
      <3>2. CodesOf(v) /\ NoneOpened
        BY <1>1, <2>6 DEF CodesInv, NoneOpened
      <3> QED
        BY <1>1, <2>2, <2>3, <3>1, <3>2, CodesFrame
    <2> QED
      BY <2>4, <2>5, <2>6 DEF CodesInv
  <1> QED
    BY <1>0, <1>2, <1>3 DEF ReadRow

\* A row is written.  A new second factor comes with codes of its own number; a
\* login takes the code it holds from then on; other updates touch neither.
LEMMA CodesWritten ==
  ASSUME Types, RowsKnown, CodesInv, NEW r \in Requests, WriteRow(r)
  PROVE  CodesInv'
  <1> PICK u : u = req[r].user
    OBVIOUS
  <1> DEFINE patch == req[r].patch
             then == req[r].then
  <1>0. /\ u \in Users /\ patch \in PatchTo(made) /\ req[r].after = Idle
        /\ then.at \in {"idle", "spent", "rekey"} /\ Updating(r) /\ req[r].at = "write"
    BY UpdateFields DEF WriteRow, Updating
  <1>1. /\ UNCHANGED <<used, pending>> /\ stale \subseteq stale'
        /\ \A q \in Requests \ {r} : req'[q] = req[q]
    BY OwnCall DEF Mfa, WriteRow
  <1>2. NoneOpened
    BY <1>1 DEF NoneOpened
  <1>3. CASE Goto(r, Idle) /\ UNCHANGED <<rows, stale>>
    <2>1. req'[r].at = "idle"
      BY <1>3 DEF Goto, Idle, Types
    <2> QED
      BY <1>1, <1>2, <1>3, <2>1, CodesUntouched DEF Updating, Holding
  <1>4. CASE /\ rows[u] # None
             /\ rows' = [rows EXCEPT ![u] = Overlay(patch, req[r].seen)]
             /\ stale' = IF rows[u] = req[r].seen THEN stale ELSE stale \cup {u}
             /\ Goto(r, then)
    <2>1. req'[r] = then /\ then.at \in {"idle", "spent", "rekey"}
      BY <1>0, <1>4 DEF Goto, Types
    <2>2. \A q \in Requests : Updating(q)' => q # r /\ req'[q] = req[q]
      BY <1>1, <2>1 DEF Updating
    <2>3. \A q \in Requests : Setting(q)' => q # r /\ req'[q] = req[q] /\ Setting(q)
      BY <2>2 DEF Setting, Updating
    <2>4. SetupsApart' /\ Spending'
      BY <1>1, <1>2, <2>2, UpdatesFrame DEF CodesInv
    <2>5. /\ TakesCode(patch) => then.at = "spent" /\ then.user = u
          /\ ~ TakesCode(patch) => then.at # "spent"
      BY <1>0 DEF CodesInv, Spending
    <2>6. \A v \in Users \ {u} : rows'[v] = rows[v]
      BY <1>0, <1>4 DEF Types
    <2>7. ASSUME NEW v \in Users \ stale', v # u PROVE CodesOf(v)'
      <3>1. \A q \in Requests : Holding(q)' /\ req'[q].user = v => req'[q] = req[q]
        BY <1>1, <2>1, <2>5, <2>7 DEF Holding
      <3>2. CodesOf(v)
        BY <1>1, <2>7 DEF CodesInv
      <3> QED
        BY <1>1, <1>2, <2>3, <2>6, <2>7, <3>1, <3>2, CodesFrame
    <2>8. ASSUME u \notin stale' PROVE CodesOf(u)'
      <3>1. req[r].seen = rows[u] /\ u \notin stale /\ CodesOf(u)
        BY <1>0, <1>4, <2>8 DEF CodesInv
      <3>2. rows[u] \in RowTo(made)
        BY <1>0, <1>4, RowFacts
      <3>3. /\ rows'[u].secret = IF SetsFactor(patch) THEN patch.secret ELSE rows[u].secret
            /\ rows'[u].codes =
                  IF SetsFactor(patch) \/ TakesCode(patch) THEN patch.codes ELSE rows[u].codes
        <4>1. rows'[u] = Overlay(patch, rows[u])
          BY <1>0, <1>4, <3>1 DEF Types
        <4> QED
          BY <1>0, <3>2, <4>1, OverlayRow DEF Types
      <3>4. CASE ~ SetsFactor(patch) /\ ~ TakesCode(patch)
        <4>1. \A q \in Requests : Holding(q)' => req'[q] = req[q]
          BY <1>1, <2>1, <2>5, <3>4 DEF Holding
        <4> QED
          BY <1>0, <1>1, <1>2, <1>4, <2>3, <3>1, <3>3, <3>4, <4>1, CodesFrame
      <3>5. CASE SetsFactor(patch)
        <4>1. PICK n : n = patch.secret
          OBVIOUS
        <4>2. /\ rows'[u].secret = n /\ rows'[u].codes = patch.codes
              /\ patch.codes \subseteq {n} \X Codes /\ patch.codes \subseteq CodesTo(made)
          <5>1. patch \in FactorPatch(made)
            BY <1>0, <3>5, FactorTyped
          <5>2. patch.codes \subseteq CodesTo(made)
            BY <5>1 DEF FactorPatch
          <5> QED
            BY <1>0, <3>3, <3>5, <4>1, <5>2 DEF CodesInv, SetupsApart
        <4>3. \A q \in Requests : req'[q].at = "spent" => q # r /\ req'[q] = req[q]
          <5>1. ~ TakesCode(patch)
            BY <3>5 DEF TakesCode, SetsFactor
          <5> QED
            BY <1>1, <2>1, <2>5, <5>1
        <4>4. n # 0 => Unwritten(u, n)
          BY <1>0, <3>1, <3>5, <4>1 DEF CodesOf, Setting
        <4>5. \A code \in patch.codes : n # 0 /\ code[1] = n
          BY <4>2 DEF CodesTo, Types
        <4>6. /\ \A use \in used[u] : use[1] \notin patch.codes
              /\ \A q \in Requests :
                    req[q].at = "spent" /\ req[q].user = u => req[q].code \notin patch.codes
          BY <4>4, <4>5 DEF Unwritten
        <4>7. ASSUME NEW m, Unwritten(u, m), m # n PROVE Unwritten(u, m)'
          BY <1>1, <4>2, <4>3, <4>7 DEF Unwritten
        <4>8. ASSUME NEW p \in pending', p.kind = "setup", p.user = u PROVE Unwritten(u, p.id)'
          <5>1. Unwritten(u, p.id)
            BY <1>1, <3>1, <4>8 DEF CodesOf
          <5>2. p.id # n
            <6>1. CASE n # 0
              BY <1>0, <1>1, <3>5, <4>1, <6>1 DEF CodesInv, SetupsApart, Setting
            <6>2. CASE n = 0
              <7>1. p.id \in 1 .. made
                BY <1>1 DEF Types, ChallengeTo
              <7> QED
                BY <6>2, <7>1 DEF Types
            <6> QED
              BY <6>1, <6>2
          <5> QED
            BY <4>7, <5>1, <5>2
        <4>9. ASSUME NEW q \in Requests, Setting(q)', req'[q].user = u
              PROVE  Unwritten(u, req[q].patch.secret)'
          <5>1. PICK m : m = req[q].patch.secret
            OBVIOUS
          <5>2. q # r /\ req'[q] = req[q] /\ Setting(q) /\ Unwritten(u, m)
            BY <2>3, <3>1, <4>9, <5>1 DEF CodesOf
          <5>3. m # n
            <6>1. CASE n # 0
              BY <1>0, <3>5, <4>1, <5>1, <5>2, <6>1 DEF CodesInv, SetupsApart, Setting
            <6>2. CASE n = 0
              BY <5>1, <5>2, <6>2 DEF Setting
            <6> QED
              BY <6>1, <6>2
          <5>4. Unwritten(u, m)'
            BY <4>7, <5>2, <5>3
          <5> QED
            BY <5>1, <5>2, <5>4 DEF Unwritten
        <4> HIDE DEF patch, then
        <4> QED
          BY <1>1, <3>1, <4>2, <4>3, <4>6, <4>8, <4>9 DEF CodesOf
      <3>6. CASE TakesCode(patch)
        <4>1. PICK c : c = then.code
          OBVIOUS
        <4>2. /\ then.at = "spent" /\ then.user = u /\ c \in rows[u].codes
              /\ patch.codes = Remaining(rows[u].codes, c)
          BY <1>0, <3>1, <3>6, <4>1 DEF CodesInv, Spending
        <4>3. /\ rows'[u].secret = rows[u].secret
              /\ rows'[u].codes = rows[u].codes \ {c}
          BY <3>3, <3>6, <4>2 DEF Remaining, TakesCode, SetsFactor
        <4>4. c[1] = rows[u].secret
          BY <1>4, <3>1, <4>2 DEF CodesOf
        <4>5. /\ req'[r].at = "spent" /\ req'[r].user = u /\ req'[r].code = c
              /\ \A q \in Requests \ {r} : req'[q] = req[q]
          BY <1>1, <2>1, <4>1, <4>2
        <4>6. /\ \A use \in used[u] : use[1] # c
              /\ \A q \in Requests : req[q].at = "spent" /\ req[q].user = u => req[q].code # c
          BY <1>4, <3>1, <4>2 DEF CodesOf
        <4>7. ASSUME NEW m, Unwritten(u, m) PROVE Unwritten(u, m)'
          BY <1>1, <1>4, <4>3, <4>4, <4>5, <4>7 DEF Unwritten
        <4>8. ASSUME NEW p \in pending', p.kind = "setup", p.user = u PROVE Unwritten(u, p.id)'
          <5>1. Unwritten(u, p.id)
            BY <1>1, <3>1, <4>8 DEF CodesOf
          <5> QED
            BY <4>7, <5>1
        <4>9. ASSUME NEW q \in Requests, Setting(q)', req'[q].user = u
              PROVE  Unwritten(u, req[q].patch.secret)'
          <5>1. PICK m : m = req[q].patch.secret
            OBVIOUS
          <5>2. req'[q] = req[q] /\ Unwritten(u, m)
            BY <2>3, <3>1, <4>9, <5>1 DEF CodesOf
          <5>3. Unwritten(u, m)'
            BY <4>7, <5>2
          <5> QED
            BY <5>1, <5>2, <5>3 DEF Unwritten
        <4>10. /\ rows'[u].codes \subseteq {rows'[u].secret} \X Codes
               /\ \A use \in used'[u] : use[1] \notin rows'[u].codes /\ use[2] = 1
          BY <1>1, <1>4, <3>1, <4>3 DEF CodesOf
        <4>11. \A q \in Requests : req'[q].at = "spent" /\ req'[q].user = u =>
                  /\ req'[q].code \notin rows'[u].codes
                  /\ \A use \in used'[u] : use[1] # req'[q].code
                  /\ \A s \in Requests \ {q} :
                        req'[s].at = "spent" /\ req'[s].user = u => req'[s].code # req'[q].code
          <5> HIDE DEF patch, then
          <5> SUFFICES ASSUME NEW q \in Requests, req'[q].at = "spent", req'[q].user = u
                       PROVE  /\ req'[q].code \notin rows'[u].codes
                              /\ \A use \in used'[u] : use[1] # req'[q].code
                              /\ \A s \in Requests \ {q} :
                                    req'[s].at = "spent" /\ req'[s].user = u
                                       => req'[s].code # req'[q].code
            OBVIOUS
          <5>1. CASE q = r
            BY <1>1, <4>3, <4>5, <4>6, <5>1
          <5>2. CASE q # r
            <6>1. req'[q] = req[q] /\ req[q].code # c
              BY <4>5, <4>6, <5>2
            <6> QED
              BY <1>1, <1>4, <3>1, <4>3, <4>5, <6>1 DEF CodesOf
          <5> QED
            BY <5>1, <5>2
        <4> HIDE DEF patch, then
        <4> QED
          BY <4>8, <4>9, <4>10, <4>11 DEF CodesOf
      <3> QED
        BY <3>4, <3>5, <3>6
    <2> QED
      BY <2>4, <2>7, <2>8 DEF CodesInv
  <1> QED
    BY <1>0, <1>3, <1>4 DEF WriteRow

\* A code that was taken is used for the first time, and no longer held.
LEMMA CodesSpent ==
  ASSUME Types, CodesInv, NEW r \in Requests, Spent(r)
  PROVE  CodesInv'
  <1> PICK u : u = req[r].user
    OBVIOUS
  <1> PICK c : c = req[r].code
    OBVIOUS
  <1>0. u \in Users /\ c \in CodesTo(made) /\ Holding(r)
    BY CallTyped DEF Spent, SpentCall, Holding
  <1>1. /\ UNCHANGED <<rows, stale, pending>>
        /\ \A q \in Requests \ {r} : req'[q] = req[q]
        /\ \A v \in Users \ {u} : used'[v] = used[v]
        /\ used'[u] = Count(used[u], c)
    BY <1>0, OwnCall DEF Mfa, Spent, Types, tables
  <1>2. req'[r].at = "idle"
    BY DEF Spent, End, Goto, Idle, Types
  <1>3. \A q \in Requests : Updating(q)' => q # r /\ req'[q] = req[q]
    BY <1>1, <1>2 DEF Updating
  <1>4. \A q \in Requests : Setting(q)' => q # r /\ req'[q] = req[q] /\ Setting(q)
    BY <1>3 DEF Setting, Updating
  <1>5. NoneOpened
    BY <1>1 DEF NoneOpened
  <1>6. SetupsApart' /\ Spending'
    BY <1>1, <1>3, <1>5, UpdatesFrame DEF CodesInv
  <1>7. \A q \in Requests : Holding(q)' => q # r /\ req'[q] = req[q]
    BY <1>1, <1>2 DEF Holding
  <1>8. ASSUME NEW v \in Users \ stale', v # u PROVE CodesOf(v)'
    <2>1. CodesOf(v)
      BY <1>1, <1>8 DEF CodesInv
    <2> QED
      BY <1>1, <1>4, <1>5, <1>7, <1>8, <2>1, CodesFrame
  <1>9. ASSUME u \notin stale' PROVE CodesOf(u)'
    <2>1. CodesOf(u)
      BY <1>0, <1>1, <1>9 DEF CodesInv
    <2>2. /\ \A use \in used[u] : use[1] # c
          /\ rows[u] # None => c \notin rows[u].codes
          /\ \A q \in Requests \ {r} : req[q].at = "spent" /\ req[q].user = u => req[q].code # c
      BY <1>0, <2>1 DEF CodesOf, Holding
    <2>3. used'[u] = used[u] \cup {<<c, 1>>}
      <3>1. used[u] \in SUBSET (CodesTo(made) \X Nat) /\ IsFiniteSet(used[u])
        BY <1>0 DEF Types
      <3> QED
        BY <1>0, <1>1, <2>2, <3>1, CountTyped
    <2>4. ASSUME NEW m, Unwritten(u, m) PROVE Unwritten(u, m)'
      <3>1. c[1] # m
        BY <1>0, <2>4 DEF Unwritten, Holding
      <3>2. \A use \in used'[u] : use[1][1] # m
        BY <2>3, <2>4, <3>1 DEF Unwritten
      <3> QED
        BY <1>1, <1>7, <2>4, <3>2 DEF Unwritten, Holding
    <2>5. ASSUME NEW p \in pending', p.kind = "setup", p.user = u PROVE Unwritten(u, p.id)'
      <3>1. Unwritten(u, p.id)
        BY <1>1, <2>1, <2>5 DEF CodesOf
      <3> QED
        BY <2>4, <3>1
    <2>6. ASSUME NEW q \in Requests, Setting(q)', req'[q].user = u
          PROVE  Unwritten(u, req[q].patch.secret)'
      <3>1. PICK m : m = req[q].patch.secret
        OBVIOUS
      <3>2. req'[q] = req[q] /\ Unwritten(u, m)
        BY <1>4, <2>1, <2>6, <3>1 DEF CodesOf
      <3>3. Unwritten(u, m)'
        BY <2>4, <3>2
      <3> QED
        BY <3>1, <3>2, <3>3 DEF Unwritten
    <2>7. \A use \in used'[u] : use[2] = 1 /\ (use \in used[u] \/ use[1] = c)
      BY <2>1, <2>3 DEF CodesOf
    <2>8. \A q \in Requests : req'[q].at = "spent" => q # r /\ req'[q] = req[q]
      BY <1>7 DEF Holding
    <2>9. rows'[u] # None =>
            /\ rows'[u].codes \subseteq {rows'[u].secret} \X Codes
            /\ \A use \in used'[u] : use[1] \notin rows'[u].codes
            /\ \A q \in Requests :
                  req'[q].at = "spent" /\ req'[q].user = u => req'[q].code \notin rows'[u].codes
      BY <1>1, <2>1, <2>2, <2>7, <2>8 DEF CodesOf
    <2>10. \A q \in Requests : req'[q].at = "spent" /\ req'[q].user = u =>
             /\ \A use \in used'[u] : use[1] # req'[q].code
             /\ \A s \in Requests \ {q} :
                   req'[s].at = "spent" /\ req'[s].user = u => req'[s].code # req'[q].code
      BY <2>1, <2>2, <2>7, <2>8 DEF CodesOf
    <2> QED
      BY <2>5, <2>6, <2>7, <2>9, <2>10 DEF CodesOf
  <1> QED
    BY <1>6, <1>8, <1>9 DEF CodesInv

\* A new account has no second factor.
LEMMA CodesCreated ==
  ASSUME Types, RowsKnown, CodesInv, NEW r \in Requests, CreateUser(r)
  PROVE  CodesInv'
  <1>0. /\ UNCHANGED <<used, stale, pending>>
        /\ \A q \in Requests \ {r} : req'[q] = req[q]
    BY OwnCall DEF OAuth, CreateUser
  <1>1. NoneOpened
    BY <1>0 DEF NoneOpened
  <1>2. req'[r].at \in {"idle", "link"}
    BY DEF CreateUser, End, Goto, Idle, Types
  <1>3. \A q \in Requests : (Updating(q) \/ Holding(q))' => q # r /\ req'[q] = req[q]
    BY <1>0, <1>2 DEF Updating, Holding
  <1>4. CASE rows' = rows
    BY <1>0, <1>1, <1>3, <1>4, CodesUntouched
  <1>5. ASSUME NEW u \in Users \ ids,
               rows' = [rows EXCEPT ![u] =
                  [email |-> req[r].email, verified |-> req[r].verified, key |-> made + 1,
                   secret |-> 0, codes |-> {}]]
        PROVE  CodesInv'
    <2>1. /\ rows[u] = None /\ rows'[u].secret = 0 /\ rows'[u].codes = {}
          /\ \A v \in Users \ {u} : rows'[v] = rows[v]
      BY <1>5 DEF RowsKnown, Types
    <2>2. SetupsApart' /\ Spending'
      BY <1>0, <1>1, <1>3, UpdatesFrame DEF CodesInv
    <2>3. \A q \in Requests : Setting(q)' => q # r /\ req'[q] = req[q] /\ Setting(q)
      BY <1>3 DEF Setting, Updating
    <2>4. ASSUME NEW v \in Users \ stale', v # u PROVE CodesOf(v)'
      <3>1. CodesOf(v)
        BY <1>0, <2>4 DEF CodesInv
      <3> QED
        BY <1>0, <1>1, <1>3, <2>1, <2>3, <2>4, <3>1, CodesFrame
    <2>5. ASSUME u \notin stale' PROVE CodesOf(u)'
      <3>1. CodesOf(u)
        BY <1>0, <2>5 DEF CodesInv
      <3>2. \A q \in Requests : req'[q].at = "spent" => q # r /\ req'[q] = req[q]
        BY <1>3 DEF Holding
      <3>3. ASSUME NEW m, Unwritten(u, m), m # 0 PROVE Unwritten(u, m)'
        BY <1>0, <2>1, <3>2, <3>3 DEF Unwritten
      <3>4. ASSUME NEW p \in pending', p.kind = "setup", p.user = u PROVE Unwritten(u, p.id)'
        <4>1. Unwritten(u, p.id)
          BY <1>0, <3>1, <3>4 DEF CodesOf
        <4>2. p.id # 0
          <5>1. p.id \in 1 .. made
            BY <1>0 DEF Types, ChallengeTo
          <5> QED
            BY <5>1 DEF Types
        <4> QED
          BY <3>3, <4>1, <4>2
      <3>5. ASSUME NEW q \in Requests, Setting(q)', req'[q].user = u
            PROVE  Unwritten(u, req[q].patch.secret)'
        <4>1. PICK m : m = req[q].patch.secret
          OBVIOUS
        <4>2. req'[q] = req[q] /\ Unwritten(u, m) /\ m # 0
          BY <2>3, <3>1, <3>5, <4>1 DEF CodesOf, Setting
        <4>3. Unwritten(u, m)'
          BY <3>3, <4>2
        <4> QED
          BY <4>1, <4>2, <4>3 DEF Unwritten
      <3> QED
        BY <1>0, <2>1, <3>1, <3>2, <3>4, <3>5 DEF CodesOf
    <2> QED
      BY <2>2, <2>4, <2>5 DEF CodesInv
  <1> QED
    BY <1>4, <1>5 DEF CreateUser

\* The steps that neither open a setup nor touch the second factor.
LEMMA CodesQuiet ==
  ASSUME Types, CodesInv, NEW r \in Requests,
         \/ \E u \in Users : ChangePassword(r, u)
         \/ \E p \in pending, k \in Passkeys : PasskeyFinish(r, p, k)
         \/ RemovePasskey(r) \/ RestorePasskey(r) \/ LoadUser(r)
         \/ \E s \in Subjects : AuthWithOAuth2(r, s)
         \/ FindLink(r) \/ FindByEmail(r) \/ LinkUser(r) \/ Email(r)
  PROVE  CodesInv'
  <1> DEFINE Quiet == /\ ~ Holding(r)'
                      /\ Updating(r)' => /\ req'[r].then.at # "spent"
                                         /\ ~ SetsFactor(req'[r].patch)
                                         /\ ~ TakesCode(req'[r].patch)
  <1>0. /\ UNCHANGED <<rows, used, stale>> /\ NoneOpened
        /\ \A q \in Requests \ {r} : req'[q] = req[q]
    <2>1. UNCHANGED <<rows, used, stale>> /\ pending' \subseteq pending
      BY EmailCalls
         DEF ChangePassword, PasskeyFinish, RemovePasskey, RestorePasskey, LoadUser,
             AuthWithOAuth2, FindLink, FindByEmail, LinkUser, Taken, tables, history
    <2>2. \A q \in Requests \ {r} : req'[q] = req[q]
      BY OwnCall DEF Mfa, Passkey, OAuth
    <2> QED
      BY <2>1, <2>2 DEF NoneOpened
  <1>1. ASSUME NEW call, Goto(r, call), call.at \notin {"read", "write", "spent"} PROVE Quiet
    BY <1>1 DEF Goto, Types, Holding, Updating
  <1>2. ASSUME NEW u, NEW patch, Update(r, u, None, patch, Idle, Idle),
               ~ SetsFactor(patch), ~ TakesCode(patch)
        PROVE  Quiet
    BY <1>2 DEF Update, Goto, Types, Holding, Updating, Idle
  <1>3. Idle.at = "idle"
    BY DEF Idle
  <1>4. ASSUME NEW u \in Users, ChangePassword(r, u) PROVE Quiet
    <2>1. ~ SetsFactor([key |-> made + 1]) /\ ~ TakesCode([key |-> made + 1])
      BY DEF SetsFactor, TakesCode
    <2> QED
      BY <1>2, <1>4, <2>1 DEF ChangePassword
  <1>5. CASE LinkUser(r)
    <2>1. ~ SetsFactor([verified |-> TRUE]) /\ ~ TakesCode([verified |-> TRUE])
      BY DEF SetsFactor, TakesCode
    <2> QED
      <3>1. CASE End(r)
        BY <1>1, <1>3, <3>1, <1>0, CodesUntouched DEF End, CodesInv, Updating, Holding
      <3>2. CASE Update(r, req[r].user, None, [verified |-> TRUE], Idle, Idle)
        BY <1>0, <1>2, <2>1, <3>2, CodesUntouched DEF Updating, Holding
      <3> QED
        BY <1>5, <3>1, <3>2 DEF LinkUser
  <1>6. ASSUME NEW p \in pending, NEW k \in Passkeys, PasskeyFinish(r, p, k) PROVE Quiet
    BY <1>1, <1>3, <1>6 DEF PasskeyFinish, End
  <1>7. CASE RemovePasskey(r) \/ RestorePasskey(r)
    <2>1. req[r] \in PasskeyCall(made)
      BY <1>7, CallTyped DEF RemovePasskey, RestorePasskey
    <2>2. /\ [req[r] EXCEPT !.at = "restore"].at = "restore"
          /\ [req[r] EXCEPT !.at = "load"].at = "load"
      BY <2>1 DEF PasskeyCall
    <2>3. Quiet
      BY <1>1, <1>7, <2>2 DEF RemovePasskey, RestorePasskey
    <2> QED
      BY <1>0, <2>3, CodesUntouched DEF Updating, Holding
  <1>8. CASE LoadUser(r) \/ FindLink(r) \/ FindByEmail(r)
    <2>1. FindLink(r) \/ FindByEmail(r) =>
             /\ [req[r] EXCEPT !.at = "match"].at = "match"
             /\ [req[r] EXCEPT !.at = "create"].at = "create"
      <3>1. FindLink(r) \/ FindByEmail(r) => req[r] \in OAuthCall
        BY CallTyped DEF FindLink, FindByEmail
      <3> QED
        BY <3>1 DEF OAuthCall
    <2>2. Quiet
      BY <1>1, <1>3, <1>8, <2>1 DEF LoadUser, FindLink, FindByEmail, End
    <2> QED
      BY <1>0, <2>2, CodesUntouched DEF Updating, Holding
  <1>9. ASSUME NEW s \in Subjects, AuthWithOAuth2(r, s) PROVE Quiet
    BY <1>1, <1>9 DEF AuthWithOAuth2
  <1>10. CASE \/ \E u \in Users : ChangePassword(r, u)
              \/ \E p \in pending, k \in Passkeys : PasskeyFinish(r, p, k)
              \/ \E s \in Subjects : AuthWithOAuth2(r, s)
    <2>1. Quiet
      BY <1>4, <1>6, <1>9, <1>10
    <2> QED
      BY <1>0, <2>1, CodesUntouched DEF Updating, Holding
  <1>11. CASE Email(r)
    <2>1. Quiet
      BY <1>11, EmailCalls DEF Holding
    <2> QED
      BY <1>0, <2>1, CodesUntouched DEF Updating, Holding
  <1> QED
    BY <1>5, <1>7, <1>8, <1>10, <1>11

LEMMA CodesStep ==
  ASSUME Types, ChallengesApart, RowsKnown, CodesInv, Next
  PROVE  CodesInv'
  <1>1. ASSUME \/ \E r \in Requests, p \in pending, k \in Passkeys :
                     ConfirmPasskeyRegister(r, p, k)
               \/ \E p \in pending : Expire(p)
               \/ \E u \in Users : AuthWithPassword(u)
               \/ \E s \in Subjects : UnlinkExternalAuth(s)
        PROVE  CodesInv'
    <2>1. UNCHANGED <<rows, used, stale, req>>
      BY <1>1 DEF ConfirmPasskeyRegister, Expire, AuthWithPassword, UnlinkExternalAuth, tables,
                  history
    <2>2. NoneOpened
      <3>1. ASSUME NEW p \in pending, Expire(p) PROVE NoneOpened
        <4> DEFINE old == [p EXCEPT !.expired = TRUE]
        <4>1. old.id = p.id /\ old.kind = p.kind /\ old.user = p.user
          BY DEF Types, ChallengeTo, Challenge
        <4>2. pending' = (pending \ {p}) \cup {old}
          BY <3>1 DEF Expire, Taken
        <4> HIDE DEF old
        <4> QED
          BY <4>1, <4>2 DEF NoneOpened
      <3> QED
        BY <1>1, <3>1 DEF ConfirmPasskeyRegister, AuthWithPassword, UnlinkExternalAuth, Taken,
                          NoneOpened
    <2> QED
      BY <2>1, <2>2, CodesUntouched DEF Updating, Holding
  <1>2. ASSUME NEW u \in Users, RequestMfaSetup(u) \/ RequestPasskeyRegister(u) PROVE CodesInv'
    BY <1>2, CodesOpened DEF RequestMfaSetup, RequestPasskeyRegister
  <1>3. CASE PasskeyBegin
    BY <1>3, CodesOpened DEF PasskeyBegin
  <1>4. ASSUME NEW u \in Users, DeleteUser(u) PROVE CodesInv'
    <2>1. /\ UNCHANGED <<used, stale, pending, req>>
          /\ \A v \in Users : rows'[v] # None => rows'[v] = rows[v]
      BY <1>4 DEF DeleteUser, Types, history
    <2>2. NoneOpened
      BY <2>1 DEF NoneOpened
    <2>3. SetupsApart' /\ Spending'
      BY <2>1, <2>2, UpdatesFrame DEF CodesInv
    <2>4. \A q \in Requests : Setting(q)' = Setting(q)
      BY <2>1 DEF Setting, Updating
    <2>5. ASSUME NEW v \in Users \ stale' PROVE CodesOf(v)'
      <3>1. CodesOf(v)
        BY <2>1, <2>5 DEF CodesInv
      <3> QED
        BY <2>1, <2>2, <2>4, <3>1, CodesFrame
    <2> QED
      BY <2>3, <2>5 DEF CodesInv
  <1>5. CASE Crash
    <2>1. /\ UNCHANGED <<rows, used, stale>> /\ pending' = {}
          /\ \A q \in Requests : req'[q].at = "idle"
      BY <1>5 DEF Crash, Idle, tables
    <2>2. NoneOpened
      BY <2>1 DEF NoneOpened
    <2> QED
      BY <2>1, <2>2, CodesUntouched DEF Updating, Holding
  <1> QED
    BY <1>1, <1>2, <1>3, <1>4, <1>5, CodesDisabled, CodesConfirmed, CodesTaken, CodesRead,
       CodesWritten, CodesSpent, CodesCreated, CodesQuiet
       DEF Next, Mfa, Passkey, OAuth

----------------------------------------------------------------------------
(* The invariant and what follows from it                                  *)

LEMMA InitInv == Init => IInv
  <1> SUFFICES ASSUME Init PROVE IInv
    OBVIOUS
  <1>1. PICK start \in Starts : rows = start.rows
    BY DEF Init
  <1>2. /\ rows \in [Users -> Row \cup {None}] /\ made = 0
        /\ \A u \in Users : rows[u] # None => rows[u].secret = 0 /\ rows[u].codes = {}
    BY <1>1, StartsAssumption DEF Init
  <1>3. \A r \in Requests : req[r] = Idle /\ req[r].at = "idle"
    BY DEF Init, Idle
  <1>4. Types
    <2>1. \A u \in Users : rows[u] \in RowTo(0) \cup {None}
      <3> SUFFICES ASSUME NEW u \in Users, rows[u] # None PROVE rows[u] \in RowTo(0)
        OBVIOUS
      <3>1. rows[u] \in Row /\ rows[u].key = 0 /\ rows[u].secret = 0 /\ rows[u].codes = {}
        BY <1>1, <1>2, StartsAssumption
      <3>2. rows[u] \in [email : Emails, verified : BOOLEAN, key : {0}, secret : {0}, codes : {{}}]
        BY <3>1 DEF Row
      <3> QED
        BY <3>2 DEF RowTo
    <2>2. rows \in [Users -> RowTo(made) \cup {None}]
      BY <1>2, <2>1
    <2>3. req \in [Requests -> CallTo(made)]
      BY DEF Init, CallTo
    <2>4. used \in [Users -> SUBSET (CodesTo(made) \X Nat)] /\ \A u \in Users : used[u] = {}
      BY DEF Init
    <2>5. IsFiniteSet({})
      BY FS_EmptySet
    <2> QED
      BY <1>2, <2>2, <2>3, <2>4, <2>5 DEF Types, Init
  <1>5. ChallengesApart /\ ChallengesOnce /\ PasskeysKept
    BY <1>3 DEF Init, ChallengesApart, ChallengesOnce, PasskeysKept, Signing
  <1>6. RowsKnown /\ CallsHaveAddress /\ AccountsHeld /\ OneHeld
    BY <1>1, <1>3 DEF Init, RowsKnown, CallsHaveAddress, AccountsHeld, OneHeld
  <1>7. UniqueAddresses
    BY <1>1, StartsAssumption DEF UniqueAddresses
  <1>8. SetupsApart /\ Spending
    BY <1>3 DEF Init, SetupsApart, Spending, Setting, Updating
  <1>9. ASSUME NEW u \in Users PROVE CodesOf(u)
    <2>1. used[u] = {} /\ pending = {}
      BY DEF Init
    <2> QED
      BY <1>2, <1>3, <2>1 DEF CodesOf, Setting, Updating
  <1> QED
    BY <1>4, <1>5, <1>6, <1>7, <1>8, <1>9 DEF IInv

LEMMA InvStep == IInv /\ [Next]_vars => IInv'
  <1>1. ASSUME IInv, Next PROVE IInv'
    <2>1. AccountInv /\ CodesInv
      BY <1>1 DEF IInv, AccountInv, CodesInv
    <2>2. Types' /\ ChallengesApart' /\ ChallengesOnce' /\ PasskeysKept'
      BY <1>1, TypesStep, ChallengesStep, PasskeysStep DEF IInv
    <2>3. AccountInv' /\ CodesInv'
      BY <1>1, <2>1, AccountsStep, CodesStep DEF IInv
    <2> QED
      BY <2>2, <2>3 DEF IInv, AccountInv, CodesInv
  <1>2. ASSUME IInv, UNCHANGED vars PROVE IInv'
    <2>1. /\ UNCHANGED <<rows, passkeys, links, pending, partial, req, made, ids, registered,
                         dropped, created, parted, used, answered, stale>>
      BY <1>2 DEF vars, tables, history
    <2>2. Types' /\ ChallengesApart' /\ ChallengesOnce' /\ PasskeysKept'
      BY <1>2, <2>1 DEF IInv, Types, ChallengesApart, ChallengesOnce, PasskeysKept, Signing
    <2>3. RowsKnown' /\ UniqueAddresses' /\ CallsHaveAddress' /\ AccountsHeld' /\ OneHeld'
      BY <1>2, <2>1 DEF IInv, RowsKnown, UniqueAddresses, CallsHaveAddress, AccountsHeld,
                        OneHeld, Searching
    <2>4. CodesInv'
      <3>1. CodesInv /\ NoneOpened
        BY <1>2, <2>1 DEF IInv, CodesInv, NoneOpened
      <3> QED
        BY <2>1, <3>1, CodesUntouched
    <2> QED
      BY <2>2, <2>3, <2>4 DEF IInv, CodesInv
  <1> QED
    BY <1>1, <1>2

LEMMA Invariant == Spec => []IInv
  BY InitInv, InvStep, PTL DEF Spec

(* Every table, token, challenge and call has its type, and no two accounts  *)
(* have one address.                                                         *)
THEOREM SignInTypes == Spec => []TypeOK
  <1>1. IInv => TypeOK
    <2> SUFFICES ASSUME IInv PROVE TypeOK
      OBVIOUS
    <2>1. \A u \in Users : rows[u] = None \/ rows[u] \in RowTo(made)
      BY RowFacts DEF IInv
    <2>2. \A u \in Users : rows[u] = None \/
             /\ rows[u].email \in Emails
             /\ rows[u].verified \in BOOLEAN
             /\ rows[u].key \in 0 .. made /\ rows[u].secret \in 0 .. made
             /\ rows[u].codes \subseteq (1 .. made) \X Codes
      BY <2>1 DEF RowTo, CodesTo
    <2>3. \A token \in partial : token.user \in Users /\ token.key \in 0 .. made
      BY DEF IInv, Types
    <2> QED
      BY <2>2, <2>3 DEF TypeOK, IInv, Types, UniqueAddresses, ChallengeTo
  <1> QED
    BY <1>1, Invariant, PTL

(* However many calls overlap, crash or fail: a challenge or a setup is      *)
(* answered with success at most once.                                       *)
THEOREM ChallengesAnsweredOnce == Spec => []ChallengesOnce
  <1>1. IInv => ChallengesOnce
    BY DEF IInv
  <1> QED
    BY <1>1, Invariant, PTL

(* However the renewals of any number of sign-ins mix, a passkey that was    *)
(* registered is lost only by one that fails or is cut off.                  *)
THEOREM PasskeysStay == Spec => []PasskeysKept
  <1>1. IInv => PasskeysKept
    BY DEF IInv
  <1> QED
    BY <1>1, Invariant, PTL

(* However the first sign-ins of an identity overlap or fail, and whichever  *)
(* addresses its accounts take on later: it has at most one account that was *)
(* made under its address and that its address or its link still leads to.   *)
(* An account that changed its address while it was not linked, as after a   *)
(* statement that links it failed, does not count: there may be a second one.*)
THEOREM IdentityHasOneAccount == Spec => []OneAccountPerIdentity
  <1>1. IInv => OneAccountPerIdentity
    BY OneAccount DEF IInv
  <1> QED
    BY <1>1, Invariant, PTL

(* However logins, setups and changes of password, mark and address overlap: *)
(* as long as no write of a row undid another one, a recovery code signs in  *)
(* once and goes with its setup.                                             *)
THEOREM CodesSignInOnce == Spec => []RecoveryCodesAreSpent
  <1>1. IInv => RecoveryCodesAreSpent
    BY DEF IInv, CodesOf, RecoveryCodesAreSpent
  <1> QED
    BY <1>1, Invariant, PTL
=============================================================================
