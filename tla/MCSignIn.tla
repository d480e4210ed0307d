----------------------------- MODULE MCSignIn -----------------------------
(* One family of calls at a time, each with what can get in its way.         *)
EXTENDS SignIn, TLC

CONSTANTS u1, u2, s1, s2, k1, k2, mail, mail2, noEmail, none

None0 == [expire |-> 0, password |-> 0, delete |-> 0, setup |-> 0, login |-> 0, mfa |-> 0,
          disable |-> 0, register |-> 0, begin |-> 0, oauth |-> 0, unlink |-> 0, crash |-> 0, address |-> 0]

Account(email) == [email |-> email, verified |-> FALSE, key |-> 0, secret |-> 0, codes |-> {}]
MCAddress == (s1 :> mail) @@ (s2 :> mail2)
One == [u \in Users |-> IF u = u1 THEN Account(mail) ELSE none]

\* Calls, passkeys and the users that do not exist in the beginning are alike.
Symmetry ==
    Permutations(Requests) \cup Permutations(Passkeys) \cup Permutations(Users \ {u1})

MCStarts ==
    {[rows |-> One, left |-> [None0 EXCEPT !.setup = 2, !.login = 1, !.mfa = 3,
                                           !.disable = 1, !.password = 1, !.expire = 1]],
     [rows |-> One, left |-> [None0 EXCEPT !.register = 1, !.begin = 3, !.expire = 1,
                                           !.delete = 1, !.crash = 1]],
     [rows |-> One, left |-> [None0 EXCEPT !.oauth = 2, !.unlink = 1, !.delete = 1,
                                           !.crash = 1, !.address = 1]],
     [rows |-> [u \in Users |-> none],
      left |-> [None0 EXCEPT !.oauth = 3, !.unlink = 1, !.address = 1]]}
=============================================================================
