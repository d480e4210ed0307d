------------------------------- MODULE MCOtp -------------------------------
(***************************************************************************)
(* Two concurrent requests, two ids and two codes: enough for two logins   *)
(* to race for one code and for one request's cleanup to meet the code of  *)
(* another.  One address, known or not, and two seconds of clock.          *)
(***************************************************************************)
EXTENDS Otp, TLC

CONSTANTS c1, c2, i1, i2, k1, k2

MCCalls == {c1, c2}
MCOtpIds == {i1, i2}
MCCodes == {k1, k2}

MCSymmetry ==
    Permutations(MCCalls) \cup Permutations(MCOtpIds) \cup Permutations(MCCodes)
============================================================================
