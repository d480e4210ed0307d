----------------------------- MODULE MCRealtime -----------------------------
(***************************************************************************)
(* One connection, two concurrent record handlers, two records and a       *)
(* channel that holds two events: the third change makes a reader that     *)
(* stands still lag.                                                       *)
(***************************************************************************)
EXTENDS Realtime
=============================================================================
