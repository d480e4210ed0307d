------------------------------ MODULE MCBatch ------------------------------
(***************************************************************************)
(* One batch at a time, which may fail anywhere.  Two comments belong to a *)
(* post (Cascade) and reply to one another (Cascade); the post features    *)
(* comments (SetNull, any number) and pins one (Restrict).  A comment may  *)
(* hang on the post, on the other comment or on both, and replies may form *)
(* a cycle.                                                                *)
(***************************************************************************)
EXTENDS Batch

MCHomeOf == [i \in Ids |-> IF i = "p" THEN "post" ELSE "comment"]

Options(owner, target, action, max) ==
    [owner |-> owner, target |-> target, on_delete |-> action, max_select |-> max]

MCRelation ==
    [f \in Relations |->
        CASE f = "post"     -> Options("comment", "post", "Cascade", 1)
          [] f = "featured" -> Options("post", "comment", "SetNull", 0)
          [] f = "pinned"   -> Options("post", "comment", "Restrict", 1)
          [] f = "reply"    -> Options("comment", "comment", "Cascade", 1)]

MCScanOrder == <<"post", "featured", "reply", "pinned">>
============================================================================
