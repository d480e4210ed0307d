------------------------ MODULE MCRecordConcurrent -------------------------
(***************************************************************************)
(* Two requests at a time, which may fail anywhere.  A comment belongs to  *)
(* a post (Cascade) that may pin it (Cascade), so that a delete can go     *)
(* round and round until the stack is gone; the post wears a tag (SetNull) *)
(* and the comment may keep the tag from being deleted (Restrict).         *)
(***************************************************************************)
EXTENDS RecordService, TLC

CONSTANTS r1, r2

MCRequests == {r1, r2}

MCHomeOf == [i \in Ids |-> CASE i = "p" -> "post" [] i = "c" -> "comment" [] i = "t" -> "tag"]

Options(owner, target, action) ==
    [owner |-> owner, target |-> target, on_delete |-> action, max_select |-> 1]

MCRelation ==
    [f \in Relations |->
        CASE f = "post"   -> Options("comment", "post", "Cascade")
          [] f = "pinned" -> Options("post", "comment", "Cascade")
          [] f = "worn"   -> [Options("post", "tag", "SetNull") EXCEPT !.max_select = 0]
          [] f = "kept"   -> Options("comment", "tag", "Restrict")]

MCScanOrder == <<"post", "worn", "kept", "pinned">>

MCSymmetry == Permutations(MCRequests)
============================================================================
