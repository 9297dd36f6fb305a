----------------------------- MODULE MCProject ------------------------------
(* Casts: each is a small story in which two sides can go wrong.           *)
EXTENDS Tasks, TLC
CONSTANTS t1, p1, p2, p3, m1, m2, r1, r2, w1, w2

Found(a, b) == p1 :> a @@ p2 :> b @@ p3 :> "none"
Base ==
    [of |-> r1 :> m1 @@ r2 :> m1,
     owner |-> m1 :> p1 @@ m2 :> p1, holder |-> w1 :> p1 @@ w2 :> p2,
     kind |-> r1 :> "push" @@ r2 :> "commit", there |-> {},
     join |-> Found("approved", "approved"), mode |-> "personal",
     msg |-> m1 :> "queued" @@ m2 :> "queued", ends |-> {"completed"},
     tasks |-> {}, acts |-> 1, calls |-> r1 :> 1 @@ r2 :> 1]
Apart == r1 :> m1 @@ r2 :> m2

MCCasts ==
    { \* a push and a commit asked in one turn
      [Base EXCEPT !.acts = 0, !.join = Found("approved", "none")],
      \* two windows of the sender
      [Base EXCEPT !.holder = w1 :> p1 @@ w2 :> p1, !.calls = r1 :> 1 @@ r2 :> 0],
      \* a commit run again, and the window of another member
      [Base EXCEPT !.calls = r1 :> 0 @@ r2 :> 2],
      \* turns of two senders
      [Base EXCEPT !.of = Apart, !.owner = m1 :> p2 @@ m2 :> p1, !.calls = r1 :> 0 @@ r2 :> 1],
      \* a document in each of two turns, the second already there
      [Base EXCEPT !.of = Apart, !.kind = r1 :> "append" @@ r2 :> "append", !.there = {r2},
                   !.acts = 0, !.join = Found("approved", "none")],
      \* the message is retried
      [Base EXCEPT !.kind = r1 :> "create" @@ r2 :> "commit", !.ends = {"needs-review"},
                   !.calls = r1 :> 1 @@ r2 :> 0, !.join = Found("approved", "none")],
      \* two members at the task board
      [Base EXCEPT !.tasks = {t1}, !.msg = m1 :> "queued" @@ m2 :> "none", !.mode = "host",
                   !.owner = m1 :> p1 @@ m2 :> p2, !.holder = w1 :> p3 @@ w2 :> p3,
                   !.calls = r1 :> 0 @@ r2 :> 0, !.acts = 4,
                   !.ends = {"completed", "failed", "needs-review"}],
      \* members come and go, in host mode at first
      [Base EXCEPT !.join = Found("denied", "none"), !.mode = "host", !.acts = 5,
                   !.calls = r1 :> 1 @@ r2 :> 0]}
=============================================================================
