---------------------------- MODULE BoundedReads ----------------------------
(***************************************************************************)
(* What a reader of the broker is promised: the answer it is served was    *)
(* given by the broker no longer ago than the cache's maximal age.  An     *)
(* answer is known by the time it was given; which caches, locks and       *)
(* invalidations stand between reader and broker is not its concern.       *)
(***************************************************************************)
EXTENDS Integers

CONSTANTS Caches,      \* kinds of answers
          MaxAge       \* MaxAge[c]: how old an answer of kind c may be

VARIABLES now,         \* the clock
          served       \* the last answer a read got, and of which kind

vars == <<now, served>>

Nothing == [kind |-> "nothing", at |-> 0]

Init ==
    /\ now = 0
    /\ served = Nothing

Advance ==
    /\ now' = now + 1
    /\ UNCHANGED served

Serve(c) ==
    /\ \E at \in (now - MaxAge[c])..now :
          served' = [kind |-> c, at |-> at]
    /\ UNCHANGED now

Next == Advance \/ \E c \in Caches : Serve(c)

Spec == Init /\ [][Next]_vars
=============================================================================
