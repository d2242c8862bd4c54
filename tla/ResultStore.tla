---------------------------- MODULE ResultStore ----------------------------
(***************************************************************************)
(* What the storage result pool promises to the main loop: results come    *)
(* out in the order they went in, each one exactly once, and a result that *)
(* is being dispatched or that an app has kept never changes until it is   *)
(* given back.  There are no slots, generations or reference counts here.  *)
(***************************************************************************)
EXTENDS Naturals, Sequences

CONSTANTS
    Capacity,   \* results that may wait for the main loop
    Contents,   \* the results a worker can produce
    NoContent

VARIABLES
    pending,    \* produced results, oldest first
    current,    \* the result being dispatched to the foreground app
    kept        \* the result the app holds across dispatches

storeVars == <<pending, current, kept>>

Init ==
    /\ pending = <<>>
    /\ current = NoContent
    /\ kept = NoContent

Produce ==
    /\ Len(pending) < Capacity
    /\ \E c \in Contents : pending' = Append(pending, c)
    /\ UNCHANGED <<current, kept>>

Deliver ==
    /\ current = NoContent
    /\ pending # <<>>
    /\ current' = Head(pending)
    /\ pending' = Tail(pending)
    /\ UNCHANGED kept

Keep ==
    /\ current # NoContent
    /\ kept' = current
    /\ UNCHANGED <<pending, current>>

Drop ==
    /\ kept' = NoContent
    /\ UNCHANGED <<pending, current>>

Finish ==
    /\ current # NoContent
    /\ current' = NoContent
    /\ UNCHANGED <<pending, kept>>

Next == Produce \/ Deliver \/ Keep \/ Drop \/ Finish

Spec == Init /\ [][Next]_storeVars
=============================================================================
