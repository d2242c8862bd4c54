------------------------------ MODULE AppStack ------------------------------
(***************************************************************************)
(* What src/app/app.cpp promises the user: the apps form a stack.  An app  *)
(* is opened from the one on top, going back leaves the top one for the    *)
(* app it was opened from, and the launcher at the bottom is never left.   *)
(***************************************************************************)
EXTENDS Naturals, Sequences, SequencesExt

CONSTANTS Home, Opens   \* the launcher; the pairs <<app, app it offers>>

VARIABLE stack

Init == stack = <<Home>>

Open == \E pair \in Opens : /\ Last(stack) = pair[1]
                            /\ stack' = Append(stack, pair[2])

Back == Len(stack) > 1 /\ stack' = Front(stack)

Next == Open \/ Back

Spec == Init /\ [][Next]_stack
=============================================================================
