---------------------------- MODULE CheckVerdict ----------------------------
(***************************************************************************)
(* What the script-check queue promises to the threads that connect        *)
(* blocks, whatever its workers do: one block is checked at a time, and    *)
(* the answer for a block is the conjunction of the checks handed in for   *)
(* that block, no check of it missing and none of another block mixed in.  *)
(* CheckQueue is shown to implement this specification.                    *)
(***************************************************************************)
CONSTANTS Checks,   \* the checks that may be handed in
          Bad,      \* those that fail when they are run
          Masters,  \* the threads that connect blocks
          Nobody    \* the owner of the queue between two blocks

VARIABLES owner,    \* the thread whose block is being checked
          good,     \* no check handed in for this block fails
          verdict   \* what each thread was told about this block

vars == <<owner, good, verdict>>

Verdicts == {"none", "good", "bad"}

Init ==
    /\ owner = Nobody
    /\ good = TRUE
    /\ verdict = [m \in Masters |-> "none"]

Begin(m) ==
    /\ owner = Nobody
    /\ owner' = m
    /\ UNCHANGED <<good, verdict>>

Submit(S) ==
    /\ owner # Nobody
    /\ verdict[owner] = "none"
    /\ good' = (good /\ S \cap Bad = {})
    /\ UNCHANGED <<owner, verdict>>

Answer ==
    /\ owner # Nobody
    /\ verdict[owner] = "none"
    /\ verdict' = [verdict EXCEPT ![owner] = IF good THEN "good" ELSE "bad"]
    /\ good' = TRUE
    /\ UNCHANGED owner

Release ==
    /\ owner # Nobody
    /\ verdict[owner] # "none"
    /\ owner' = Nobody
    /\ verdict' = [verdict EXCEPT ![owner] = "none"]
    /\ UNCHANGED good

Next ==
    \/ \E m \in Masters : Begin(m)
    \/ \E S \in SUBSET Checks : Submit(S)
    \/ Answer
    \/ Release

Spec == Init /\ [][Next]_vars
=============================================================================
