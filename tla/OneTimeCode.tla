----------------------------- MODULE OneTimeCode -----------------------------
(***************************************************************************)
(* What a single-use code promises: it is handed out once, it is spent or  *)
(* voided but never both, and spending it grants at most one thing.        *)
(***************************************************************************)
EXTENDS Naturals

CONSTANT Code

VARIABLES
    code,      \* the state of each code
    granted    \* how many grants each code has led to

vars == <<code, granted>>

Init ==
    /\ code = [c \in Code |-> "unissued"]
    /\ granted = [c \in Code |-> 0]

Issue(c) ==
    /\ code[c] = "unissued"
    /\ code' = [code EXCEPT ![c] = "open"]
    /\ UNCHANGED granted

Spend(c) ==
    /\ code[c] = "open"
    /\ code' = [code EXCEPT ![c] = "spent"]
    /\ UNCHANGED granted

Void(c) ==
    /\ code[c] = "open"
    /\ code' = [code EXCEPT ![c] = "void"]
    /\ UNCHANGED granted

\* The spender may fail before it gets here: a spent code need not lead to a grant.
Grant(c) ==
    /\ code[c] = "spent"
    /\ granted[c] = 0
    /\ granted' = [granted EXCEPT ![c] = 1]
    /\ UNCHANGED code

Next == \E c \in Code : Issue(c) \/ Spend(c) \/ Void(c) \/ Grant(c)

Spec == Init /\ [][Next]_vars

==============================================================================
