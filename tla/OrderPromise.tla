---------------------------- MODULE OrderPromise ----------------------------
(***************************************************************************)
(* What an order path promises about one order: the account is owed it,    *)
(* then it is committed on record, and only then may it be dealt, once. A  *)
(* commitment that is proved void (nothing was sent) is owed again; one    *)
(* that is merely unanswered never is.                                     *)
(***************************************************************************)
EXTENDS Naturals

CONSTANT Orders

VARIABLES
    promise,  \* promise[o]: owed, committed or opened
    dealt     \* dealt[o]: how many deals the broker has made for it

Init ==
    /\ promise = [o \in Orders |-> "owed"]
    /\ dealt = [o \in Orders |-> 0]

Commit(o) ==
    /\ promise[o] = "owed"
    /\ promise' = [promise EXCEPT ![o] = "committed"]
    /\ UNCHANGED dealt

Void(o) ==
    /\ promise[o] = "committed"
    /\ promise' = [promise EXCEPT ![o] = "owed"]
    /\ UNCHANGED dealt

Open(o) ==
    /\ promise[o] = "committed"
    /\ promise' = [promise EXCEPT ![o] = "opened"]
    /\ dealt' = [dealt EXCEPT ![o] = 1]

Next == \E o \in Orders : Commit(o) \/ Void(o) \/ Open(o)

Spec == Init /\ [][Next]_<<promise, dealt>>
=============================================================================
