---------------------------- MODULE TrustedBook ----------------------------
(***************************************************************************)
(* What the full-L2 recorder promises the feature loop about each symbol:   *)
(* either nothing is shown, or exactly the exchange's book at an update the *)
(* exchange has made.  A shown book only moves forward; to move anywhere    *)
(* else it must first be withdrawn.                                         *)
(***************************************************************************)
EXTENDS LocalOrderBook

CONSTANT Symbols

VARIABLES
    head,   \* head[s]: the last update the exchange made to s
    shown   \* shown[s]: the book the recorder calls HEALTHY, or Nothing

Nothing == [id |-> NoId, levels |-> BookAt(0)]

ExchangeBook(n) == [id |-> n, levels |-> BookAt(n)]

Init == /\ head = [s \in Symbols |-> 0]
        /\ shown = [s \in Symbols |-> Nothing]

ExchangeUpdate(s) == /\ head[s] < MaxUpdate
                     /\ head' = [head EXCEPT ![s] = @ + 1]
                     /\ UNCHANGED shown

Withdraw(s) == /\ shown[s] # Nothing
               /\ shown' = [shown EXCEPT ![s] = Nothing]
               /\ UNCHANGED head

Show(s) == /\ shown[s] = Nothing
           /\ \E n \in 1..head[s] : shown' = [shown EXCEPT ![s] = ExchangeBook(n)]
           /\ UNCHANGED head

Advance(s) == /\ shown[s] # Nothing
              /\ \E n \in (shown[s].id + 1)..head[s] :
                     shown' = [shown EXCEPT ![s] = ExchangeBook(n)]
              /\ UNCHANGED head

Next == \E s \in Symbols : \/ ExchangeUpdate(s) \/ Withdraw(s)
                           \/ Show(s) \/ Advance(s)

vars == <<head, shown>>

Spec == Init /\ [][Next]_vars

=============================================================================
