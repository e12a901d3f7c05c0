---------------------------- MODULE PaymentLedger ----------------------------
(***************************************************************************)
(* What the payments between the clients of a proxy and its provider come  *)
(* to.  Money is sent for a payment reference at most once; a reference is *)
(* reported to the provider at most once, after the money has been sent;   *)
(* and a report adds to the balance of the client that has paid exactly    *)
(* what it has paid, or nothing.  ProxyPayment is shown to implement it.   *)
(***************************************************************************)
EXTENDS Naturals

CONSTANTS Clients, Refs, None

VARIABLES
    paid,      \* who has sent how much for a reference, or None
    reported,  \* the references that have been reported
    balance    \* what a client has been credited with

vars == <<paid, reported, balance>>

Payments == [by : Clients, amount : Nat \ {0}]

Init ==
    /\ paid = [r \in Refs |-> None]
    /\ reported = {}
    /\ balance = [c \in Clients |-> 0]

Pay(r) ==
    /\ paid[r] = None
    /\ paid'[r] \in Payments
    /\ paid' = [paid EXCEPT ![r] = paid'[r]]
    /\ UNCHANGED <<reported, balance>>

Report(r) ==
    /\ paid[r] # None /\ r \notin reported
    /\ reported' = reported \cup {r}
    /\ \/ balance' = [balance EXCEPT ![paid[r].by] = @ + paid[r].amount]
       \/ UNCHANGED balance
    /\ UNCHANGED paid

Next == \E r \in Refs : Pay(r) \/ Report(r)

Spec == Init /\ [][Next]_vars
=============================================================================
