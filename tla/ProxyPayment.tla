----------------------------- MODULE ProxyPayment -----------------------------
(***************************************************************************)
(* Paying for an HTTP proxy: ProxyPaymentLoop on the client's node, and    *)
(* handle_payment_request on the provider's.                               *)
(*                                                                         *)
(* Every ten seconds the client compares what it has received through the  *)
(* proxy with what it has paid, asks the provider how much to send and for *)
(* a payment reference, sends the money, records it, and reports it.  Both *)
(* requests can be lost, and can reach the provider after the client has   *)
(* given up on them, or after its loop is dead: the loop runs in a task of *)
(* its own, which waits for ever on a network loop that has stopped, and   *)
(* ends with a panic of its own.  The client's process can end at any      *)
(* point, and is then started again with the tables as they are.           *)
(*                                                                         *)
(* Amounts are in satoshi; the fee per kB is a fraction of one, and fees   *)
(* are rounded.  The two nodes count the data on their own, and the counts *)
(* may differ in either direction: that is what the thresholds are for.    *)
(***************************************************************************)
EXTENDS Naturals

CONSTANTS
    Clients,      \* client ids, one for each HTTPProxyProvideRequest
    Refs,         \* payment references (uuids)
    None,
    RateNum,      \* the fee per kB is RateNum / RateDen satoshi
    RateDen,
    Threshold,    \* PROXY_TERMINATION_PD_THRESHOLD, FEE_OWED_PD_ALLOWED and
                  \* DATA_TRANSFER_PD_ALLOWED, which are equal
    ClientKbs,    \* the values of the client's count of kB that occur
    ProviderKbs,  \* the values of the provider's
    DbErrors      \* may a statement on a table fail (database locked)?

ASSUME PaymentAssumption ==
    /\ RateNum \in Nat /\ RateDen \in Nat \ {0} /\ Threshold \in Nat
    /\ ClientKbs \subseteq Nat /\ 0 \in ClientKbs
    /\ ProviderKbs \subseteq Nat /\ 0 \in ProviderKbs
    /\ DbErrors \in BOOLEAN

VARIABLES
    cpc,      \* the payment loop of a client; "halted": it has no next tick
    cur,      \* the payment it is making: reference and amount, or None
    cKb,      \* proxy_sessions: data_transferred_kb
    cSent,    \* proxy_sessions: total_fee_sent_unconfirmed
    wire,     \* the request it waits for: the request, its answer, or None
    late,     \* requests their clients have given up on
    pKb,      \* proxy_clients: data_transferred_kb
    pRecv,    \* proxy_clients: total_fee_received_unconfirmed
    row,      \* the provider's payments: the status of a reference's row
    issued,   \* the references the provider has given out
    paid,     \* the wallets: who has sent how much for a reference, or None
    spent,    \* .. and what a client has sent in all
    settled   \* history: what a client has paid and been told is credited

clientVars   == <<cpc, cur, cKb, cSent>>
providerVars == <<pKb, pRecv, row, issued>>
wallet == <<paid, spent>>
vars == <<clientVars, wire, late, providerVars, wallet, settled>>

Amounts  == [ref : Refs, amount : Nat]
PreRequests == [kind : {"pre"}, client : Clients, fee : Nat, kb : ClientKbs]
Notifications == [kind : {"note"}, client : Clients, ref : Refs, amount : Nat]
Answers == [kind : {"accepted"}, ref : Refs, amount : Nat]
             \cup [kind : {"null", "error"}]

ASSUME NoneAssumption ==
    None \notin Amounts \cup PreRequests \cup Notifications \cup Answers
                 \cup [by : Clients, amount : Nat]

TypeOK ==
    /\ cpc \in [Clients -> {"none", "offered", "idle", "pre", "pay", "insert",
                            "update", "note", "halted"}]
    /\ cur \in [Clients -> Amounts \cup {None}]
    /\ cKb \in [Clients -> ClientKbs]
    /\ cSent \in [Clients -> Nat]
    /\ wire \in [Clients -> PreRequests \cup Notifications \cup Answers \cup {None}]
    /\ late \subseteq PreRequests \cup Notifications
    /\ pKb \in [Clients -> ProviderKbs]
    /\ pRecv \in [Clients -> Nat]
    /\ row \in [Refs -> {"none", "awaiting", "pending"}]
    /\ issued \subseteq Refs
    /\ paid \in [Refs -> [by : Clients, amount : Nat] \cup {None}]
    /\ spent \in [Clients -> Nat]
    /\ settled \in [Clients -> Nat]
    /\ \A c \in Clients :
         /\ (cur[c] = None) <=> (cpc[c] \in {"none", "offered", "idle", "pre", "halted"})
         /\ (wire[c] = None) <=> (cpc[c] \notin {"pre", "note"})

Init ==
    /\ cpc = [c \in Clients |-> "none"]
    /\ cur = [c \in Clients |-> None]
    /\ cKb = [c \in Clients |-> 0] /\ cSent = [c \in Clients |-> 0]
    /\ wire = [c \in Clients |-> None] /\ late = {}
    /\ pKb = [c \in Clients |-> 0] /\ pRecv = [c \in Clients |-> 0]
    /\ row = [r \in Refs |-> "none"] /\ issued = {}
    /\ paid = [r \in Refs |-> None] /\ spent = [c \in Clients |-> 0]
    /\ settled = [c \in Clients |-> 0]

-----------------------------------------------------------------------------
(* Fees.                                                                   *)

\* Utils::round of n / d, halves upwards.
Round(n, d) == (2 * n + d) \div (2 * d)

\* get_fee_owed of both tables: max(0, round(kb * rate - settled)).
FeeOwed(kb, fees) ==
    IF kb * RateNum > fees * RateDen
    THEN Round(kb * RateNum - fees * RateDen, RateDen) ELSE 0

ClientOwes(c) == FeeOwed(cKb[c], cSent[c])

\* Variant of ProviderDemands: what has been received is not subtracted.
ProviderDemandsAll(c) == FeeOwed(pKb[c], 0)

ProviderDemands(c) == FeeOwed(pKb[c], pRecv[c])

\* get_percent_diff(value, target) > Threshold.  Nothing differs from 0.
FarFrom(value, target) ==
    LET diff == IF value > target THEN value - target ELSE target - value
    IN  target # 0 /\ 100 * diff > Threshold * target

-----------------------------------------------------------------------------
(* A session, and the data that goes through the proxy.                    *)

\* HTTPProxyProvideRequest: the provider adds a row for a new client.
OfferProxy(c) ==
    /\ cpc[c] = "none"
    /\ cpc' = [cpc EXCEPT ![c] = "offered"]
    /\ UNCHANGED <<cur, cKb, cSent, wire, late, providerVars, wallet, settled>>

\* connect: the answer arrives, and the client adds a row for the session.  If
\* it does not arrive, nobody ever uses the row the provider has added.
OpenSession(c) ==
    /\ cpc[c] = "offered"
    /\ cpc' = [cpc EXCEPT ![c] = "idle"]
    /\ UNCHANGED <<cur, cKb, cSent, wire, late, providerVars, wallet, settled>>

\* The client counts the body of a response.
ClientCounts(c) ==
    /\ cpc[c] \notin {"none", "offered"}
    /\ \E kb \in ClientKbs : kb > cKb[c] /\ cKb' = [cKb EXCEPT ![c] = kb]
    /\ UNCHANGED <<cpc, cur, cSent, wire, late, providerVars, wallet, settled>>

\* The provider does; nothing makes it do so.
ProviderCounts(c) ==
    /\ cpc[c] # "none"
    /\ \E kb \in ProviderKbs : kb > pKb[c] /\ pKb' = [pKb EXCEPT ![c] = kb]
    /\ UNCHANGED <<clientVars, wire, late, pRecv, row, issued, wallet, settled>>

-----------------------------------------------------------------------------
(* ProxyPaymentLoop::process_payment.                                      *)

\* A tick of the interval; there is nothing to do without a fee to pay.
StartPayment(c) ==
    /\ cpc[c] = "idle" /\ ClientOwes(c) > 0
    /\ cpc' = [cpc EXCEPT ![c] = "pre"]
    /\ wire' = [wire EXCEPT ![c] = [kind |-> "pre", client |-> c,
                                    fee |-> ClientOwes(c), kb |-> cKb[c]]]
    /\ UNCHANGED <<cur, cKb, cSent, late, providerVars, wallet, settled>>

\* The amount is the provider's: it is not compared with anything.
Accepted(c) ==
    /\ cpc[c] = "pre" /\ wire[c].kind = "accepted"
    /\ cpc' = [cpc EXCEPT ![c] = "pay"]
    /\ cur' = [cur EXCEPT ![c] = [ref |-> wire[c].ref, amount |-> wire[c].amount]]
    /\ wire' = [wire EXCEPT ![c] = None]
    /\ UNCHANGED <<cKb, cSent, late, providerVars, wallet, settled>>

\* Variant of Return: the payment that is over is kept.
ReturnKeepsPayment(c) ==
    /\ cpc' = [cpc EXCEPT ![c] = "idle"]
    /\ UNCHANGED <<cur, cKb, cSent, providerVars, wallet>>

\* The payment attempt is over, one way or another.
Leaves(c, st) ==
    /\ cpc' = [cpc EXCEPT ![c] = st]
    /\ cur' = [cur EXCEPT ![c] = None]
    /\ UNCHANGED <<cKb, cSent, providerVars, wallet>>

\* process_payment returns, until the next tick.
Return(c) == Leaves(c, "idle")

Refused(c) ==
    /\ cpc[c] = "pre" /\ wire[c].kind = "error"
    /\ Return(c)
    /\ wire' = [wire EXCEPT ![c] = None]
    /\ UNCHANGED <<late, settled>>

\* send_to_address: bitcoind refuses to send nothing, or for its own reasons.
SendMoney(c) ==
    /\ cpc[c] = "pay"
    /\ \/ /\ cur[c].amount > 0
          /\ cpc' = [cpc EXCEPT ![c] = "insert"]
          /\ paid' = [paid EXCEPT ![cur[c].ref] = [by |-> c, amount |-> cur[c].amount]]
          /\ spent' = [spent EXCEPT ![c] = @ + cur[c].amount]
          /\ UNCHANGED <<cur, cKb, cSent, providerVars>>
       \/ Return(c)
    /\ UNCHANGED <<wire, late, settled>>

\* insert_payment_info, the client's own record of the payment.
InsertPayment(c) ==
    /\ cpc[c] = "insert"
    /\ \/ /\ cpc' = [cpc EXCEPT ![c] = "update"]
          /\ UNCHANGED <<cur, cKb, cSent, providerVars, wallet>>
       \/ DbErrors /\ Return(c)
    /\ UNCHANGED <<wire, late, settled>>

Notification(c) ==
    [kind |-> "note", client |-> c, ref |-> cur[c].ref, amount |-> cur[c].amount]

\* Variant of UpdateSession: the notification does not wait for the table.
UpdateSessionIgnored(c) ==
    /\ cpc[c] = "update"
    /\ \/ cSent' = [cSent EXCEPT ![c] = @ + cur[c].amount]
       \/ DbErrors /\ UNCHANGED cSent
    /\ cpc' = [cpc EXCEPT ![c] = "note"]
    /\ wire' = [wire EXCEPT ![c] = Notification(c)]
    /\ UNCHANGED <<cur, cKb, late, providerVars, wallet, settled>>

\* update_total_fee_sent_unconfirmed, and the notification.
UpdateSession(c) ==
    /\ cpc[c] = "update"
    /\ \/ /\ cSent' = [cSent EXCEPT ![c] = @ + cur[c].amount]
          /\ cpc' = [cpc EXCEPT ![c] = "note"]
          /\ wire' = [wire EXCEPT ![c] = Notification(c)]
          /\ UNCHANGED <<cur, cKb, providerVars, wallet>>
       \/ DbErrors /\ Return(c) /\ UNCHANGED wire
    /\ UNCHANGED <<late, settled>>

\* The answer to the notification is not looked at.
Notified(c) ==
    /\ cpc[c] = "note" /\ wire[c].kind \in {"null", "error"}
    /\ Return(c)
    /\ wire' = [wire EXCEPT ![c] = None]
    /\ settled' = [settled EXCEPT ![c] =
                     @ + IF wire[c].kind = "null" THEN cur[c].amount ELSE 0]
    /\ UNCHANGED late

\* Variant of GiveUp: the loop waits for an answer that may be lost.
GiveUpNever(c) == FALSE /\ cpc' = cpc

\* A request that has not been handled may still be, later or never.
Abandon(c) ==
    /\ wire' = [wire EXCEPT ![c] = None]
    /\ late' = IF cpc[c] \in {"pre", "note"} /\ wire[c].kind \in {"pre", "note"}
               THEN late \cup {wire[c]} ELSE late
    /\ UNCHANGED settled

\* send_request fails: a timeout, or the connection is lost.
GiveUp(c) == cpc[c] \in {"pre", "note"} /\ Return(c) /\ Abandon(c)

Attempting == {"pre", "pay", "insert", "update", "note"}

\* send_request waits for ever for a network loop that has stopped, or its
\* expect panics on one that is gone; opening a table, reading the configuration
\* or the address of the wallet panics.  The loop has its task to itself.
LoopHalts(c) ==
    /\ cpc[c] \in Attempting \cup {"idle"}
    /\ Leaves(c, "halted") /\ Abandon(c)

\* The process of the client ends, and is started again.
Crash(c) == cpc[c] \in Attempting \cup {"halted"} /\ Return(c) /\ Abandon(c)

-----------------------------------------------------------------------------
(* RequestHandlerLoop::handle_payment_request.                             *)

\* The answer goes to a client that still waits for it.
Answer(m, a) ==
    \/ /\ wire[m.client] = m
       /\ wire' = [wire EXCEPT ![m.client] = a] /\ UNCHANGED late
    \/ m \in late /\ late' = late \ {m} /\ UNCHANGED wire

\* HTTPProxyPrePaymentRequest.  Claims that are far off are accepted too, but
\* the payment is not put in the table.  The two rejections are behind the same
\* threshold, and are never reached.
HandlePrePayment(m) ==
    /\ m.kind = "pre"
    /\ LET c == m.client
           fee == ProviderDemands(c)
           far == FarFrom(m.fee, fee) \/ FarFrom(m.kb, pKb[c])
       IN  \/ \E r \in Refs \ issued :
                /\ issued' = issued \cup {r}
                /\ row' = IF far THEN row ELSE [row EXCEPT ![r] = "awaiting"]
                /\ Answer(m, [kind |-> "accepted", ref |-> r, amount |-> fee])
           \/ /\ DbErrors
              /\ Answer(m, [kind |-> "error"])
              /\ UNCHANGED <<issued, row>>
    /\ UNCHANGED <<clientVars, pKb, pRecv, wallet, settled>>

\* Variant of Credit: the status of the payment is not updated.
CreditUnmarked(m) ==
    /\ pRecv' = [pRecv EXCEPT ![m.client] = @ + m.amount]
    /\ UNCHANGED row

Credit(m) ==
    /\ row' = [row EXCEPT ![m.ref] = "pending"]
    /\ pRecv' = [pRecv EXCEPT ![m.client] = @ + m.amount]

\* HTTPProxyPostPaymentNotification: the row of the reference, then that of the
\* client.  Each statement can be the one that fails.
HandleNotification(m) ==
    /\ m.kind = "note"
    /\ \/ /\ row[m.ref] # "none"
          /\ Credit(m)
          /\ Answer(m, [kind |-> "null"])
       \/ /\ DbErrors /\ row[m.ref] # "none"
          /\ row' = [row EXCEPT ![m.ref] = "pending"]
          /\ Answer(m, [kind |-> "error"])
          /\ UNCHANGED pRecv
       \/ /\ DbErrors \/ row[m.ref] = "none"
          /\ Answer(m, [kind |-> "error"])
          /\ UNCHANGED <<row, pRecv>>
    /\ UNCHANGED <<clientVars, pKb, issued, wallet, settled>>

-----------------------------------------------------------------------------
ClientStep(c) ==
    \/ StartPayment(c) \/ Accepted(c) \/ Refused(c) \/ SendMoney(c)
    \/ InsertPayment(c) \/ UpdateSession(c) \/ Notified(c) \/ GiveUp(c)

ProviderStep ==
    \E m \in late \cup ({wire[c] : c \in Clients} \ {None}) :
      HandlePrePayment(m) \/ HandleNotification(m)

Next ==
    \/ \E c \in Clients : \/ OfferProxy(c) \/ OpenSession(c)
                          \/ ClientCounts(c) \/ ProviderCounts(c)
                          \/ ClientStep(c) \/ LoopHalts(c) \/ Crash(c)
    \/ ProviderStep

Spec == Init /\ [][Next]_vars

\* The client's runtime polls its loop, and a request ends in an answer or an
\* error; one that does not is a step of LoopHalts.
FairSpec == Spec /\ \A c \in Clients : WF_vars(ClientStep(c))

-----------------------------------------------------------------------------
Ledger == INSTANCE PaymentLedger
            WITH reported <- {r \in Refs : row[r] = "pending"}, balance <- pRecv

\* Whatever is lost, late or fails, the payments of a proxy are those of
\* PaymentLedger: nothing is paid or credited twice under one reference, and a
\* client is credited with what it has paid.
ImplementsLedger == Ledger!Spec

\* The three accounts of a client are in step: the provider credits no more
\* than the session says was sent, and the session no more than has left the
\* wallet, in whatever order the statements, the requests and a crash fall.
AccountsInStep == \A c \in Clients : pRecv[c] <= cSent[c] /\ cSent[c] <= spent[c]

\* What a client has paid, and been told is credited, is never more than the
\* provider has metered: a client overpays only by payments whose notification
\* it has no answer to, or a bad one.
SettledWithinMeter == \A c \in Clients : settled[c] <= FeeOwed(pKb[c], 0)

\* What makes them inductive: a client has the request or the answer of its
\* step, ..
WireInv ==
    \A c \in Clients :
      /\ cpc[c] = "pre" => \/ wire[c] \in PreRequests /\ wire[c].client = c
                           \/ wire[c] \in Answers /\ wire[c].kind # "null"
      /\ cpc[c] = "note" => \/ wire[c] = Notification(c)
                            \/ wire[c] \in Answers /\ wire[c].kind # "accepted"

InHand(c, r) ==
    \/ cur[c] # None /\ cur[c].ref = r
    \/ cpc[c] = "pre" /\ wire[c].kind = "accepted" /\ wire[c].ref = r

Held(c, r) ==
    /\ r \in issued
    /\ \A d \in Clients : InHand(d, r) => d = c
    /\ paid[r] = IF cpc[c] \in {"insert", "update", "note"}
                 THEN [by |-> c, amount |-> cur[c].amount] ELSE None
    /\ row[r] = "pending" => cpc[c] = "note" /\ wire[c] # Notification(c)

Unreported(m) ==
    /\ paid[m.ref] = [by |-> m.client, amount |-> m.amount]
    /\ row[m.ref] # "pending"
    /\ \A c \in Clients : ~InHand(c, m.ref)

\* .. a reference is in the hand of one client, until its notification has been
\* handled or is late, and its payment is that of the client, ..
RefInv ==
    /\ \A r \in Refs : /\ paid[r] # None \/ row[r] # "none" => r \in issued
                       /\ row[r] = "pending" => paid[r] # None
    /\ \A c \in Clients, r \in Refs : InHand(c, r) => Held(c, r)
    /\ \A m \in late : m.kind = "note" => Unreported(m)

\* .. the wallet is ahead of the session by the payment that is being recorded, ..
SpentInv ==
    \A c \in Clients :
      cSent[c] + (IF cpc[c] \in {"insert", "update"} THEN cur[c].amount ELSE 0) <= spent[c]

\* .. and what a client is asked for was metered and not yet credited.
MeterInv ==
    \A c \in Clients :
      /\ settled[c] + (IF cpc[c] = "note" /\ wire[c].kind = "null"
                       THEN cur[c].amount ELSE 0) <= pRecv[c]
      /\ cur[c] # None => settled[c] + cur[c].amount <= FeeOwed(pKb[c], 0)
      /\ cpc[c] = "pre" /\ wire[c].kind = "accepted" =>
           settled[c] + wire[c].amount <= FeeOwed(pKb[c], 0)

\* A payment attempt ends, whatever is lost, refused or fails on either side, and
\* the loop comes back to its next tick, unless the network loop has left it
\* waiting or its task has panicked.
AttemptEnds ==
    \A c \in Clients : cpc[c] \in Attempting ~> cpc[c] \in {"idle", "halted"}
=============================================================================
