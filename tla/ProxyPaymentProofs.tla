-------------------------- MODULE ProxyPaymentProofs --------------------------
(***************************************************************************)
(* Proofs about the payments of a proxy, for any number of clients, of     *)
(* payment references and of messages that are late, any fee rate and any  *)
(* counts of data: the protocol implements PaymentLedger, the accounts of  *)
(* client, provider and wallet stay in step, and what both sides have      *)
(* settled is within what the provider has metered.                        *)
(***************************************************************************)
EXTENDS ProxyPayment, TLAPS

IInv == TypeOK /\ WireInv /\ RefInv /\ SpentInv /\ MeterInv /\ SettledWithinMeter

-----------------------------------------------------------------------------
(* Fees.                                                                   *)

LEMMA RoundNat ==
    ASSUME NEW n \in Nat, NEW d \in Nat \ {0} PROVE Round(n, d) \in Nat
BY DEF Round

LEMMA RoundMonotone ==
    ASSUME NEW n \in Nat, NEW m \in Nat, NEW d \in Nat \ {0}, n <= m
    PROVE  Round(n, d) <= Round(m, d)
<1>1. 2 * n + d \in Nat /\ 2 * m + d \in Nat /\ 2 * n + d <= 2 * m + d /\ 2 * d \in Nat \ {0}
  OBVIOUS
<1>2. \A a, c \in Nat, b \in Nat \ {0} : a <= c => a \div b <= c \div b
  OBVIOUS
<1> QED BY <1>1, <1>2 DEF Round

\* An integral part can be taken out of what is rounded.
LEMMA RoundShift ==
    ASSUME NEW n \in Nat, NEW d \in Nat \ {0}, NEW k \in Nat, k * d <= n
    PROVE  k + Round(n - k * d, d) = Round(n, d)
<1>1. k * d \in Nat /\ n - k * d \in Nat /\ 2 * d \in Nat \ {0} /\ 2 * n + d \in Nat
  OBVIOUS
<1>2. 2 * (n - k * d) + d = (2 * n + d) - k * (2 * d)
  OBVIOUS
<1>3. \A x, y \in Nat, c \in Nat \ {0} : y * c <= x => (x - y * c) \div c = (x \div c) - y
  OBVIOUS
<1>4. k * (2 * d) <= 2 * n + d
  OBVIOUS
<1>5. ((2 * n + d) - k * (2 * d)) \div (2 * d) = ((2 * n + d) \div (2 * d)) - k
  BY <1>1, <1>3, <1>4
<1>6. (2 * n + d) \div (2 * d) \in Nat
  BY <1>1
<1> QED BY <1>2, <1>5, <1>6 DEF Round

LEMMA FeeNat ==
    ASSUME NEW kb \in Nat, NEW f \in Nat PROVE FeeOwed(kb, f) \in Nat
<1>1. kb * RateNum \in Nat /\ f * RateDen \in Nat
  BY PaymentAssumption
<1>2. CASE kb * RateNum > f * RateDen
  <2>1. kb * RateNum - f * RateDen \in Nat
    BY <1>1, <1>2
  <2> QED BY <1>2, <2>1, RoundNat, PaymentAssumption DEF FeeOwed
<1> QED BY <1>1, <1>2 DEF FeeOwed

\* The fee for all the data does not go down when more is counted.
LEMMA FeeMonotone ==
    ASSUME NEW kb \in Nat, NEW more \in Nat, kb <= more
    PROVE  FeeOwed(kb, 0) <= FeeOwed(more, 0)
<1>1. /\ kb * RateNum \in Nat /\ more * RateNum \in Nat
      /\ kb * RateNum <= more * RateNum /\ 0 * RateDen = 0
  BY PaymentAssumption
<1>2. CASE kb * RateNum > 0
  BY <1>1, <1>2, RoundMonotone, PaymentAssumption DEF FeeOwed
<1>3. CASE ~(kb * RateNum > 0)
  BY <1>1, <1>3, FeeNat DEF FeeOwed
<1> QED BY <1>2, <1>3

\* A fee that is owed beside what has been received adds up to the fee for all
\* the data: rounding costs neither side anything, as receipts are whole.
LEMMA FeeAddsUp ==
    ASSUME NEW kb \in Nat, NEW f \in Nat, FeeOwed(kb, f) > 0
    PROVE  f + FeeOwed(kb, f) = FeeOwed(kb, 0)
<1>1. kb * RateNum \in Nat /\ f * RateDen \in Nat /\ 0 * RateDen = 0
  BY PaymentAssumption
<1>2. kb * RateNum > f * RateDen
  BY <1>1 DEF FeeOwed
<1>3. f + Round(kb * RateNum - f * RateDen, RateDen) = Round(kb * RateNum, RateDen)
  BY <1>1, <1>2, RoundShift, PaymentAssumption
<1>4. kb * RateNum > 0 * RateDen /\ kb * RateNum - 0 * RateDen = kb * RateNum
  BY <1>1, <1>2
<1> QED BY <1>2, <1>3, <1>4 DEF FeeOwed

-----------------------------------------------------------------------------
(* Messages.                                                               *)

LEMMA MessageFacts ==
    /\ \A m \in PreRequests : /\ m.kind = "pre" /\ m.client \in Clients
                              /\ m.fee \in Nat /\ m.kb \in ClientKbs /\ m # None
    /\ \A m \in Notifications : /\ m.kind = "note" /\ m.client \in Clients
                                /\ m.ref \in Refs /\ m.amount \in Nat /\ m # None
    /\ \A m \in Answers : /\ m.kind \in {"accepted", "null", "error"} /\ m # None
                          /\ m.kind = "accepted" => m.ref \in Refs /\ m.amount \in Nat
    /\ \A a \in Amounts : a.ref \in Refs /\ a.amount \in Nat /\ a # None
BY NoneAssumption DEF PreRequests, Notifications, Answers, Amounts

LEMMA Messages ==
    /\ \A c \in Clients, f \in Nat, k \in ClientKbs :
         [kind |-> "pre", client |-> c, fee |-> f, kb |-> k] \in PreRequests
    /\ \A c \in Clients, r \in Refs, a \in Nat :
         [kind |-> "note", client |-> c, ref |-> r, amount |-> a] \in Notifications
    /\ \A r \in Refs, a \in Nat : [kind |-> "accepted", ref |-> r, amount |-> a] \in Answers
    /\ [kind |-> "null"] \in Answers /\ [kind |-> "error"] \in Answers
    /\ \A r \in Refs, a \in Nat : [ref |-> r, amount |-> a] \in Amounts
BY DEF PreRequests, Notifications, Answers, Amounts

-----------------------------------------------------------------------------
(* The steps that leave the messages and the payment in hand alone.        *)

LEMMA InitInv == Init => IInv
<1> SUFFICES ASSUME Init PROVE IInv
  OBVIOUS
<1> USE DEF Init
<1>1. TypeOK
  BY PaymentAssumption DEF TypeOK
<1>2. WireInv
  BY DEF WireInv
<1>3. RefInv
  BY DEF RefInv, InHand, Held, Unreported
<1>0. \A c \in Clients : /\ cpc[c] = "none" /\ cur[c] = None /\ cSent[c] = 0 /\ spent[c] = 0
                         /\ settled[c] = 0 /\ pRecv[c] = 0 /\ pKb[c] = 0
  OBVIOUS
<1>4. SpentInv
  <2> SUFFICES ASSUME NEW c \in Clients
               PROVE  cSent[c] + (IF cpc[c] \in {"insert", "update"}
                                  THEN cur[c].amount ELSE 0) <= spent[c]
    BY DEF SpentInv
  <2> HIDE DEF Init
  <2> QED BY <1>0
<1>5. MeterInv
  <2> HIDE DEF Init
  <2> SUFFICES ASSUME NEW c \in Clients
               PROVE  /\ cpc[c] \notin {"note", "pre"} /\ cur[c] = None
                      /\ settled[c] + 0 <= pRecv[c]
    BY DEF MeterInv
  <2> QED BY <1>0
<1>6. SettledWithinMeter
  <2> HIDE DEF Init
  <2>1. FeeOwed(0, 0) \in Nat
    BY FeeNat
  <2>2. \A c \in Clients : settled[c] <= FeeOwed(pKb[c], 0)
    <3> TAKE c \in Clients
    <3>1. FeeOwed(pKb[c], 0) = FeeOwed(0, 0)
      BY <1>0
    <3> QED BY <1>0, <2>1, <3>1
  <2> QED BY <2>2 DEF SettledWithinMeter
<1> QED BY <1>1, <1>2, <1>3, <1>4, <1>5, <1>6 DEF IInv

LEMMA OpensInv ==
    ASSUME IInv, NEW c \in Clients, OfferProxy(c) \/ OpenSession(c) \/ ClientCounts(c)
    PROVE  IInv'
<1> USE DEF OfferProxy, OpenSession, ClientCounts, providerVars, wallet
<1>1. TypeOK'
  BY DEF IInv, TypeOK
<1>2. WireInv'
  BY DEF IInv, TypeOK, WireInv, Notification
<1>3. RefInv'
  BY DEF IInv, TypeOK, RefInv, InHand, Held, Unreported, Notification
<1>4. SpentInv'
  BY DEF IInv, TypeOK, SpentInv
<1>5. MeterInv'
  BY DEF IInv, TypeOK, MeterInv
<1>6. SettledWithinMeter'
  BY DEF IInv, SettledWithinMeter
<1> QED BY <1>1, <1>2, <1>3, <1>4, <1>5, <1>6 DEF IInv

LEMMA ProviderCountsInv ==
    ASSUME IInv, NEW c \in Clients, ProviderCounts(c)
    PROVE  IInv'
<1> USE DEF ProviderCounts, clientVars, wallet
<1>1. TypeOK'
  BY DEF IInv, TypeOK
<1>2. WireInv'
  BY DEF IInv, TypeOK, WireInv, Notification
<1>3. RefInv'
  BY DEF IInv, TypeOK, RefInv, InHand, Held, Unreported, Notification
<1>4. SpentInv'
  BY DEF IInv, TypeOK, SpentInv
<1>5. \A d \in Clients : /\ FeeOwed(pKb[d], 0) \in Nat /\ FeeOwed(pKb'[d], 0) \in Nat
                         /\ FeeOwed(pKb[d], 0) <= FeeOwed(pKb'[d], 0)
  <2> TAKE d \in Clients
  <2>1. PICK kb \in ProviderKbs : kb > pKb[c] /\ pKb' = [pKb EXCEPT ![c] = kb]
    OBVIOUS
  <2>2. pKb[d] \in Nat /\ pKb[c] \in Nat /\ kb \in Nat
    BY PaymentAssumption DEF IInv, TypeOK
  <2>3. pKb'[d] = IF d = c THEN kb ELSE pKb[d]
    BY <2>1 DEF IInv, TypeOK
  <2>4. pKb'[d] \in Nat /\ pKb[d] <= pKb'[d]
    BY <2>1, <2>2, <2>3
  <2> QED BY <2>2, <2>4, FeeMonotone, FeeNat
<1>6. MeterInv'
  BY <1>5, MessageFacts DEF IInv, TypeOK, MeterInv
<1>7. SettledWithinMeter'
  BY <1>5 DEF IInv, TypeOK, SettledWithinMeter
<1> QED BY <1>1, <1>2, <1>3, <1>4, <1>6, <1>7 DEF IInv

-----------------------------------------------------------------------------
(* The end of an attempt.                                                  *)

\* The step of a client has the kind of message it waits for.
LEMMA WireKinds ==
    ASSUME IInv, NEW c \in Clients, cpc[c] \in {"pre", "note"}
    PROVE  /\ wire[c] # None
           /\ wire[c].kind \in {"pre", "note"} =>
                wire[c] \in PreRequests \cup Notifications /\ wire[c].client = c
           /\ wire[c].kind = "note" => cpc[c] = "note" /\ wire[c] = Notification(c)
           /\ wire[c].kind = "pre" => cpc[c] = "pre"
           /\ wire[c].kind = "accepted" => cpc[c] = "pre"
           /\ wire[c].kind = "null" => cpc[c] = "note"
<1>1. cpc[c] = "note" => cur[c] \in Amounts
  BY DEF IInv, TypeOK
<1>2. cpc[c] = "note" => Notification(c) \in Notifications /\ Notification(c).client = c
  BY <1>1, MessageFacts, Messages DEF Notification
<1>3. CASE cpc[c] = "pre"
  BY <1>3, MessageFacts DEF IInv, TypeOK, WireInv
<1>4. CASE cpc[c] = "note"
  BY <1>4, <1>2, MessageFacts DEF IInv, TypeOK, WireInv
<1> QED BY <1>3, <1>4

\* Whatever ends an attempt, the client lets go of its reference; a request that
\* has not been answered is then late, and the only one to name the reference.
LEMMA LeavesInv ==
    ASSUME IInv, NEW c \in Clients, NEW st \in {"idle", "halted"}, Leaves(c, st),
           wire' = [wire EXCEPT ![c] = None],
           \/ late' = late
           \/ /\ cpc[c] \in {"pre", "note"} /\ wire[c].kind \in {"pre", "note"}
              /\ late' = late \cup {wire[c]},
           settled' \in [Clients -> Nat],
           \A d \in Clients : settled'[d] <= pRecv[d] /\ settled'[d] <= FeeOwed(pKb[d], 0),
           \A d \in Clients \ {c} : settled'[d] = settled[d]
    PROVE  IInv'
<1> USE DEF Leaves, providerVars, wallet
<1>0. late' = late \/ /\ late' = late \cup {wire[c]} /\ cpc[c] \in {"pre", "note"}
                      /\ wire[c] \in PreRequests \cup Notifications
                      /\ wire[c].kind = "note" => cpc[c] = "note" /\ wire[c] = Notification(c)
  BY WireKinds
<1>1. TypeOK'
  BY <1>0 DEF IInv, TypeOK
<1>2. WireInv'
  BY DEF IInv, TypeOK, WireInv, Notification
<1>3. RefInv'
  <2>1. \A d \in Clients, r \in Refs : InHand(d, r)' <=> d # c /\ InHand(d, r)
    BY DEF IInv, TypeOK, InHand
  <2>2. \A d \in Clients \ {c} : cpc'[d] = cpc[d] /\ cur'[d] = cur[d] /\ wire'[d] = wire[d]
                                /\ Notification(d)' = Notification(d)
    BY DEF IInv, TypeOK, Notification
  <2>3. ASSUME NEW m \in late', m.kind = "note"
        PROVE  Unreported(m)'
    <3>1. CASE m \in late
      <4>1. m.ref \in Refs
        BY <2>3, <3>1, MessageFacts DEF IInv, TypeOK
      <4> QED BY <2>3, <3>1, <4>1, <2>1 DEF IInv, RefInv, Unreported
    <3>2. CASE m \notin late
      <4>1. m = Notification(c) /\ wire[c] = m /\ cpc[c] = "note"
        BY <2>3, <3>2, <1>0
      <4>2. cur[c] \in Amounts /\ cur[c] # None
        BY <4>1, MessageFacts DEF IInv, TypeOK
      <4>3. m.ref = cur[c].ref /\ m.amount = cur[c].amount /\ m.client = c /\ m.ref \in Refs
        BY <4>1, <4>2, MessageFacts DEF Notification
      <4>4. InHand(c, m.ref)
        BY <4>2, <4>3 DEF InHand
      <4>5. /\ paid[m.ref] = [by |-> c, amount |-> cur[c].amount] /\ row[m.ref] # "pending"
            /\ \A d \in Clients : InHand(d, m.ref) => d = c
        BY <4>1, <4>3, <4>4 DEF IInv, RefInv, Held
      <4> QED BY <4>3, <4>5, <2>1 DEF Unreported
    <3> QED BY <3>1, <3>2
  <2> QED BY <2>1, <2>2, <2>3 DEF IInv, RefInv, Held
<1>4. SpentInv'
  <2> SUFFICES ASSUME NEW d \in Clients
               PROVE  (cSent[d] + (IF cpc[d] \in {"insert", "update"} THEN cur[d].amount ELSE 0)
                        <= spent[d])'
    BY DEF SpentInv
  <2>1. CASE d = c
    <3>1. cSent[c] + (IF cpc[c] \in {"insert", "update"} THEN cur[c].amount ELSE 0) <= spent[c]
      BY DEF IInv, SpentInv
    <3>2. cSent[c] \in Nat /\ spent[c] \in Nat /\ (cpc[c] \in {"insert", "update"} => cur[c].amount \in Nat)
      BY MessageFacts DEF IInv, TypeOK
    <3>3. cSent[c] + 0 <= spent[c]
      BY <3>1, <3>2
    <3>4. cpc'[c] = st
      BY DEF IInv, TypeOK
    <3> QED BY <2>1, <3>3, <3>4
  <2>2. CASE d # c
    <3>1. cpc'[d] = cpc[d] /\ cur'[d] = cur[d]
      BY <2>2 DEF IInv, TypeOK
    <3> QED BY <3>1 DEF IInv, SpentInv
  <2> QED BY <2>1, <2>2
<1>5. MeterInv'
  <2>0. settled'[c] \in Nat /\ settled'[c] <= pRecv[c]
    OBVIOUS
  <2>1. cpc'[c] = st /\ cur'[c] = None /\ settled'[c] + 0 <= pRecv[c]
    BY <2>0 DEF IInv, TypeOK
  <2>2. \A d \in Clients \ {c} : /\ cpc'[d] = cpc[d] /\ cur'[d] = cur[d] /\ wire'[d] = wire[d]
                                /\ settled'[d] = settled[d]
    BY DEF IInv, TypeOK
  <2> HIDE DEF Leaves
  <2> QED BY <2>1, <2>2 DEF Leaves, IInv, MeterInv
<1>6. SettledWithinMeter'
  BY DEF SettledWithinMeter
<1> QED BY <1>1, <1>2, <1>3, <1>4, <1>5, <1>6 DEF IInv

LEMMA SettledFacts ==
    ASSUME IInv
    PROVE  \A d \in Clients :
             /\ settled[d] \in Nat /\ pRecv[d] \in Nat /\ FeeOwed(pKb[d], 0) \in Nat
             /\ settled[d] <= pRecv[d] /\ settled[d] <= FeeOwed(pKb[d], 0)
<1> TAKE d \in Clients
<1>1. settled[d] \in Nat /\ pRecv[d] \in Nat /\ FeeOwed(pKb[d], 0) \in Nat
  BY FeeNat, PaymentAssumption DEF IInv, TypeOK
<1>2. settled[d] + (IF cpc[d] = "note" /\ wire[d].kind = "null" THEN cur[d].amount ELSE 0) <= pRecv[d]
  BY DEF IInv, MeterInv
<1>3. cpc[d] = "note" => cur[d].amount \in Nat
  BY MessageFacts DEF IInv, TypeOK
<1>4. settled[d] <= pRecv[d]
  BY <1>1, <1>2, <1>3
<1> QED BY <1>1, <1>4 DEF IInv, SettledWithinMeter

\* The steps that end an attempt.
Ends(c) ==
    \/ Refused(c) \/ Notified(c) \/ GiveUp(c) \/ LoopHalts(c) \/ Crash(c)
    \/ cpc[c] \in {"pay", "insert", "update"} /\ Return(c) /\ UNCHANGED <<wire, late, settled>>

LEMMA EndsInv ==
    ASSUME IInv, NEW c \in Clients, Ends(c)
    PROVE  IInv'
<1>1. CASE Notified(c)
  <2>1. /\ Return(c) /\ wire' = [wire EXCEPT ![c] = None] /\ late' = late /\ cpc[c] = "note"
        /\ settled' = [settled EXCEPT ![c] = @ + IF wire[c].kind = "null" THEN cur[c].amount ELSE 0]
    BY <1>1 DEF Notified
  <2>2. cur[c].amount \in Nat /\ cur[c] # None
    BY <2>1, MessageFacts DEF IInv, TypeOK
  <2>3. settled \in [Clients -> Nat]
    BY DEF IInv, TypeOK
  <2>4. settled' \in [Clients -> Nat] /\ \A d \in Clients \ {c} : settled'[d] = settled[d]
    BY <2>1, <2>2, <2>3
  <2>5. settled'[c] <= pRecv[c] /\ settled'[c] <= FeeOwed(pKb[c], 0)
    <3>1. settled[c] + cur[c].amount <= FeeOwed(pKb[c], 0)
      BY <2>2 DEF IInv, MeterInv
    <3>2. settled[c] + (IF wire[c].kind = "null" THEN cur[c].amount ELSE 0) <= pRecv[c]
      BY <2>1 DEF IInv, MeterInv
    <3>3. settled'[c] = settled[c] + IF wire[c].kind = "null" THEN cur[c].amount ELSE 0
      BY <2>1, <2>3
    <3> QED BY <3>1, <3>2, <3>3, <2>2, SettledFacts
  <2>6. \A d \in Clients : settled'[d] <= pRecv[d] /\ settled'[d] <= FeeOwed(pKb[d], 0)
    BY <2>4, <2>5, SettledFacts
  <2> QED BY <2>1, <2>4, <2>6, LeavesInv DEF Return
<1>2. CASE Refused(c) \/ GiveUp(c) \/ LoopHalts(c) \/ Crash(c)
  <2>0. PICK st \in {"idle", "halted"} : Leaves(c, st)
    BY <1>2 DEF Refused, GiveUp, LoopHalts, Crash, Return
  <2>1. /\ wire' = [wire EXCEPT ![c] = None] /\ settled' = settled
        /\ \/ late' = late
           \/ /\ cpc[c] \in {"pre", "note"} /\ wire[c].kind \in {"pre", "note"}
              /\ late' = late \cup {wire[c]}
    BY <1>2 DEF Refused, GiveUp, LoopHalts, Crash, Abandon
  <2>2. settled' \in [Clients -> Nat]
    BY <2>1 DEF IInv, TypeOK
  <2> QED BY <2>0, <2>1, <2>2, SettledFacts, LeavesInv
<1>3. CASE cpc[c] \in {"pay", "insert", "update"} /\ Return(c) /\ UNCHANGED <<wire, late, settled>>
  <2>1. wire' = [wire EXCEPT ![c] = None] /\ settled' \in [Clients -> Nat]
    BY <1>3 DEF IInv, TypeOK
  <2> QED BY <1>3, <2>1, SettledFacts, LeavesInv DEF Return
<1> QED BY <1>1, <1>2, <1>3 DEF Ends

-----------------------------------------------------------------------------
(* The steps of an attempt.                                                *)

LEMMA StartPaymentInv ==
    ASSUME IInv, NEW c \in Clients, StartPayment(c)
    PROVE  IInv'
<1> USE DEF StartPayment, providerVars, wallet
<1>0. PICK m \in PreRequests : m.client = c /\ m.kind = "pre" /\ wire' = [wire EXCEPT ![c] = m]
  <2>1. cKb[c] \in ClientKbs /\ cKb[c] \in Nat /\ cSent[c] \in Nat
    BY PaymentAssumption DEF IInv, TypeOK
  <2>2. ClientOwes(c) \in Nat
    BY <2>1, FeeNat DEF ClientOwes
  <2> QED BY <2>1, <2>2, Messages
<1>1. TypeOK'
  BY <1>0, MessageFacts DEF IInv, TypeOK
<1>2. WireInv'
  BY <1>0 DEF IInv, TypeOK, WireInv, Notification
<1>3. RefInv'
  BY <1>0 DEF IInv, TypeOK, RefInv, InHand, Held, Unreported, Notification
<1>4. SpentInv'
  BY DEF IInv, TypeOK, SpentInv
<1>5. MeterInv'
  BY <1>0 DEF IInv, TypeOK, MeterInv
<1>6. SettledWithinMeter'
  BY DEF IInv, SettledWithinMeter
<1> QED BY <1>1, <1>2, <1>3, <1>4, <1>5, <1>6 DEF IInv

LEMMA AcceptedInv ==
    ASSUME IInv, NEW c \in Clients, Accepted(c)
    PROVE  IInv'
<1> USE DEF Accepted, providerVars, wallet
<1>0. /\ wire[c].ref \in Refs /\ wire[c].amount \in Nat
      /\ cur'[c] \in Amounts /\ cur'[c].ref = wire[c].ref /\ cur'[c].amount = wire[c].amount
      /\ cur' = [cur EXCEPT ![c] = cur'[c]]
  BY MessageFacts, Messages DEF IInv, TypeOK, WireInv
<1>1. TypeOK'
  BY <1>0, MessageFacts DEF IInv, TypeOK
<1>2. WireInv'
  BY DEF IInv, TypeOK, WireInv, Notification
<1>3. RefInv'
  <2>1. \A d \in Clients, r \in Refs : InHand(d, r)' <=> InHand(d, r)
    BY <1>0, MessageFacts DEF IInv, TypeOK, InHand
  <2>2. \A d \in Clients \ {c} : cpc'[d] = cpc[d] /\ cur'[d] = cur[d] /\ wire'[d] = wire[d]
                                /\ Notification(d)' = Notification(d)
    BY DEF IInv, TypeOK, Notification
  <2>3. cpc[c] = "pre" /\ cpc'[c] = "pay"
    BY DEF IInv, TypeOK
  <2>4. \A m \in late : m.kind = "note" => m.ref \in Refs
    BY MessageFacts DEF IInv, TypeOK
  <2>5. ASSUME NEW d \in Clients, NEW r \in Refs, InHand(d, r)'
        PROVE  Held(d, r)'
    <3>1. InHand(d, r)
      BY <2>1, <2>5
    <3>2. CASE d = c
      BY <2>1, <2>3, <3>1, <3>2 DEF IInv, RefInv, Held
    <3>3. CASE d # c
      BY <2>1, <2>2, <3>1, <3>3 DEF IInv, RefInv, Held
    <3> QED BY <3>2, <3>3
  <2>6. \A m \in late : m.kind = "note" => Unreported(m)'
    BY <2>1, <2>4 DEF IInv, RefInv, Unreported
  <2> QED BY <2>5, <2>6 DEF IInv, RefInv
<1>4. SpentInv'
  BY DEF IInv, TypeOK, SpentInv
<1>5. MeterInv'
  BY <1>0, MessageFacts DEF IInv, TypeOK, MeterInv
<1>6. SettledWithinMeter'
  BY DEF IInv, SettledWithinMeter
<1> QED BY <1>1, <1>2, <1>3, <1>4, <1>5, <1>6 DEF IInv

LEMMA HandPaid ==
    ASSUME IInv, NEW c \in Clients, cpc[c] \in {"pay", "insert", "update", "note"}
    PROVE  /\ cur[c] \in Amounts /\ cur[c] # None /\ cur[c].ref \in Refs /\ cur[c].amount \in Nat
           /\ InHand(c, cur[c].ref) /\ Held(c, cur[c].ref)
           /\ \A r \in Refs : InHand(c, r) => r = cur[c].ref
<1>1. cur[c] \in Amounts /\ cur[c] # None /\ cur[c].ref \in Refs /\ cur[c].amount \in Nat
  BY MessageFacts DEF IInv, TypeOK
<1>2. InHand(c, cur[c].ref)
  BY <1>1 DEF InHand
<1>3. \A r \in Refs : InHand(c, r) => r = cur[c].ref
  BY DEF InHand
<1> QED BY <1>1, <1>2, <1>3 DEF IInv, RefInv

LEMMA SendMoneyInv ==
    ASSUME IInv, NEW c \in Clients, cpc[c] = "pay",
           cpc' = [cpc EXCEPT ![c] = "insert"],
           paid' = [paid EXCEPT ![cur[c].ref] = [by |-> c, amount |-> cur[c].amount]],
           spent' = [spent EXCEPT ![c] = @ + cur[c].amount],
           UNCHANGED <<cur, cKb, cSent, providerVars, wire, late, settled>>
    PROVE  IInv'
<1> USE DEF providerVars
<1>0. /\ cur[c] \in Amounts /\ cur[c].ref \in Refs /\ cur[c].amount \in Nat
      /\ InHand(c, cur[c].ref) /\ Held(c, cur[c].ref)
      /\ \A r \in Refs : InHand(c, r) => r = cur[c].ref
  BY HandPaid
<1>1. TypeOK'
  BY <1>0 DEF IInv, TypeOK
<1>2. WireInv'
  BY DEF IInv, TypeOK, WireInv, Notification
<1>3. RefInv'
  <2>1. \A d \in Clients, r \in Refs : InHand(d, r)' <=> InHand(d, r)
    BY DEF IInv, TypeOK, InHand
  <2>2. \A d \in Clients \ {c} : cpc'[d] = cpc[d] /\ Notification(d)' = Notification(d)
    BY DEF IInv, TypeOK, Notification
  <2>3. /\ paid'[cur[c].ref] = [by |-> c, amount |-> cur[c].amount]
        /\ paid'[cur[c].ref] # None
        /\ \A r \in Refs \ {cur[c].ref} : paid'[r] = paid[r]
    BY <1>0, NoneAssumption DEF IInv, TypeOK
  <2>4. ASSUME NEW r \in Refs
        PROVE  /\ paid'[r] # None \/ row[r] # "none" => r \in issued
               /\ row[r] = "pending" => paid'[r] # None
    BY <1>0, <2>3 DEF IInv, RefInv, Held
  <2>5. ASSUME NEW d \in Clients, NEW r \in Refs, InHand(d, r)'
        PROVE  Held(d, r)'
    <3>1. InHand(d, r)
      BY <2>1, <2>5
    <3>2. CASE d = c
      <4>1. r = cur[c].ref /\ cpc'[c] = "insert" /\ row[r] # "pending"
        BY <1>0, <3>1, <3>2 DEF IInv, TypeOK, Held
      <4> QED BY <1>0, <2>1, <2>3, <3>2, <4>1 DEF Held
    <3>3. CASE d # c
      <4>1. r # cur[c].ref
        BY <1>0, <3>1, <3>3 DEF Held
      <4> QED BY <2>1, <2>2, <2>3, <3>1, <3>3, <4>1 DEF IInv, RefInv, Held
    <3> QED BY <3>2, <3>3
  <2>6. ASSUME NEW m \in late, m.kind = "note"
        PROVE  Unreported(m)'
    <3>1. m.ref \in Refs
      BY <2>6, MessageFacts DEF IInv, TypeOK
    <3>2. Unreported(m)
      BY <2>6 DEF IInv, RefInv
    <3> QED BY <1>0, <3>1, <3>2, <2>1, <2>3 DEF Unreported
  <2> QED BY <2>4, <2>5, <2>6 DEF RefInv
<1>4. SpentInv'
  <2> SUFFICES ASSUME NEW d \in Clients
               PROVE  (cSent[d] + (IF cpc[d] \in {"insert", "update"} THEN cur[d].amount ELSE 0)
                        <= spent[d])'
    BY DEF SpentInv
  <2>1. CASE d = c
    <3>1. cSent[c] + 0 <= spent[c]
      BY DEF IInv, SpentInv
    <3>2. cSent[c] \in Nat /\ spent[c] \in Nat /\ cpc'[c] = "insert"
           /\ spent'[c] = spent[c] + cur[c].amount
      BY DEF IInv, TypeOK
    <3> QED BY <1>0, <2>1, <3>1, <3>2
  <2>2. CASE d # c
    <3>1. cpc'[d] = cpc[d] /\ spent'[d] = spent[d]
      BY <2>2 DEF IInv, TypeOK
    <3> QED BY <3>1 DEF IInv, SpentInv
  <2> QED BY <2>1, <2>2
<1>5. MeterInv'
  BY DEF IInv, TypeOK, MeterInv
<1>6. SettledWithinMeter'
  BY DEF IInv, SettledWithinMeter
<1> QED BY <1>1, <1>2, <1>3, <1>4, <1>5, <1>6 DEF IInv

LEMMA InsertPaymentInv ==
    ASSUME IInv, NEW c \in Clients, cpc[c] = "insert",
           cpc' = [cpc EXCEPT ![c] = "update"],
           UNCHANGED <<cur, cKb, cSent, providerVars, wallet, wire, late, settled>>
    PROVE  IInv'
<1> USE DEF providerVars, wallet
<1>1. TypeOK'
  BY DEF IInv, TypeOK
<1>2. WireInv'
  BY DEF IInv, TypeOK, WireInv, Notification
<1>3. RefInv'
  BY DEF IInv, TypeOK, RefInv, InHand, Held, Unreported, Notification
<1>4. SpentInv'
  BY DEF IInv, TypeOK, SpentInv
<1>5. MeterInv'
  BY DEF IInv, TypeOK, MeterInv
<1>6. SettledWithinMeter'
  BY DEF IInv, SettledWithinMeter
<1> QED BY <1>1, <1>2, <1>3, <1>4, <1>5, <1>6 DEF IInv

LEMMA UpdateSessionInv ==
    ASSUME IInv, NEW c \in Clients, cpc[c] = "update",
           cSent' = [cSent EXCEPT ![c] = @ + cur[c].amount],
           cpc' = [cpc EXCEPT ![c] = "note"],
           wire' = [wire EXCEPT ![c] = Notification(c)],
           UNCHANGED <<cur, cKb, providerVars, wallet, late, settled>>
    PROVE  IInv'
<1> USE DEF providerVars, wallet
<1>0. /\ cur[c] \in Amounts /\ cur[c].ref \in Refs /\ cur[c].amount \in Nat
      /\ InHand(c, cur[c].ref) /\ Held(c, cur[c].ref)
      /\ \A r \in Refs : InHand(c, r) => r = cur[c].ref
  BY HandPaid
<1>a. Notification(c) \in Notifications /\ Notification(c) # None /\ Notification(c).kind = "note"
  BY <1>0, Messages, MessageFacts DEF Notification
<1>1. TypeOK'
  BY <1>0, <1>a DEF IInv, TypeOK
<1>2. WireInv'
  BY <1>a DEF IInv, TypeOK, WireInv, Notification
<1>3. RefInv'
  <2>1. \A d \in Clients, r \in Refs : InHand(d, r)' <=> InHand(d, r)
    BY <1>a DEF IInv, TypeOK, InHand
  <2>2. \A d \in Clients \ {c} : cpc'[d] = cpc[d] /\ wire'[d] = wire[d]
                                /\ Notification(d)' = Notification(d)
    BY DEF IInv, TypeOK, Notification
  <2>5. ASSUME NEW d \in Clients, NEW r \in Refs, InHand(d, r)'
        PROVE  Held(d, r)'
    <3>1. InHand(d, r)
      BY <2>1, <2>5
    <3>2. CASE d = c
      <4>1. r = cur[c].ref /\ cpc'[c] = "note" /\ row[r] # "pending"
        BY <1>0, <3>1, <3>2 DEF IInv, TypeOK, Held
      <4> QED BY <1>0, <2>1, <3>2, <4>1 DEF Held
    <3>3. CASE d # c
      BY <2>1, <2>2, <3>1, <3>3 DEF IInv, RefInv, Held
    <3> QED BY <3>2, <3>3
  <2>6. ASSUME NEW m \in late, m.kind = "note"
        PROVE  Unreported(m)'
    <3>1. m.ref \in Refs
      BY <2>6, MessageFacts DEF IInv, TypeOK
    <3>2. Unreported(m)
      BY <2>6 DEF IInv, RefInv
    <3> QED BY <3>1, <3>2, <2>1 DEF Unreported
  <2> QED BY <2>5, <2>6 DEF IInv, RefInv
<1>4. SpentInv'
  <2> SUFFICES ASSUME NEW d \in Clients
               PROVE  (cSent[d] + (IF cpc[d] \in {"insert", "update"} THEN cur[d].amount ELSE 0)
                        <= spent[d])'
    BY DEF SpentInv
  <2>1. CASE d = c
    <3>1. cSent[c] + cur[c].amount <= spent[c]
      BY DEF IInv, SpentInv
    <3>2. cSent[c] \in Nat /\ cpc'[c] = "note" /\ cSent'[c] = cSent[c] + cur[c].amount
      BY DEF IInv, TypeOK
    <3> QED BY <1>0, <2>1, <3>1, <3>2
  <2>2. CASE d # c
    <3>1. cpc'[d] = cpc[d] /\ cSent'[d] = cSent[d]
      BY <2>2 DEF IInv, TypeOK
    <3> QED BY <3>1 DEF IInv, SpentInv
  <2> QED BY <2>1, <2>2
<1>5. MeterInv'
  BY <1>a DEF IInv, TypeOK, MeterInv
<1>6. SettledWithinMeter'
  BY DEF IInv, SettledWithinMeter
<1> QED BY <1>1, <1>2, <1>3, <1>4, <1>5, <1>6 DEF IInv

-----------------------------------------------------------------------------
(* The handlers of the provider.                                           *)

Requests == late \cup ({wire[c] : c \in Clients} \ {None})

LEMMA RequestFacts ==
    ASSUME IInv, NEW m \in Requests
    PROVE  /\ m.kind = "pre" => m \in PreRequests
           /\ m.kind = "note" => m \in Notifications
<1>1. m \in PreRequests \cup Notifications \cup Answers
  BY DEF Requests, IInv, TypeOK
<1> QED BY <1>1, MessageFacts

\* What the answer of the provider is, and whether anybody waits for it.
LEMMA PrePaymentFacts ==
    ASSUME IInv, NEW m \in Requests, HandlePrePayment(m)
    PROVE  /\ m \in PreRequests /\ m.client \in Clients /\ m.kind = "pre"
           /\ \E a \in Answers :
                /\ Answer(m, a)
                /\ \/ /\ a.kind = "error" /\ UNCHANGED <<issued, row>>
                   \/ /\ a.kind = "accepted" /\ a.ref \in Refs \ issued
                      /\ a.amount = ProviderDemands(m.client)
                      /\ issued' = issued \cup {a.ref}
                      /\ row' \in {row, [row EXCEPT ![a.ref] = "awaiting"]}
<1>1. m \in PreRequests /\ m.client \in Clients /\ m.kind = "pre"
  BY RequestFacts, MessageFacts DEF HandlePrePayment
<1>2. ProviderDemands(m.client) \in Nat
  BY <1>1, FeeNat, PaymentAssumption DEF IInv, TypeOK, ProviderDemands
<1>3. CASE \E r \in Refs \ issued :
             /\ issued' = issued \cup {r}
             /\ row' \in {row, [row EXCEPT ![r] = "awaiting"]}
             /\ Answer(m, [kind |-> "accepted", ref |-> r, amount |-> ProviderDemands(m.client)])
  <2>1. PICK r \in Refs \ issued :
             /\ issued' = issued \cup {r}
             /\ row' \in {row, [row EXCEPT ![r] = "awaiting"]}
             /\ Answer(m, [kind |-> "accepted", ref |-> r, amount |-> ProviderDemands(m.client)])
    BY <1>3
  <2> DEFINE a == [kind |-> "accepted", ref |-> r, amount |-> ProviderDemands(m.client)]
  <2>2. a \in Answers /\ a.kind = "accepted" /\ a.ref = r /\ a.amount = ProviderDemands(m.client)
    BY <1>2, Messages
  <2> HIDE DEF a
  <2>3. Answer(m, a)
    BY <2>1 DEF a
  <2> QED BY <1>1, <2>1, <2>2, <2>3
<1>4. CASE Answer(m, [kind |-> "error"]) /\ UNCHANGED <<issued, row>>
  <2> DEFINE a == [kind |-> "error"]
  <2>2. a \in Answers /\ a.kind = "error"
    BY Messages
  <2> HIDE DEF a
  <2>3. Answer(m, a)
    BY <1>4 DEF a
  <2> QED BY <1>1, <1>4, <2>2, <2>3
<1> QED BY <1>3, <1>4 DEF HandlePrePayment

LEMMA PrePaymentInv ==
    ASSUME IInv, NEW m \in Requests, HandlePrePayment(m)
    PROVE  IInv'
<1> DEFINE c == m.client
<1>0. UNCHANGED <<cpc, cur, cKb, cSent, pKb, pRecv, paid, spent, settled>>
  BY DEF HandlePrePayment, clientVars, wallet
<1>a. m \in PreRequests /\ c \in Clients /\ m.kind = "pre"
  BY PrePaymentFacts
<1>b. PICK a \in Answers :
           /\ Answer(m, a)
           /\ \/ /\ a.kind = "error" /\ UNCHANGED <<issued, row>>
              \/ /\ a.kind = "accepted" /\ a.ref \in Refs \ issued
                 /\ a.amount = ProviderDemands(c)
                 /\ issued' = issued \cup {a.ref}
                 /\ row' \in {row, [row EXCEPT ![a.ref] = "awaiting"]}
  BY PrePaymentFacts
<1> HIDE DEF c
<1>c. /\ a \in Answers /\ a # None /\ a.kind \in {"error", "accepted"}
      /\ a.kind = "accepted" => a.amount \in Nat
  BY <1>b, MessageFacts
<1>d. \/ /\ cpc[c] = "pre" /\ wire[c] = m /\ wire' = [wire EXCEPT ![c] = a] /\ late' = late
      \/ late' = late \ {m} /\ wire' = wire
  <2>1. CASE wire[c] = m /\ wire' = [wire EXCEPT ![c] = a] /\ late' = late
    <3>1. cpc[c] \in {"pre", "note"}
      BY <1>a, <2>1, MessageFacts DEF IInv, TypeOK
    <3> QED BY <1>a, <2>1, <3>1, WireKinds
  <2> QED BY <1>b, <2>1 DEF Answer, c
<1>e. /\ issued \subseteq issued' /\ issued' \subseteq Refs
      /\ \A r \in Refs : row'[r] = "pending" <=> row[r] = "pending"
      /\ \A r \in Refs : row'[r] # "none" => r \in issued'
      /\ row' \in [Refs -> {"none", "awaiting", "pending"}]
  BY <1>b DEF IInv, TypeOK, RefInv
<1>1. TypeOK'
  BY <1>0, <1>a, <1>c, <1>d, <1>e DEF IInv, TypeOK
<1>2. WireInv'
  BY <1>0, <1>a, <1>c, <1>d DEF IInv, TypeOK, WireInv, Notification
<1>3. RefInv'
  <2>1. \A d \in Clients, r \in Refs :
          InHand(d, r)' => \/ InHand(d, r)
                           \/ d = c /\ cpc[c] = "pre" /\ a.kind = "accepted" /\ r = a.ref
    BY <1>0, <1>a, <1>d DEF IInv, TypeOK, InHand
  <2>2. a.kind = "accepted" => /\ a.ref \in issued' \ issued /\ paid[a.ref] = None
                               /\ row'[a.ref] # "pending"
                               /\ \A d \in Clients : ~InHand(d, a.ref)
    BY <1>b, <1>e DEF IInv, RefInv, Held
  <2>3. \A d \in Clients : /\ Notification(d)' = Notification(d)
                           /\ cpc[d] = "note" => wire'[d] = wire[d]
    BY <1>0, <1>d DEF Notification, IInv, TypeOK
  <2>4. ASSUME NEW d \in Clients, NEW r \in Refs, InHand(d, r)'
        PROVE  Held(d, r)'
    <3>1. CASE InHand(d, r)
      <4>1. Held(d, r)
        BY <3>1 DEF IInv, RefInv
      <4>2. ~(a.kind = "accepted" /\ r = a.ref)
        BY <2>2, <3>1
      <4> QED BY <4>1, <4>2, <1>0, <1>e, <2>1, <2>3 DEF Held
    <3>2. CASE ~InHand(d, r)
      <4>1. d = c /\ cpc[c] = "pre" /\ a.kind = "accepted" /\ r = a.ref
        BY <2>1, <2>4, <3>2
      <4> QED BY <4>1, <1>0, <2>1, <2>2 DEF Held
    <3> QED BY <3>1, <3>2
  <2>5. ASSUME NEW n \in late', n.kind = "note"
        PROVE  Unreported(n)'
    <3>1. n \in late
      BY <1>d
    <3>2. n.ref \in Refs /\ Unreported(n)
      BY <2>5, <3>1, MessageFacts DEF IInv, TypeOK, RefInv
    <3>3. paid[n.ref] # None
      <4>1. n.client \in Clients /\ n.amount \in Nat
        BY <2>5, <3>1, MessageFacts DEF IInv, TypeOK
      <4> QED BY <3>2, <4>1, NoneAssumption DEF Unreported
    <3> QED BY <1>0, <1>e, <2>1, <2>2, <3>2, <3>3 DEF Unreported
  <2>6. \A r \in Refs : /\ paid[r] # None \/ row'[r] # "none" => r \in issued'
                        /\ row'[r] = "pending" => paid[r] # None
    BY <1>e DEF IInv, RefInv
  <2> QED BY <1>0, <2>4, <2>5, <2>6 DEF RefInv
<1>4. SpentInv'
  BY <1>0 DEF IInv, SpentInv
<1>5. MeterInv'
  <2> SUFFICES ASSUME NEW d \in Clients
               PROVE  (/\ settled[d] + (IF cpc[d] = "note" /\ wire[d].kind = "null"
                                        THEN cur[d].amount ELSE 0) <= pRecv[d]
                       /\ cur[d] # None => settled[d] + cur[d].amount <= FeeOwed(pKb[d], 0)
                       /\ cpc[d] = "pre" /\ wire[d].kind = "accepted" =>
                            settled[d] + wire[d].amount <= FeeOwed(pKb[d], 0))'
    BY DEF MeterInv
  <2>1. CASE wire'[d] = wire[d]
    BY <1>0, <2>1 DEF IInv, MeterInv
  <2>2. CASE wire'[d] # wire[d]
    <3>1. d = c /\ cpc[c] = "pre" /\ wire'[c] = a /\ cur[c] = None
      BY <1>d, <2>2 DEF IInv, TypeOK
    <3>2. a.kind = "accepted" => settled[c] + a.amount <= FeeOwed(pKb[c], 0)
      <4> SUFFICES ASSUME a.kind = "accepted"
                   PROVE  settled[c] + a.amount <= FeeOwed(pKb[c], 0)
        OBVIOUS
      <4>1. a.amount = FeeOwed(pKb[c], pRecv[c]) /\ a.amount \in Nat
        BY <1>b, <1>c DEF ProviderDemands
      <4>2. pKb[c] \in Nat /\ pRecv[c] \in Nat
        BY <1>a, PaymentAssumption DEF IInv, TypeOK
      <4>3. a.amount > 0 => pRecv[c] + a.amount = FeeOwed(pKb[c], 0)
        BY <4>1, <4>2, FeeAddsUp
      <4> QED BY <1>a, <4>1, <4>2, <4>3, SettledFacts
    <3>3. settled[c] + 0 <= pRecv[c]
      BY <1>a, SettledFacts
    <3> QED BY <1>0, <3>1, <3>2, <3>3
  <2> QED BY <2>1, <2>2
<1>6. SettledWithinMeter'
  BY <1>0 DEF IInv, SettledWithinMeter
<1> QED BY <1>1, <1>2, <1>3, <1>4, <1>5, <1>6 DEF IInv

\* A notification that is handled is that of a payment nobody has reported: it
\* comes from the client that waits for the answer, or is late.
LEMMA NotificationFacts ==
    ASSUME IInv, NEW m \in Requests, HandleNotification(m)
    PROVE  /\ m \in Notifications /\ m.client \in Clients /\ m.ref \in Refs
           /\ m.amount \in Nat /\ m.kind = "note"
           /\ paid[m.ref] = [by |-> m.client, amount |-> m.amount] /\ paid[m.ref] # None
           /\ row[m.ref] # "pending" /\ m.ref \in issued
           /\ \/ row' = row /\ pRecv' = pRecv
              \/ /\ row' = [row EXCEPT ![m.ref] = "pending"]
                 /\ pRecv' \in {pRecv, [pRecv EXCEPT ![m.client] = @ + m.amount]}
           /\ \E a \in Answers :
                /\ a.kind \in {"null", "error"}
                /\ a.kind = "null" => pRecv' = [pRecv EXCEPT ![m.client] = @ + m.amount]
                /\ \/ /\ cpc[m.client] = "note" /\ wire[m.client] = m /\ m = Notification(m.client)
                      /\ m.ref = cur[m.client].ref /\ m.amount = cur[m.client].amount
                      /\ wire' = [wire EXCEPT ![m.client] = a] /\ late' = late
                   \/ m \in late /\ late' = late \ {m} /\ wire' = wire
<1>1. m \in Notifications /\ m.client \in Clients /\ m.ref \in Refs /\ m.amount \in Nat
       /\ m.kind = "note"
  BY RequestFacts, MessageFacts DEF HandleNotification
<1>2. PICK a \in Answers :
        /\ Answer(m, a) /\ a.kind \in {"null", "error"}
        /\ a.kind = "null" => pRecv' = [pRecv EXCEPT ![m.client] = @ + m.amount]
  <2>1. CASE Answer(m, [kind |-> "null"]) /\ Credit(m)
    <3> DEFINE a == [kind |-> "null"]
    <3>1. a \in Answers /\ a.kind = "null"
      BY Messages
    <3> HIDE DEF a
    <3>2. Answer(m, a)
      BY <2>1 DEF a
    <3> QED BY <2>1, <3>1, <3>2 DEF Credit
  <2>2. CASE Answer(m, [kind |-> "error"])
    <3> DEFINE a == [kind |-> "error"]
    <3>1. a \in Answers /\ a.kind = "error"
      BY Messages
    <3> HIDE DEF a
    <3>2. Answer(m, a)
      BY <2>2 DEF a
    <3> QED BY <3>1, <3>2
  <2> QED BY <2>1, <2>2 DEF HandleNotification
<1>3. \/ row' = row /\ pRecv' = pRecv
      \/ /\ row' = [row EXCEPT ![m.ref] = "pending"]
         /\ pRecv' \in {pRecv, [pRecv EXCEPT ![m.client] = @ + m.amount]}
  BY DEF HandleNotification, Credit
<1>4. CASE wire[m.client] = m /\ wire' = [wire EXCEPT ![m.client] = a] /\ UNCHANGED late
  <2>1. cpc[m.client] \in {"pre", "note"}
    BY <1>1, <1>4, MessageFacts DEF IInv, TypeOK
  <2>2. cpc[m.client] = "note" /\ m = Notification(m.client)
    BY <1>1, <1>4, <2>1, WireKinds
  <2>3. m.ref = cur[m.client].ref /\ m.amount = cur[m.client].amount
    BY <1>1, <2>2 DEF Notification
  <2>4. Held(m.client, m.ref)
    BY <1>1, <2>2, <2>3, HandPaid
  <2>5. /\ paid[m.ref] = [by |-> m.client, amount |-> m.amount]
        /\ row[m.ref] # "pending" /\ m.ref \in issued
    BY <1>4, <2>2, <2>3, <2>4 DEF Held
  <2>6. paid[m.ref] # None
    BY <1>1, <2>5, NoneAssumption
  <2> QED BY <1>1, <1>2, <1>3, <1>4, <2>2, <2>3, <2>5, <2>6
<1>5. CASE m \in late /\ late' = late \ {m} /\ UNCHANGED wire
  <2>1. Unreported(m)
    BY <1>1, <1>5 DEF IInv, RefInv
  <2>2. paid[m.ref] = [by |-> m.client, amount |-> m.amount] /\ row[m.ref] # "pending"
    BY <2>1 DEF Unreported
  <2>3. paid[m.ref] # None
    BY <1>1, <2>2, NoneAssumption
  <2>4. m.ref \in issued
    BY <1>1, <2>3 DEF IInv, RefInv
  <2> QED BY <1>1, <1>2, <1>3, <1>5, <2>2, <2>3, <2>4
<1> QED BY <1>2, <1>4, <1>5 DEF Answer

LEMMA NotificationInv ==
    ASSUME IInv, NEW m \in Requests, HandleNotification(m)
    PROVE  IInv'
<1> DEFINE c == m.client
<1>0. UNCHANGED <<cpc, cur, cKb, cSent, pKb, issued, paid, spent, settled>>
  BY DEF HandleNotification, clientVars, wallet
<1>a. /\ m \in Notifications /\ c \in Clients /\ m.ref \in Refs
      /\ m.amount \in Nat /\ m.kind = "note"
      /\ paid[m.ref] = [by |-> c, amount |-> m.amount] /\ paid[m.ref] # None
      /\ row[m.ref] # "pending" /\ m.ref \in issued
  BY NotificationFacts
<1>b. /\ row' \in [Refs -> {"none", "awaiting", "pending"}]
      /\ row' \in {row, [row EXCEPT ![m.ref] = "pending"]}
      /\ \A r \in Refs \ {m.ref} : row'[r] = row[r]
      /\ pRecv' \in {pRecv, [pRecv EXCEPT ![c] = @ + m.amount]}
      /\ pRecv' \in [Clients -> Nat]
  <2>1. row \in [Refs -> {"none", "awaiting", "pending"}] /\ pRecv \in [Clients -> Nat]
    BY DEF IInv, TypeOK
  <2>2. /\ row' \in {row, [row EXCEPT ![m.ref] = "pending"]}
        /\ pRecv' \in {pRecv, [pRecv EXCEPT ![c] = @ + m.amount]}
    BY NotificationFacts
  <2>3. pRecv' \in [Clients -> Nat]
    BY <1>a, <2>1, <2>2
  <2>4. row' \in [Refs -> {"none", "awaiting", "pending"}] /\ \A r \in Refs \ {m.ref} : row'[r] = row[r]
    BY <1>a, <2>1, <2>2
  <2> QED BY <2>2, <2>3, <2>4
<1>c. PICK a \in Answers :
        /\ a.kind \in {"null", "error"}
        /\ a.kind = "null" => pRecv' = [pRecv EXCEPT ![c] = @ + m.amount]
        /\ \/ /\ cpc[c] = "note" /\ wire[c] = m /\ m = Notification(c)
              /\ m.ref = cur[c].ref /\ m.amount = cur[c].amount
              /\ wire' = [wire EXCEPT ![c] = a] /\ late' = late
           \/ m \in late /\ late' = late \ {m} /\ wire' = wire
  BY NotificationFacts
<1> HIDE DEF c
<1>d. a # None /\ a # m
  BY <1>a, <1>c, MessageFacts
<1>1. TypeOK'
  BY <1>0, <1>b, <1>c, <1>d DEF IInv, TypeOK
<1>2. WireInv'
  BY <1>0, <1>c DEF IInv, TypeOK, WireInv, Notification
<1>3. RefInv'
  <2>1. \A d \in Clients, r \in Refs : InHand(d, r)' <=> InHand(d, r)
    BY <1>0, <1>c DEF IInv, TypeOK, InHand
  <2>2. \A d \in Clients : Notification(d)' = Notification(d)
    BY <1>0 DEF Notification
  <2>3. \A d \in Clients \ {c} : wire'[d] = wire[d]
    BY <1>c DEF IInv, TypeOK
  <2>4. ASSUME NEW d \in Clients, NEW r \in Refs, InHand(d, r)'
        PROVE  Held(d, r)'
    <3>1. InHand(d, r) /\ Held(d, r)
      BY <2>1, <2>4 DEF IInv, RefInv
    <3>2. CASE r # m.ref
      <4>1. row'[r] = row[r]
        BY <1>b, <3>2
      <4>2. wire'[d] # wire[d] => r = m.ref
        <5> SUFFICES ASSUME wire'[d] # wire[d] PROVE r = m.ref
          OBVIOUS
        <5>1. d = c /\ cpc[c] = "note" /\ m.ref = cur[c].ref
          BY <1>c, <2>3
        <5> QED BY <5>1, <3>1, HandPaid
      <4> QED BY <1>0, <2>1, <2>2, <3>1, <3>2, <4>1, <4>2 DEF Held
    <3>3. CASE r = m.ref
      <4>1. CASE m \in late
        BY <1>a, <3>1, <3>3, <4>1 DEF IInv, RefInv, Unreported
      <4>2. CASE cpc[c] = "note" /\ wire[c] = m /\ m = Notification(c) /\ wire' = [wire EXCEPT ![c] = a]
                 /\ m.ref = cur[c].ref
        <5>1. InHand(c, m.ref) /\ Held(c, m.ref)
          BY <1>a, <4>2, HandPaid
        <5>2. d = c
          BY <3>1, <3>3, <5>1 DEF Held
        <5>3. wire'[c] # Notification(c)
          BY <1>a, <1>d, <4>2 DEF IInv, TypeOK
        <5> QED BY <1>0, <2>1, <2>2, <3>1, <3>3, <4>2, <5>2, <5>3 DEF Held
      <4> QED BY <1>c, <4>1, <4>2
    <3> QED BY <3>2, <3>3
  <2>5. ASSUME NEW n \in late', n.kind = "note"
        PROVE  Unreported(n)'
    <3>1. n \in late /\ n \in Notifications /\ n.ref \in Refs /\ Unreported(n)
      BY <1>c, <2>5, MessageFacts DEF IInv, TypeOK, RefInv
    <3>2. n.ref # m.ref
      <4> SUFFICES ASSUME n.ref = m.ref PROVE FALSE
        OBVIOUS
      <4>1. CASE cpc[c] = "note" /\ m.ref = cur[c].ref
        <5>1. InHand(c, n.ref)
          BY <1>a, <4>1, HandPaid
        <5> QED BY <1>a, <3>1, <5>1 DEF Unreported
      <4>2. CASE late' = late \ {m}
        <5>1. [by |-> n.client, amount |-> n.amount] = [by |-> c, amount |-> m.amount]
          BY <1>a, <3>1 DEF Unreported
        <5>2. n.client = m.client /\ n.amount = m.amount
          BY <5>1 DEF c
        <5>3. n = m
          BY <1>a, <3>1, <5>2 DEF Notifications
        <5> QED BY <4>2, <5>3
      <4> QED BY <1>c, <4>1, <4>2
    <3> QED BY <1>0, <1>b, <2>1, <3>1, <3>2 DEF Unreported
  <2>6. \A r \in Refs : /\ paid[r] # None \/ row'[r] # "none" => r \in issued
                        /\ row'[r] = "pending" => paid[r] # None
    BY <1>a, <1>b DEF IInv, RefInv
  <2> QED BY <1>0, <2>4, <2>5, <2>6 DEF RefInv
<1>4. SpentInv'
  BY <1>0 DEF IInv, SpentInv
<1>5. MeterInv'
  <2> SUFFICES ASSUME NEW d \in Clients
               PROVE  (/\ settled[d] + (IF cpc[d] = "note" /\ wire[d].kind = "null"
                                        THEN cur[d].amount ELSE 0) <= pRecv[d]
                       /\ cur[d] # None => settled[d] + cur[d].amount <= FeeOwed(pKb[d], 0)
                       /\ cpc[d] = "pre" /\ wire[d].kind = "accepted" =>
                            settled[d] + wire[d].amount <= FeeOwed(pKb[d], 0))'
    BY DEF MeterInv
  <2>0. settled[d] \in Nat /\ pRecv[d] \in Nat /\ pRecv'[d] \in Nat /\ settled[d] <= pRecv[d]
    BY <1>b, SettledFacts
  <2>2. pRecv[d] <= pRecv'[d]
    <3>1. pRecv \in [Clients -> Nat]
      BY DEF IInv, TypeOK
    <3>2. CASE pRecv' = pRecv
      BY <2>0, <3>2
    <3>3. CASE pRecv' = [pRecv EXCEPT ![c] = @ + m.amount] /\ d = c
      <4>1. pRecv'[d] = pRecv[d] + m.amount
        BY <1>a, <3>1, <3>3
      <4> QED BY <1>a, <2>0, <4>1
    <3>4. CASE pRecv' = [pRecv EXCEPT ![c] = @ + m.amount] /\ d # c
      <4>1. pRecv'[d] = pRecv[d]
        BY <3>1, <3>4
      <4> QED BY <2>0, <4>1
    <3> QED BY <1>b, <3>2, <3>3, <3>4
  <2>3. CASE wire'[d] = wire[d]
    <3>1. settled[d] + (IF cpc[d] = "note" /\ wire[d].kind = "null" THEN cur[d].amount ELSE 0) <= pRecv[d]
      BY DEF IInv, MeterInv
    <3>2. cpc[d] = "note" => cur[d].amount \in Nat
      BY HandPaid
    <3>3. settled[d] + (IF cpc[d] = "note" /\ wire[d].kind = "null" THEN cur[d].amount ELSE 0) <= pRecv'[d]
      BY <2>0, <2>2, <3>1, <3>2
    <3> QED BY <1>0, <2>3, <3>3 DEF IInv, MeterInv
  <2>4. CASE wire'[d] # wire[d]
    <3>1. d = c /\ cpc[c] = "note" /\ wire'[c] = a /\ m.amount = cur[c].amount
      BY <1>c, <2>4 DEF IInv, TypeOK
    <3>2. settled[c] + (IF a.kind = "null" THEN cur[c].amount ELSE 0) <= pRecv'[c]
      <4>1. CASE a.kind = "null"
        <5>1. pRecv'[c] = pRecv[c] + m.amount
          BY <1>a, <1>c, <4>1 DEF IInv, TypeOK
        <5> QED BY <1>a, <2>0, <3>1, <4>1, <5>1
      <4>2. CASE a.kind # "null"
        BY <2>0, <2>2, <3>1, <4>2
      <4> QED BY <4>1, <4>2
    <3> QED BY <1>0, <3>1, <3>2 DEF IInv, MeterInv
  <2> QED BY <2>3, <2>4
<1>6. SettledWithinMeter'
  BY <1>0 DEF IInv, SettledWithinMeter
<1> QED BY <1>1, <1>2, <1>3, <1>4, <1>5, <1>6 DEF IInv

-----------------------------------------------------------------------------
LEMMA NextInv ==
    ASSUME IInv, [Next]_vars
    PROVE  IInv'
<1>1. CASE UNCHANGED vars
  BY <1>1 DEF vars, clientVars, providerVars, wallet, IInv, TypeOK, WireInv, RefInv, SpentInv,
              MeterInv, SettledWithinMeter, InHand, Held, Unreported, Notification
<1>2. ASSUME NEW c \in Clients, OfferProxy(c) \/ OpenSession(c) \/ ClientCounts(c)
      PROVE  IInv'
  BY <1>2, OpensInv
<1>3. ASSUME NEW c \in Clients, ProviderCounts(c)
      PROVE  IInv'
  BY <1>3, ProviderCountsInv
<1>4. ASSUME NEW c \in Clients, StartPayment(c) \/ Accepted(c)
      PROVE  IInv'
  BY <1>4, StartPaymentInv, AcceptedInv
<1>5. ASSUME NEW c \in Clients, Refused(c) \/ Notified(c) \/ GiveUp(c) \/ LoopHalts(c) \/ Crash(c)
      PROVE  IInv'
  BY <1>5, EndsInv DEF Ends
<1>6. ASSUME NEW c \in Clients, SendMoney(c)
      PROVE  IInv'
  BY <1>6, EndsInv, SendMoneyInv DEF SendMoney, Ends
<1>7. ASSUME NEW c \in Clients, InsertPayment(c)
      PROVE  IInv'
  BY <1>7, EndsInv, InsertPaymentInv DEF InsertPayment, Ends
<1>8. ASSUME NEW c \in Clients, UpdateSession(c)
      PROVE  IInv'
  BY <1>8, EndsInv, UpdateSessionInv DEF UpdateSession, Ends
<1>9. ASSUME NEW m \in Requests, HandlePrePayment(m) \/ HandleNotification(m)
      PROVE  IInv'
  BY <1>9, PrePaymentInv, NotificationInv
<1> QED BY <1>1, <1>2, <1>3, <1>4, <1>5, <1>6, <1>7, <1>8, <1>9
        DEF Next, ClientStep, ProviderStep, Requests

\* The inductive invariant holds in every reachable state.
LEMMA InductiveInvariant == Spec => []IInv
<1>1. Init => IInv
  BY InitInv
<1>2. IInv /\ [Next]_vars => IInv'
  BY NextInv
<1> QED BY <1>1, <1>2, PTL DEF Spec

\* The payments of a proxy are well formed at every moment.
THEOREM PaymentTypeCorrect == Spec => []TypeOK
<1>1. IInv => TypeOK
  BY DEF IInv
<1> QED BY <1>1, InductiveInvariant, PTL

\* SettledWithinMeter holds for every rate, every count of data and every
\* order of payments, crashes, late requests and failing statements.
THEOREM SettledIsMetered == Spec => []SettledWithinMeter
<1>1. IInv => SettledWithinMeter
  BY DEF IInv
<1> QED BY <1>1, InductiveInvariant, PTL

-----------------------------------------------------------------------------
(* The payments are those of PaymentLedger.                                *)

Reported == {r \in Refs : row[r] = "pending"}

LEMMA LedgerStep ==
    ASSUME IInv, [Next]_vars
    PROVE  [Ledger!Next]_(Ledger!vars)
<1> USE DEF Ledger!vars
<1>1. CASE UNCHANGED vars
  BY <1>1 DEF vars, providerVars, wallet
<1>2. ASSUME NEW c \in Clients,
             \/ OfferProxy(c) \/ OpenSession(c) \/ ClientCounts(c) \/ ProviderCounts(c)
             \/ StartPayment(c) \/ Accepted(c) \/ InsertPayment(c) \/ UpdateSession(c)
             \/ Ends(c)
      PROVE  UNCHANGED <<paid, row, pRecv>>
  BY <1>2 DEF OfferProxy, OpenSession, ClientCounts, ProviderCounts, StartPayment, Accepted,
              InsertPayment, UpdateSession, Ends, Refused, Notified, GiveUp, LoopHalts, Crash,
                Abandon, Return, Leaves,
              providerVars, wallet
<1>3. ASSUME NEW c \in Clients, SendMoney(c)
      PROVE  [Ledger!Next]_(Ledger!vars)
  <2>1. CASE Return(c)
    BY <2>1 DEF Return, Leaves, providerVars, wallet
  <2>2. CASE /\ cpc[c] = "pay" /\ cur[c].amount > 0
             /\ paid' = [paid EXCEPT ![cur[c].ref] = [by |-> c, amount |-> cur[c].amount]]
             /\ UNCHANGED providerVars
    <3>1. cur[c].ref \in Refs /\ cur[c].amount \in Nat /\ Held(c, cur[c].ref)
      BY <2>2, HandPaid
    <3>2. paid[cur[c].ref] = None
      BY <2>2, <3>1 DEF Held
    <3>3. paid'[cur[c].ref] = [by |-> c, amount |-> cur[c].amount]
      BY <2>2, <3>1 DEF IInv, TypeOK
    <3>4. paid'[cur[c].ref] \in Ledger!Payments
      BY <2>2, <3>1, <3>3 DEF Ledger!Payments
    <3>5. Ledger!Pay(cur[c].ref)
      BY <2>2, <3>2, <3>3, <3>4 DEF Ledger!Pay, providerVars
    <3> QED BY <3>1, <3>5 DEF Ledger!Next
  <2> QED BY <1>3, <2>1, <2>2 DEF SendMoney
<1>4. ASSUME NEW m \in Requests, HandlePrePayment(m)
      PROVE  UNCHANGED <<paid, Reported, pRecv>>
  <2>1. UNCHANGED <<paid, pRecv>>
    BY <1>4 DEF HandlePrePayment, wallet
  <2>2. \A r \in Refs : row'[r] = "pending" <=> row[r] = "pending"
    BY <1>4, PrePaymentFacts DEF IInv, TypeOK, RefInv
  <2> QED BY <2>1, <2>2 DEF Reported
<1>5. ASSUME NEW m \in Requests, HandleNotification(m)
      PROVE  [Ledger!Next]_(Ledger!vars)
  <2>1. UNCHANGED paid
    BY <1>5 DEF HandleNotification, wallet
  <2>2. /\ m.ref \in Refs /\ m.client \in Clients /\ row[m.ref] # "pending"
        /\ paid[m.ref] = [by |-> m.client, amount |-> m.amount] /\ paid[m.ref] # None
        /\ \/ row' = row /\ pRecv' = pRecv
           \/ /\ row' = [row EXCEPT ![m.ref] = "pending"]
              /\ pRecv' \in {pRecv, [pRecv EXCEPT ![m.client] = @ + m.amount]}
    BY <1>5, NotificationFacts
  <2>3. CASE row' = row /\ pRecv' = pRecv
    BY <2>1, <2>3
  <2>4. CASE /\ row' = [row EXCEPT ![m.ref] = "pending"]
             /\ pRecv' \in {pRecv, [pRecv EXCEPT ![m.client] = @ + m.amount]}
    <3>1. Reported' = Reported \cup {m.ref} /\ m.ref \notin Reported
      BY <2>2, <2>4 DEF Reported, IInv, TypeOK
    <3>2. paid[m.ref].by = m.client /\ paid[m.ref].amount = m.amount
      BY <2>2
    <3>3. pRecv' \in {pRecv, [pRecv EXCEPT ![paid[m.ref].by] = @ + paid[m.ref].amount]}
      BY <2>4, <3>2
    <3>4. Ledger!Report(m.ref)
      BY <2>1, <2>2, <3>1, <3>3 DEF Ledger!Report, Reported
    <3> QED BY <2>2, <3>4 DEF Ledger!Next
  <2> QED BY <2>2, <2>3, <2>4
<1>6. UNCHANGED <<paid, row, pRecv>> => UNCHANGED <<paid, Reported, pRecv>>
  BY DEF Reported
<1>7. UNCHANGED <<paid, Reported, pRecv>> => [Ledger!Next]_(Ledger!vars)
  BY DEF Reported
<1> QED BY <1>1, <1>2, <1>3, <1>4, <1>5, <1>6, <1>7 DEF Next, ClientStep, ProviderStep, Requests, Ends

\* ImplementsLedger: every behaviour of the payment loops and the handlers is one
\* of PaymentLedger, where a reference is paid at most once and reported at most
\* once, and a report credits the client that has paid with what it has paid.
THEOREM PaymentsImplementLedger == Spec => ImplementsLedger
<1>1. Init => Ledger!Init
  BY DEF Init, Ledger!Init
<1>2. IInv /\ [Next]_vars => [Ledger!Next]_(Ledger!vars)
  BY LedgerStep
<1> QED BY <1>1, <1>2, InductiveInvariant, PTL DEF Spec, ImplementsLedger, Ledger!Spec

-----------------------------------------------------------------------------
(* The accounts of a client.  What its session has recorded is spread over *)
(* the references: w is the share of each, and s what the shares of a set  *)
(* of references add up to.  The provider has credited no more than the    *)
(* shares of what is reported, and has yet to credit no more than the      *)
(* share of a reference.  (That s is additive is all the proof needs of a  *)
(* sum, and no induction over the references.)                             *)

Shares(c, w, s) ==
    /\ \A S \in SUBSET Refs : \A r \in Refs \ S : s[S \cup {r}] = s[S] + w[r]
    /\ \A S \in SUBSET Refs : s[S] <= cSent[c]
    /\ pRecv[c] <= s[Reported]
    /\ cpc[c] = "note" => cur[c].amount <= w[cur[c].ref]
    /\ \A m \in late : m.kind = "note" /\ m.client = c => m.amount <= w[m.ref]

Accounted(c) == \E w \in [Refs -> Nat], s \in [SUBSET Refs -> Nat] : Shares(c, w, s)

LEMMA InitAccounted == ASSUME Init PROVE \A c \in Clients : Accounted(c)
<1> TAKE c \in Clients
<1> DEFINE w == [r \in Refs |-> 0]
           s == [S \in SUBSET Refs |-> 0]
<1>1. w \in [Refs -> Nat] /\ s \in [SUBSET Refs -> Nat]
  OBVIOUS
<1>2. \A S \in SUBSET Refs : \A r \in Refs \ S : s[S \cup {r}] = s[S] + w[r]
  <2> TAKE S \in SUBSET Refs
  <2> TAKE r \in Refs \ S
  <2>1. S \cup {r} \in SUBSET Refs
    OBVIOUS
  <2>2. s[S \cup {r}] = 0 /\ s[S] = 0 /\ w[r] = 0
    BY <2>1
  <2> HIDE DEF s, w
  <2> QED BY <2>2
<1>3. Reported \in SUBSET Refs
  BY DEF Reported
<1>4. /\ \A S \in SUBSET Refs : s[S] <= cSent[c]
      /\ pRecv[c] <= s[Reported] /\ cpc[c] = "none" /\ late = {}
  BY <1>3 DEF Init
<1>5. Shares(c, w, s)
  BY <1>2, <1>4 DEF Shares
<1> HIDE DEF s, w
<1> QED BY <1>1, <1>5 DEF Accounted

\* Nothing is recorded or credited; a notification may become late.
LEMMA QuietAccounted ==
    ASSUME NEW c \in Clients, Accounted(c),
           cSent'[c] = cSent[c], pRecv'[c] = pRecv[c], Reported' = Reported,
           cpc'[c] = "note" => cpc[c] = "note" /\ cur'[c] = cur[c],
           \A m \in late' : m.kind = "note" /\ m.client = c =>
             m \in late \/ (cpc[c] = "note" /\ m.ref = cur[c].ref /\ m.amount = cur[c].amount)
    PROVE  Accounted(c)'
<1>1. PICK w \in [Refs -> Nat], s \in [SUBSET Refs -> Nat] : Shares(c, w, s)
  BY DEF Accounted
<1>2. /\ \A S \in SUBSET Refs : \A r \in Refs \ S : s[S \cup {r}] = s[S] + w[r]
      /\ \A S \in SUBSET Refs : s[S] <= cSent'[c]
      /\ pRecv'[c] <= s[Reported']
      /\ cpc'[c] = "note" => cur'[c].amount <= w[cur'[c].ref]
  BY <1>1 DEF Shares
<1>3. \A m \in late' : m.kind = "note" /\ m.client = c => m.amount <= w[m.ref]
  BY <1>1 DEF Shares
<1>4. Shares(c, w, s)'
  BY <1>2, <1>3 DEF Shares
<1> QED BY <1>4 DEF Accounted

\* The session records a payment: its reference has a larger share.
LEMMA RecordAccounted ==
    ASSUME IInv, NEW c \in Clients, Accounted(c), cpc[c] = "update",
           cSent' = [cSent EXCEPT ![c] = @ + cur[c].amount],
           UNCHANGED <<cur, pRecv, row, late>>
    PROVE  Accounted(c)'
<1>1. PICK w \in [Refs -> Nat], s \in [SUBSET Refs -> Nat] : Shares(c, w, s)
  BY DEF Accounted
<1> DEFINE q == cur[c].ref
           n == cur[c].amount
<1>2. q \in Refs /\ n \in Nat
  BY HandPaid
<1>3. PICK v \in [Refs -> Nat], t \in [SUBSET Refs -> Nat] :
        /\ v = [w EXCEPT ![q] = @ + n]
        /\ t = [S \in SUBSET Refs |-> IF q \in S THEN s[S] + n ELSE s[S]]
  <2> HIDE DEF q, n
  <2>1. [w EXCEPT ![q] = @ + n] \in [Refs -> Nat]
    BY <1>2
  <2>2. [S \in SUBSET Refs |-> IF q \in S THEN s[S] + n ELSE s[S]] \in [SUBSET Refs -> Nat]
    BY <1>2
  <2> QED BY <2>1, <2>2
<1>4. v[q] = w[q] + n /\ \A r \in Refs \ {q} : v[r] = w[r]
  BY <1>2, <1>3
<1>5. \A S \in SUBSET Refs : t[S] = IF q \in S THEN s[S] + n ELSE s[S]
  BY <1>3
<1>6. cSent[c] \in Nat /\ cSent'[c] = cSent[c] + n
  BY DEF IInv, TypeOK
<1>7. cur'[c].ref = q /\ cur'[c].amount = n
  OBVIOUS
<1>8. Reported \in SUBSET Refs /\ Reported' = Reported /\ pRecv[c] \in Nat /\ pRecv'[c] = pRecv[c]
  BY DEF Reported, IInv, TypeOK
<1>9. \A m \in late : m.kind = "note" => m.ref \in Refs /\ m.amount \in Nat
  BY MessageFacts DEF IInv, TypeOK
<1> HIDE DEF q, n
<1>10. ASSUME NEW S \in SUBSET Refs, NEW r \in Refs \ S
       PROVE  t[S \cup {r}] = t[S] + v[r]
  <2>1. S \cup {r} \in SUBSET Refs
    OBVIOUS
  <2>2. s[S \cup {r}] = s[S] + w[r] /\ s[S] \in Nat /\ w[r] \in Nat
    BY <1>1 DEF Shares
  <2>3. CASE q = r
    <3>1. t[S \cup {r}] = s[S \cup {r}] + n /\ t[S] = s[S] /\ v[r] = w[r] + n
      BY <1>4, <1>5, <2>1, <2>3
    <3> QED BY <1>2, <2>2, <3>1
  <2>4. CASE q # r /\ q \in S
    <3>1. t[S \cup {r}] = s[S \cup {r}] + n /\ t[S] = s[S] + n /\ v[r] = w[r]
      BY <1>4, <1>5, <2>1, <2>4
    <3> QED BY <1>2, <2>2, <3>1
  <2>5. CASE q # r /\ q \notin S
    <3>1. t[S \cup {r}] = s[S \cup {r}] /\ t[S] = s[S] /\ v[r] = w[r]
      BY <1>4, <1>5, <2>1, <2>5
    <3> QED BY <2>2, <3>1
  <2> QED BY <2>3, <2>4, <2>5
<1>11. ASSUME NEW S \in SUBSET Refs
       PROVE  s[S] <= t[S] /\ t[S] <= cSent'[c]
  <2>1. s[S] \in Nat /\ s[S] <= cSent[c]
    BY <1>1 DEF Shares
  <2> QED BY <1>2, <1>5, <1>6, <2>1
<1>12. pRecv'[c] <= t[Reported']
  <2>1. pRecv[c] <= s[Reported] /\ s[Reported] \in Nat /\ t[Reported] \in Nat
    BY <1>1, <1>3, <1>8 DEF Shares
  <2> QED BY <1>8, <1>11, <2>1
<1>13. \A r \in Refs : w[r] \in Nat /\ v[r] \in Nat /\ w[r] <= v[r]
  BY <1>2, <1>3, <1>4
<1>14. n <= v[q]
  BY <1>2, <1>4, <1>13
<1>15. ASSUME NEW m \in late', m.kind = "note", m.client = c
       PROVE  m.amount <= v[m.ref]
  <2>1. m.amount <= w[m.ref]
    BY <1>1, <1>15 DEF Shares
  <2>2. m.ref \in Refs /\ m.amount \in Nat
    BY <1>9, <1>15
  <2> QED BY <1>13, <2>1, <2>2
<1>16. Shares(c, v, t)'
  BY <1>7, <1>10, <1>11, <1>12, <1>14, <1>15 DEF Shares
<1> QED BY <1>3, <1>16 DEF Accounted

\* A report is credited, to this client or to another one.
LEMMA ReportAccounted ==
    ASSUME IInv, NEW c \in Clients, Accounted(c),
           NEW m \in Requests, HandleNotification(m)
    PROVE  Accounted(c)'
<1>0. UNCHANGED <<cpc, cur, cSent>>
  BY DEF HandleNotification, clientVars
<1>1. PICK w \in [Refs -> Nat], s \in [SUBSET Refs -> Nat] : Shares(c, w, s)
  BY DEF Accounted
<1>2. /\ m.ref \in Refs /\ m.amount \in Nat /\ row[m.ref] # "pending" /\ m.kind = "note"
      /\ \/ row' = row /\ pRecv' = pRecv
         \/ /\ row' = [row EXCEPT ![m.ref] = "pending"]
            /\ pRecv' \in {pRecv, [pRecv EXCEPT ![m.client] = @ + m.amount]}
  BY NotificationFacts
<1>3. late' \subseteq late
  <2>1. late' = late \/ late' = late \ {m}
    BY NotificationFacts
  <2> QED BY <2>1
<1>4. m.client = c => m.amount <= w[m.ref]
  <2>1. \/ m \in late
        \/ cpc[m.client] = "note" /\ m.ref = cur[m.client].ref /\ m.amount = cur[m.client].amount
    BY NotificationFacts
  <2> QED BY <1>1, <1>2, <2>1 DEF Shares
<1>5. pRecv'[c] <= s[Reported']
  <2>1. Reported \in SUBSET Refs /\ m.ref \in Refs \ Reported
    BY <1>2 DEF Reported
  <2>2. /\ s[Reported \cup {m.ref}] = s[Reported] + w[m.ref] /\ pRecv[c] <= s[Reported]
        /\ s[Reported] \in Nat /\ w[m.ref] \in Nat
    BY <1>1, <1>2, <2>1 DEF Shares
  <2>3. pRecv \in [Clients -> Nat] /\ pRecv[c] \in Nat
    BY DEF IInv, TypeOK
  <2>4. CASE row' = row /\ pRecv' = pRecv
    <3>1. Reported' = Reported
      BY <2>4 DEF Reported
    <3> QED BY <2>2, <2>4, <3>1
  <2>5. CASE row' = [row EXCEPT ![m.ref] = "pending"]
    <3>1. Reported' = Reported \cup {m.ref}
      BY <1>2, <2>5 DEF Reported, IInv, TypeOK
    <3>2. CASE pRecv' = pRecv
      BY <2>2, <2>3, <3>1, <3>2
    <3>3. CASE pRecv' = [pRecv EXCEPT ![m.client] = @ + m.amount] /\ m.client = c
      <4>1. pRecv'[c] = pRecv[c] + m.amount
        BY <2>3, <3>3
      <4> QED BY <1>2, <1>4, <2>2, <2>3, <3>1, <3>3, <4>1
    <3>4. CASE pRecv' = [pRecv EXCEPT ![m.client] = @ + m.amount] /\ m.client # c
      <4>1. pRecv'[c] = pRecv[c]
        BY <2>3, <3>4
      <4> QED BY <2>2, <2>3, <3>1, <4>1
    <3> QED BY <1>2, <2>5, <3>2, <3>3, <3>4
  <2> QED BY <1>2, <2>4, <2>5
<1>6. Shares(c, w, s)'
  BY <1>0, <1>1, <1>3, <1>5 DEF Shares
<1> QED BY <1>6 DEF Accounted

LEMMA NextAccounted ==
    ASSUME IInv, [Next]_vars, NEW c \in Clients, Accounted(c)
    PROVE  Accounted(c)'
<1>1. CASE UNCHANGED vars
  <2>1. UNCHANGED <<cSent, pRecv, row, cpc, cur, late>>
    BY <1>1 DEF vars, clientVars, providerVars
  <2>2. /\ Reported' = Reported /\ cSent'[c] = cSent[c] /\ pRecv'[c] = pRecv[c]
        /\ cpc'[c] = cpc[c] /\ cur'[c] = cur[c] /\ late' = late
    BY <2>1 DEF Reported
  <2> QED BY <2>2, QuietAccounted
<1>2. ASSUME NEW d \in Clients,
             \/ OfferProxy(d) \/ OpenSession(d) \/ ClientCounts(d) \/ ProviderCounts(d)
             \/ StartPayment(d) \/ Accepted(d) \/ Ends(d)
             \/ SendMoney(d) \/ InsertPayment(d)
      PROVE  Accounted(c)'
  <2>1. UNCHANGED <<cSent, pRecv, row>>
    BY <1>2 DEF OfferProxy, OpenSession, ClientCounts, ProviderCounts, StartPayment, Accepted,
                SendMoney, InsertPayment, Ends, Refused, Notified, GiveUp, LoopHalts, Crash,
                Abandon, Return, Leaves,
                clientVars, providerVars
  <2>2. cpc'[c] = "note" => cpc[c] = "note" /\ cur'[c] = cur[c]
    BY <1>2 DEF OfferProxy, OpenSession, ClientCounts, ProviderCounts, StartPayment, Accepted,
                SendMoney, InsertPayment, Ends, Refused, Notified, GiveUp, LoopHalts, Crash,
                Abandon, Return, Leaves,
                clientVars, providerVars, IInv, TypeOK
  <2>3. \/ late' = late
        \/ late' = late \cup {wire[d]} /\ cpc[d] \in {"pre", "note"} /\ wire[d].kind \in {"pre", "note"}
    BY <1>2 DEF OfferProxy, OpenSession, ClientCounts, ProviderCounts, StartPayment, Accepted,
                SendMoney, InsertPayment, Ends, Refused, Notified, GiveUp, LoopHalts, Crash, Abandon
  <2>4. ASSUME NEW m \in late', m.kind = "note", m.client = c
        PROVE  m \in late \/ (cpc[c] = "note" /\ m.ref = cur[c].ref /\ m.amount = cur[c].amount)
    <3>1. CASE m \notin late
      <4>1. m = wire[d] /\ cpc[d] = "note" /\ wire[d] = Notification(d) /\ wire[d].client = d
        BY <2>3, <2>4, <3>1, WireKinds
      <4>2. d = c
        BY <2>4, <4>1
      <4>3. Notification(c).ref = cur[c].ref /\ Notification(c).amount = cur[c].amount
        BY DEF Notification
      <4> QED BY <4>1, <4>2, <4>3
    <3> QED BY <3>1
  <2>5. Reported' = Reported
    BY <2>1 DEF Reported
  <2> QED BY <2>1, <2>2, <2>4, <2>5, QuietAccounted
<1>3. ASSUME NEW d \in Clients, UpdateSession(d)
      PROVE  Accounted(c)'
  <2>1. CASE cpc[d] \in {"pay", "insert", "update"} /\ Return(d) /\ UNCHANGED <<wire, late, settled>>
    BY <2>1, <1>2 DEF Ends
  <2>2. CASE /\ cpc[d] = "update" /\ cSent' = [cSent EXCEPT ![d] = @ + cur[d].amount]
             /\ cpc' = [cpc EXCEPT ![d] = "note"]
             /\ UNCHANGED <<cur, pRecv, row, late>>
    <3>1. CASE d = c
      BY <2>2, <3>1, RecordAccounted
    <3>2. CASE d # c
      <4>1. cSent'[c] = cSent[c] /\ cpc'[c] = cpc[c] /\ Reported' = Reported
        BY <2>2, <3>2 DEF IInv, TypeOK, Reported
      <4>2. pRecv'[c] = pRecv[c] /\ cur'[c] = cur[c] /\ late' = late
        BY <2>2
      <4> QED BY <4>1, <4>2, QuietAccounted
    <3> QED BY <3>1, <3>2
  <2> QED BY <1>3, <2>1, <2>2 DEF UpdateSession, providerVars
<1>4. ASSUME NEW m \in Requests, HandlePrePayment(m)
      PROVE  Accounted(c)'
  <2>1. UNCHANGED <<cSent, pRecv, cpc, cur>>
    BY <1>4 DEF HandlePrePayment, clientVars
  <2>2. late' \subseteq late
    <3>1. late' = late \/ late' = late \ {m}
      BY <1>4, PrePaymentFacts DEF Answer
    <3> QED BY <3>1
  <2>3. \A r \in Refs : row'[r] = "pending" <=> row[r] = "pending"
    BY <1>4, PrePaymentFacts DEF IInv, TypeOK, RefInv
  <2>4. Reported' = Reported
    BY <2>3 DEF Reported
  <2>5. cSent'[c] = cSent[c] /\ pRecv'[c] = pRecv[c] /\ cpc'[c] = cpc[c] /\ cur'[c] = cur[c]
    BY <2>1
  <2> QED BY <2>2, <2>4, <2>5, QuietAccounted
<1>5. ASSUME NEW m \in Requests, HandleNotification(m)
      PROVE  Accounted(c)'
  BY <1>5, ReportAccounted
<1> QED BY <1>1, <1>2, <1>3, <1>4, <1>5 DEF Next, ClientStep, ProviderStep, Requests, Ends

LEMMA AccountsFollow ==
    ASSUME IInv, \A c \in Clients : Accounted(c)
    PROVE  AccountsInStep
<1> SUFFICES ASSUME NEW c \in Clients
             PROVE  pRecv[c] <= cSent[c] /\ cSent[c] <= spent[c]
  BY DEF AccountsInStep
<1>1. pRecv[c] \in Nat /\ cSent[c] \in Nat /\ spent[c] \in Nat
  BY DEF IInv, TypeOK
<1>2. pRecv[c] <= cSent[c]
  <2>1. PICK w \in [Refs -> Nat], s \in [SUBSET Refs -> Nat] : Shares(c, w, s)
    BY DEF Accounted
  <2>2. Reported \in SUBSET Refs
    BY DEF Reported
  <2>3. s[Reported] \in Nat /\ pRecv[c] <= s[Reported] /\ s[Reported] <= cSent[c]
    BY <2>1, <2>2 DEF Shares
  <2> QED BY <1>1, <2>3
<1>3. cSent[c] <= spent[c]
  <2>1. cSent[c] + (IF cpc[c] \in {"insert", "update"} THEN cur[c].amount ELSE 0) <= spent[c]
    BY DEF IInv, SpentInv
  <2>2. cpc[c] \in {"insert", "update"} => cur[c].amount \in Nat
    BY HandPaid
  <2> QED BY <1>1, <2>1, <2>2
<1> QED BY <1>2, <1>3

\* AccountsInStep: whatever is lost, late, cut short by a crash or fails, the
\* provider credits no more than the session of the client records, and the
\* session records no more than has left the wallet.
THEOREM AccountsStayInStep == Spec => []AccountsInStep
<1>1. Init => \A c \in Clients : Accounted(c)
  BY InitAccounted
<1>2. IInv /\ (\A c \in Clients : Accounted(c)) /\ [Next]_vars => (\A c \in Clients : Accounted(c))'
  BY NextAccounted
<1>3. IInv /\ (\A c \in Clients : Accounted(c)) => AccountsInStep
  BY AccountsFollow
<1> QED BY <1>1, <1>2, <1>3, InductiveInvariant, PTL DEF Spec
=============================================================================
