---------------------------- MODULE DownloadProofs ----------------------------
(***************************************************************************)
(* Proofs about downloads, for any number of requests, commands, peers,    *)
(* paths and restarts: a download pays at most once, one that reports an   *)
(* error has cost nothing, and the money of one that is over is on record, *)
(* unless an error, a panic or a crash has lost the record.                *)
(***************************************************************************)
EXTENDS Download, TLAPS

\* A download that has died has no row, ..
NoRow == \A t \in Tasks : tst[t] \in {"record", "dead"} => \A r \in rows : r.task # t

\* .. before its payment it has no trace in the wallet or in the table, ..
Unpaid ==
    \A t \in Tasks :
      tst[t] \in {"idle", "find", "next", "ask", "write", "pay", "error"} =>
        sends[t] = 0 /\ (tx[t] = FALSE) /\ \A r \in rows : r.task # t

\* .. and nothing is received before the answer of a peer, after which the
\* download can no longer report an error.
NothingYet ==
    \A t \in Tasks : tst[t] \in {"idle", "find", "next", "ask", "error"} => got[t] = None

\* Between payment and row, the transaction is known or lost.
TxKnown ==
    \A t \in Tasks : tst[t] = "record" /\ sends[t] > 0 => (tx[t] = TRUE) \/ t \in unlogged

\* The endpoint has one peer to ask.
OnePeer == \A t \in Http : todo[t] = {}

IInv == TypeOK /\ OnePeer /\ NoRow /\ Unpaid /\ NothingYet /\ TxKnown /\ PaysOnce /\ PaymentOnRecord

LEMMA InitInv == Init => IInv
<1> SUFFICES ASSUME Init PROVE IInv
  OBVIOUS
<1>1. TypeOK
  BY DownloadAssumption DEF Init, TypeOK, Working
<1>2. \A t \in Tasks : tst[t] = "idle" /\ sends[t] = 0 /\ got[t] = None /\ tx[t] = FALSE
  BY DEF Init
<1>3. OnePeer
  BY DEF Init, OnePeer, Tasks
<1>4. NoRow /\ Unpaid /\ NothingYet /\ TxKnown /\ PaysOnce /\ PaymentOnRecord
  BY <1>2 DEF Init, NoRow, Unpaid, NothingYet, TxKnown, PaysOnce, PaymentOnRecord
<1> QED BY <1>1, <1>3, <1>4 DEF IInv

-----------------------------------------------------------------------------
(* The steps up to the answer of a peer, and those that change no download:*)
(* neither the wallet nor the records are touched.                         *)


\* What holds of a download does not depend on the others.
LEMMA Before ==
    ASSUME IInv, NEW t \in Tasks,
           UNCHANGED <<got, tx, sends, rows, unlogged>>,
           tst[t] \in {"idle", "find", "next", "ask"},
           \E st \in {"find", "next", "ask", "error", "ok", "dead"} : Goes(t, st)
    PROVE  NoRow' /\ Unpaid' /\ NothingYet' /\ TxKnown' /\ PaysOnce' /\ PaymentOnRecord'
<1> USE DEF Goes
<1>0. NoRow'
  BY DEF IInv, TypeOK, NoRow, Unpaid
<1>1. Unpaid'
  BY DEF IInv, TypeOK, Unpaid
<1>2. NothingYet'
  BY DEF IInv, TypeOK, NothingYet
<1>3. TxKnown'
  BY DEF IInv, TypeOK, TxKnown
<1>4. PaysOnce'
  BY DEF IInv, PaysOnce
<1>5. sends[t] = 0
  BY DEF IInv, Unpaid
<1>6. PaymentOnRecord'
  BY <1>5 DEF IInv, TypeOK, PaymentOnRecord
<1> QED BY <1>0, <1>1, <1>2, <1>3, <1>4, <1>6

LEMMA AskInv ==
    ASSUME IInv, NEW t \in Tasks,
           \/ t \in Http /\ (HttpDownload(t) \/ StreamFails(t))
           \/ t \in Cli /\ (CliDownload(t) \/ ProvidersFound(t) \/ AskNext(t))
           \/ PeerRefuses(t) \/ PeerUnreachable(t)
    PROVE  IInv'
<1> USE DEF HttpDownload, StreamFails, CliDownload, ProvidersFound, AskNext, PeerRefuses,
            PeerUnreachable
<1>1. UNCHANGED <<got, tx, sends, rows, unlogged, provided, disk, restarts>>
  OBVIOUS
<1>2. tst[t] \in {"idle", "find", "next", "ask"}
  OBVIOUS
<1>3. PICK st \in {"find", "next", "ask", "error", "ok", "dead"} : Goes(t, st)
  OBVIOUS
<1>4. OnePeer'
  <2>1. CASE todo' = todo
    BY <2>1 DEF IInv, OnePeer
  <2>2. CASE t \in Cli /\ todo' = [todo EXCEPT ![t] = todo'[t]]
    <3>1. \A u \in Http : u # t /\ u \in Tasks
      BY <2>2, DownloadAssumption DEF Tasks
    <3>2. \A u \in Http : todo'[u] = todo[u]
      BY <2>2, <3>1 DEF IInv, TypeOK
    <3> QED BY <3>2 DEF IInv, OnePeer
  <2>3. (ProvidersFound(t) \/ AskNext(t)) => todo' = todo \/ todo' = [todo EXCEPT ![t] = todo'[t]]
    BY DEF IInv, TypeOK
  <2>4. ~(ProvidersFound(t) \/ AskNext(t)) => todo' = todo
    OBVIOUS
  <2> QED BY <2>1, <2>2, <2>3, <2>4
<1>5. TypeOK'
  <2>1. /\ tst' \in [Tasks -> Working \cup {"idle", "ok", "error", "dead"}]
        /\ \A u \in Tasks \ {t} : tst'[u] = tst[u]
        /\ tst'[t] = st
    BY <1>3 DEF IInv, TypeOK, Goes, Working
  <2>2. /\ tpath' \in [Tasks -> AllPaths \cup {None}]
        /\ tpeer' \in [Tasks -> Peers \cup {None}]
        /\ todo' \in [Tasks -> SUBSET Peers]
        /\ \A u \in Tasks \ {t} : tpeer'[u] = tpeer[u] /\ todo'[u] = todo[u]
    BY DEF IInv, TypeOK, AllPaths
  <2>3. st = "ask" => tpeer'[t] \notin todo'[t] \cup {None}
    <3>1. CASE HttpDownload(t) /\ t \in Http
      BY <2>1, <3>1, DownloadAssumption DEF IInv, TypeOK, OnePeer, Goes
    <3>2. CASE AskNext(t)
      BY <2>1, <3>2, DownloadAssumption DEF IInv, TypeOK, Goes
    <3>3. CASE StreamFails(t) \/ CliDownload(t) \/ ProvidersFound(t) \/ PeerRefuses(t) \/ PeerUnreachable(t)
      BY <2>1, <3>3 DEF Goes, IInv, TypeOK
    <3> QED BY <3>1, <3>2, <3>3
  <2>4. \A u \in Tasks : tst'[u] \in {"write", "pay", "record"} => got'[u] # None
    BY <1>1, <2>1 DEF IInv, TypeOK
  <2>5. \A u \in Tasks : tst'[u] \in Working \ {"find", "next"} => tpeer'[u] \notin todo'[u] \cup {None}
    BY <2>1, <2>2, <2>3 DEF IInv, TypeOK, Working
  <2> QED BY <1>1, <2>1, <2>2, <2>4, <2>5 DEF IInv, TypeOK
<1>6. NoRow' /\ Unpaid' /\ NothingYet' /\ TxKnown' /\ PaysOnce' /\ PaymentOnRecord'
  <2>1. \E s \in {"find", "next", "ask", "error", "ok", "dead"} : Goes(t, s)
    BY <1>3
  <2> QED BY <1>1, <1>2, <2>1, Before
<1> QED BY <1>4, <1>5, <1>6 DEF IInv

LEMMA PeerSendsInv ==
    ASSUME IInv, NEW t \in Tasks, PeerSends(t)
    PROVE  IInv'
<1> USE DEF PeerSends, Goes
<1>1. got'[t] \in Contents /\ got'[t] # None /\ got' = [got EXCEPT ![t] = got'[t]]
  BY DEF IInv, TypeOK, Working
<1>2. TypeOK'
  BY <1>1 DEF IInv, TypeOK, Working
<1>3. OnePeer' /\ PaysOnce'
  BY DEF IInv, OnePeer, PaysOnce
<1>4. NoRow' /\ Unpaid'
  BY DEF IInv, TypeOK, NoRow, Unpaid
<1>5. NothingYet' /\ TxKnown' /\ PaymentOnRecord'
  BY DEF IInv, TypeOK, NothingYet, TxKnown, PaymentOnRecord
<1> QED BY <1>2, <1>3, <1>4, <1>5 DEF IInv

-----------------------------------------------------------------------------
(* What is received is written, paid for and recorded.                     *)

LEMMA WriteFileInv ==
    ASSUME IInv, NEW t \in Tasks, WriteFile(t)
    PROVE  IInv'
<1> USE DEF WriteFile, Goes
<1>1. disk' \in [AllPaths -> Contents \cup {Torn, None}]
  BY DEF IInv, TypeOK
<1>2. TypeOK'
  BY <1>1 DEF IInv, TypeOK, Working
<1>3. OnePeer' /\ PaysOnce'
  BY DEF IInv, OnePeer, PaysOnce
<1>4. NoRow' /\ Unpaid'
  BY DEF IInv, TypeOK, NoRow, Unpaid
<1>5. NothingYet' /\ TxKnown' /\ PaymentOnRecord'
  BY DEF IInv, TypeOK, NothingYet, TxKnown, PaymentOnRecord
<1> QED BY <1>2, <1>3, <1>4, <1>5 DEF IInv

LEMMA PayForFileInv ==
    ASSUME IInv, NEW t \in Tasks, PayForFile(t)
    PROVE  IInv'
<1> USE DEF PayForFile, Goes
<1>1. sends[t] = 0 /\ sends \in [Tasks -> Nat]
  BY DEF IInv, TypeOK, Unpaid
<1>2. /\ sends' \in [Tasks -> Nat] /\ sends'[t] \in {0, 1}
      /\ \A u \in Tasks \ {t} : sends'[u] = sends[u]
      /\ sends'[t] = 1 => (tx'[t] = TRUE) \/ t \in unlogged'
      /\ tx' \in [Tasks -> BOOLEAN] /\ \A u \in Tasks \ {t} : tx'[u] = tx[u]
      /\ unlogged \subseteq unlogged' /\ unlogged' \subseteq Tasks
  <2>1. tx \in [Tasks -> BOOLEAN] /\ unlogged \subseteq Tasks
    BY DEF IInv, TypeOK
  <2>2. CASE sends' = [sends EXCEPT ![t] = @ + 1] /\ tx' = [tx EXCEPT ![t] = TRUE] /\ unlogged' = unlogged
    BY <1>1, <2>1, <2>2
  <2>3. CASE sends' = [sends EXCEPT ![t] = @ + 1] /\ tx' = tx /\ unlogged' = unlogged \cup {t}
    BY <1>1, <2>1, <2>3
  <2>4. CASE UNCHANGED <<tx, sends, unlogged>>
    BY <1>1, <2>1, <2>4
  <2> QED BY <2>2, <2>3, <2>4
<1>3. tst[t] = "pay" /\ tst'[t] = "record" /\ \A u \in Tasks \ {t} : tst'[u] = tst[u]
  BY DEF IInv, TypeOK
<1>4. TypeOK'
  BY <1>2 DEF IInv, TypeOK, Working
<1>5. UNCHANGED <<rows, got, todo>>
  OBVIOUS
<1> HIDE DEF PayForFile, Goes
<1>6. OnePeer'
  BY <1>5 DEF IInv, OnePeer
<1>7. PaysOnce'
  BY <1>1, <1>2 DEF IInv, PaysOnce
<1>8. NoRow' /\ Unpaid' /\ NothingYet'
  BY <1>2, <1>3, <1>5 DEF IInv, NoRow, Unpaid, NothingYet
<1>9. TxKnown' /\ PaymentOnRecord'
  <2>1. TxKnown'
    <3> SUFFICES ASSUME NEW u \in Tasks, tst'[u] = "record", sends'[u] > 0
                 PROVE  (tx'[u] = TRUE) \/ u \in unlogged'
      BY DEF TxKnown
    <3>1. CASE u = t
      BY <1>2, <3>1
    <3>2. CASE u # t
      BY <1>2, <1>3, <3>2 DEF IInv, TxKnown
    <3> QED BY <3>1, <3>2
  <2>2. PaymentOnRecord'
    BY <1>2, <1>3, <1>5 DEF IInv, PaymentOnRecord
  <2> QED BY <2>1, <2>2
<1> QED BY <1>4, <1>6, <1>7, <1>8, <1>9 DEF IInv

LEMMA RecordDownloadInv ==
    ASSUME IInv, NEW t \in Tasks, RecordDownload(t)
    PROVE  IInv'
<1> USE DEF RecordDownload, Goes
<1>1. /\ rows \subseteq rows' /\ unlogged \subseteq unlogged'
      /\ rows' \subseteq [task : Tasks, tx : BOOLEAN] /\ unlogged' \subseteq Tasks
      /\ \A r \in rows' \ rows : r.task = t
      /\ [task |-> t, tx |-> tx[t]] \in rows' \/ t \in unlogged'
  BY DEF IInv, TypeOK
<1>2. tst[t] = "record" /\ tst'[t] = "ok" /\ \A u \in Tasks \ {t} : tst'[u] = tst[u]
  BY DEF IInv, TypeOK
<1>3. TypeOK'
  BY <1>1 DEF IInv, TypeOK, Working
<1>4. UNCHANGED <<sends, tx, got, todo>>
  OBVIOUS
<1> HIDE DEF RecordDownload, Goes
<1>5. OnePeer' /\ PaysOnce'
  BY <1>4 DEF IInv, OnePeer, PaysOnce
<1>6. NoRow' /\ Unpaid' /\ NothingYet'
  BY <1>1, <1>2, <1>4 DEF IInv, NoRow, Unpaid, NothingYet
<1>7. TxKnown'
  BY <1>1, <1>2, <1>4 DEF IInv, TxKnown
<1>8. PaymentOnRecord'
  <2> SUFFICES ASSUME NEW u \in Tasks, tst'[u] \in {"ok", "dead"}, sends'[u] > 0
               PROVE  u \in unlogged' \/ [task |-> u, tx |-> TRUE] \in rows'
    BY DEF PaymentOnRecord
  <2>1. CASE u = t
    BY <1>1, <1>2, <1>4, <2>1 DEF IInv, TxKnown
  <2>2. CASE u # t
    BY <1>1, <1>2, <1>4, <2>2 DEF IInv, PaymentOnRecord
  <2> QED BY <2>1, <2>2
<1> QED BY <1>3, <1>5, <1>6, <1>7, <1>8 DEF IInv

-----------------------------------------------------------------------------
\* Downloads are cut short: those between payment and row are unlogged.
LEMMA CutShort ==
    ASSUME IInv, NEW ts \in SUBSET Tasks,
           tst' \in [Tasks -> Working \cup {"idle", "ok", "error", "dead"}],
           \A t \in Tasks : tst'[t] = tst[t] \/ (tst'[t] = "dead" /\ t \in ts /\ tst[t] \in Working),
           unlogged' = unlogged \cup Unrecorded(ts),
           UNCHANGED <<todo, got, tx, sends, rows>>
    PROVE  OnePeer' /\ NoRow' /\ Unpaid' /\ NothingYet' /\ TxKnown' /\ PaysOnce' /\ PaymentOnRecord'
<1>1. OnePeer' /\ PaysOnce'
  BY DEF IInv, OnePeer, PaysOnce
<1>2. NoRow'
  BY DEF IInv, NoRow, Unpaid, Working
<1>3. Unpaid' /\ NothingYet' /\ TxKnown'
  BY DEF IInv, Unpaid, NothingYet, TxKnown
<1>4. PaymentOnRecord'
  <2> SUFFICES ASSUME NEW t \in Tasks, tst'[t] \in {"ok", "dead"}, sends'[t] > 0
               PROVE  t \in unlogged' \/ [task |-> t, tx |-> TRUE] \in rows'
    BY DEF PaymentOnRecord
  <2>1. CASE tst'[t] = tst[t]
    BY <2>1 DEF IInv, PaymentOnRecord
  <2>2. CASE tst[t] \in Working /\ t \in ts
    <3>1. tst[t] # "record" => sends[t] = 0
      BY <2>2 DEF IInv, Unpaid, Working
    <3> QED BY <2>2, <3>1 DEF Unrecorded, IInv, TypeOK
  <2> QED BY <2>1, <2>2
<1> QED BY <1>1, <1>2, <1>3, <1>4

LEMMA PanicsInv ==
    ASSUME IInv, NEW t \in Tasks, Panics(t)
    PROVE  IInv'
<1> USE DEF Panics, Goes
<1>1. /\ tst' \in [Tasks -> Working \cup {"idle", "ok", "error", "dead"}]
      /\ \A u \in Tasks : tst'[u] = tst[u] \/ (tst'[u] = "dead" /\ u \in {t} /\ tst[u] \in Working)
      /\ unlogged' = unlogged \cup Unrecorded({t})
      /\ UNCHANGED <<todo, got, tx, sends, rows>>
  BY DEF IInv, TypeOK, Working
<1>2. TypeOK'
  BY <1>1 DEF IInv, TypeOK, Unrecorded
<1> QED BY <1>1, <1>2, CutShort DEF IInv

LEMMA RestartInv ==
    ASSUME IInv, Restart
    PROVE  IInv'
<1> USE DEF Restart
<1>1. disk' \in [AllPaths -> Contents \cup {Torn, None}]
  BY DEF IInv, TypeOK
<1>2. /\ tst' \in [Tasks -> Working \cup {"idle", "ok", "error", "dead"}]
      /\ \A t \in Tasks : tst'[t] = tst[t] \/ (tst'[t] = "dead" /\ t \in Tasks /\ tst[t] \in Working)
      /\ unlogged' = unlogged \cup Unrecorded(Tasks)
      /\ UNCHANGED <<todo, got, tx, sends, rows>>
  BY DEF IInv, TypeOK
<1>3. restarts' \in 0..Restarts
  BY DownloadAssumption DEF IInv, TypeOK
<1>4. TypeOK'
  BY <1>1, <1>2, <1>3 DEF IInv, TypeOK, Working, Unrecorded
<1> QED BY <1>2, <1>4, CutShort DEF IInv

LEMMA NextInv ==
    ASSUME IInv, [Next]_vars
    PROVE  IInv'
<1>1. CASE UNCHANGED vars
  BY <1>1 DEF vars, IInv, TypeOK, OnePeer, NoRow, Unpaid, NothingYet, TxKnown, PaysOnce,
              PaymentOnRecord
<1>2. ASSUME NEW p \in Peers, PeerChanges(p)
      PROVE  IInv'
  BY <1>2 DEF PeerChanges, IInv, TypeOK, OnePeer, NoRow, Unpaid, NothingYet, TxKnown, PaysOnce,
              PaymentOnRecord
<1>3. ASSUME NEW t \in Tasks, PeerSends(t) \/ WriteFile(t) \/ PayForFile(t) \/ RecordDownload(t)
      PROVE  IInv'
  BY <1>3, PeerSendsInv, WriteFileInv, PayForFileInv, RecordDownloadInv
<1>4. ASSUME NEW t \in Tasks, PeerRefuses(t) \/ PeerUnreachable(t)
      PROVE  IInv'
  BY <1>4, AskInv
<1>5. ASSUME NEW t \in Http, HttpDownload(t) \/ StreamFails(t) \/ Panics(t)
      PROVE  IInv'
  BY <1>5, AskInv, PanicsInv DEF Tasks
<1>6. ASSUME NEW t \in Cli, CliDownload(t) \/ ProvidersFound(t) \/ AskNext(t)
      PROVE  IInv'
  BY <1>6, AskInv DEF Tasks
<1>7. CASE Restart
  BY <1>7, RestartInv
<1> QED BY <1>1, <1>2, <1>3, <1>4, <1>5, <1>6, <1>7 DEF Next

LEMMA InductiveInvariant == Spec => []IInv
<1>1. Init => IInv
  BY InitInv
<1>2. IInv /\ [Next]_vars => IInv'
  BY NextInv
<1> QED BY <1>1, <1>2, PTL DEF Spec

-----------------------------------------------------------------------------
\* The state of every download is well formed: there is a content where one is
\* written, paid for or recorded, and no provider is asked twice.
THEOREM DownloadTypeCorrect == Spec => []TypeOK
<1>1. IInv => TypeOK
  BY DEF IInv
<1> QED BY <1>1, InductiveInvariant, PTL

\* PaysOnce: the wallet is asked to send at most once per download, whatever
\* the number of providers, failures and restarts.
THEOREM DownloadPaysOnce == Spec => []PaysOnce
<1>1. IInv => PaysOnce
  BY DEF IInv
<1> QED BY <1>1, InductiveInvariant, PTL

\* FailureCostsNothing: download_file reports an error only before it has
\* received, written, paid for or recorded anything, and a panic or the end of
\* the process costs money only between the payment and the row.
THEOREM DownloadErrorsAreFree == Spec => []FailureCostsNothing
<1>1. ASSUME IInv, NEW t \in Tasks, tst[t] = "dead", t \notin unlogged
      PROVE  sends[t] = 0
  <2>1. [task |-> t, tx |-> TRUE] \notin rows
    <3>1. [task |-> t, tx |-> TRUE].task = t
      OBVIOUS
    <3> QED BY <1>1, <3>1 DEF IInv, NoRow
  <2>2. sends[t] \in Nat /\ ~(sends[t] > 0)
    BY <1>1, <2>1 DEF IInv, TypeOK, PaymentOnRecord
  <2> QED BY <2>2
<1>2. IInv => FailureCostsNothing
  BY <1>1 DEF IInv, NoRow, Unpaid, NothingYet, FailureCostsNothing
<1> QED BY <1>2, InductiveInvariant, PTL

\* PaymentOnRecord: the row that handle_file_content_response inserts has the
\* transaction of the money that was sent, unless an error, a panic or a crash
\* has lost either.
THEOREM DownloadPaymentsOnRecord == Spec => []PaymentOnRecord
<1>1. IInv => PaymentOnRecord
  BY DEF IInv
<1> QED BY <1>1, InductiveInvariant, PTL
=============================================================================
