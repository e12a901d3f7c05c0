------------------------------- MODULE Download -------------------------------
(***************************************************************************)
(* Downloading a file: the download-file endpoint, which asks one peer and *)
(* saves to a path it has been given, and the command getfile, which asks  *)
(* one provider after the other and saves to a path made of the file's id  *)
(* and name.  What is received is written, paid for and recorded, in steps *)
(* of which each can fail without the others being undone: most failures   *)
(* are logged, and some are panics, after which the endpoint answers that  *)
(* the request has failed and the node of a getfile is gone.               *)
(*                                                                         *)
(* All downloads are of one file.  The providers' side is that of          *)
(* handle_file_request: what is at the path of the row, whatever it has    *)
(* become, or an error.  How a request travels is the subject of NodeLoops.*)
(***************************************************************************)
EXTENDS Naturals, FiniteSets

CONSTANTS
    Http,        \* requests to the endpoint, one each
    Cli,         \* getfile commands, one each
    Peers,
    Paths,       \* paths the endpoint is given
    AppPath,     \* the path of getfile
    File,        \* the content whose hash is the id that is asked for
    Other,       \* any other content
    Torn,        \* a part of a content, or nothing
    None,
    Restarts     \* how often the node may be restarted

Tasks    == Http \cup Cli
AllPaths == Paths \cup {AppPath}
Contents == {File, Other}
Working  == {"find", "next", "ask", "write", "pay", "record"}

ASSUME DownloadAssumption ==
    /\ Http \cap Cli = {}
    /\ AppPath \notin Paths
    /\ File # Other /\ Torn \notin Contents
    /\ None \notin Peers \cup AllPaths \cup Contents \cup {Torn}
    /\ Restarts \in Nat

VARIABLES
    provided,  \* what a peer has at the path of its row, None if it has no row
    disk,      \* what is at a path of this node
    tst,       \* what each download does
    tpath,     \* where it saves
    tpeer,     \* the peer it has asked
    todo,      \* the providers it can still ask
    got,       \* the content it has received
    tx,        \* has its payment a transaction?
    sends,     \* the wallet: how often a download has sent money
    rows,      \* downloaded_files: the downloads, and their payment_tx_id
    unlogged,  \* history: the downloads whose transaction id or row is lost, to
               \* an error, a panic or a crash
    restarts

vars == <<provided, disk, tst, tpath, tpeer, todo, got, tx, sends, rows, unlogged,
          restarts>>

TypeOK ==
    /\ provided \in [Peers -> Contents \cup {None}]
    /\ disk \in [AllPaths -> Contents \cup {Torn, None}]
    /\ tst \in [Tasks -> Working \cup {"idle", "ok", "error", "dead"}]
    /\ tpath \in [Tasks -> AllPaths \cup {None}]
    /\ tpeer \in [Tasks -> Peers \cup {None}]
    /\ todo \in [Tasks -> SUBSET Peers]
    /\ got \in [Tasks -> Contents \cup {None}]
    /\ tx \in [Tasks -> BOOLEAN]
    /\ sends \in [Tasks -> Nat]
    /\ rows \subseteq [task : Tasks, tx : BOOLEAN]
    /\ unlogged \subseteq Tasks
    /\ restarts \in 0..Restarts
    /\ \A t \in Tasks :
         /\ tst[t] \in {"write", "pay", "record"} => got[t] # None
         /\ tst[t] \in Working \ {"find", "next"} => tpeer[t] \notin todo[t] \cup {None}

Init ==
    /\ provided \in [Peers -> Contents \cup {None}]
    /\ disk = [q \in AllPaths |-> None]
    /\ tst = [t \in Tasks |-> "idle"]
    /\ tpath = [t \in Tasks |-> None] /\ tpeer = [t \in Tasks |-> None]
    /\ todo = [t \in Tasks |-> {}]
    /\ got = [t \in Tasks |-> None] /\ tx = [t \in Tasks |-> FALSE]
    /\ sends = [t \in Tasks |-> 0]
    /\ rows = {} /\ unlogged = {}
    /\ restarts = 0

Goes(t, st) == tst' = [tst EXCEPT ![t] = st]

-----------------------------------------------------------------------------
(* The endpoint and the command, up to the request.                        *)

\* download_file of the endpoints, with its check of the path.
HttpDownload(t) ==
    /\ tst[t] = "idle"
    /\ \E q \in Paths, p \in Peers :
         \/ /\ disk[q] = None
            /\ tpath' = [tpath EXCEPT ![t] = q]
            /\ tpeer' = [tpeer EXCEPT ![t] = p]
            /\ Goes(t, "ask")
         \/ disk[q] # None /\ Goes(t, "error") /\ UNCHANGED <<tpath, tpeer>>
    /\ UNCHANGED <<provided, disk, todo, got, tx, sends, rows, unlogged, restarts>>

\* getfile: the command line reads one line at a time.
CliDownload(t) ==
    /\ tst[t] = "idle"
    /\ \A u \in Cli : tst[u] \notin Working
    /\ tpath' = [tpath EXCEPT ![t] = AppPath]
    /\ Goes(t, "find")
    /\ UNCHANGED <<provided, disk, tpeer, todo, got, tx, sends, rows, unlogged, restarts>>

\* get_providers: records expire and lag behind, so any peers may be found.
ProvidersFound(t) ==
    /\ tst[t] = "find"
    /\ \E found \in SUBSET Peers :
         /\ todo' = [todo EXCEPT ![t] = found]
         /\ Goes(t, IF found = {} THEN "error" ELSE "next")
    /\ UNCHANGED <<provided, disk, tpath, tpeer, got, tx, sends, rows, unlogged, restarts>>

\* Variant of AskNext: the peer that is asked stays among those to ask.
AskNextKeeps(t) ==
    /\ tst[t] = "next"
    /\ \E p \in todo[t] : tpeer' = [tpeer EXCEPT ![t] = p] /\ Goes(t, "ask")
    /\ UNCHANGED <<provided, disk, tpath, todo, got, tx, sends, rows, unlogged, restarts>>

\* The loop of NetworkClient::download_file over the providers.
AskNext(t) ==
    /\ tst[t] = "next"
    /\ \/ \E p \in todo[t] :
            /\ tpeer' = [tpeer EXCEPT ![t] = p]
            /\ todo' = [todo EXCEPT ![t] = @ \ {p}]
            /\ Goes(t, "ask")
       \/ todo[t] = {} /\ Goes(t, "error") /\ UNCHANGED <<tpeer, todo>>
    /\ UNCHANGED <<provided, disk, tpath, got, tx, sends, rows, unlogged, restarts>>

-----------------------------------------------------------------------------
(* NetworkClient::download_file_from_peer: the outcomes of the request.    *)

\* handle_file_request of the peer finds a row and reads the file.
PeerSends(t) ==
    /\ tst[t] = "ask" /\ provided[tpeer[t]] # None
    /\ got' = [got EXCEPT ![t] = provided[tpeer[t]]]
    /\ Goes(t, "write")
    /\ UNCHANGED <<provided, disk, tpath, tpeer, todo, tx, sends, rows, unlogged, restarts>>

\* The peer has no row, or cannot read the file: OrcaNetResponse::Error is a
\* response like any other, and ends the download.
PeerRefuses(t) ==
    /\ tst[t] = "ask"
    /\ Goes(t, "ok")
    /\ UNCHANGED <<provided, disk, tpath, tpeer, todo, got, tx, sends, rows, unlogged,
                   restarts>>

\* The peer cannot be dialled: the endpoint reports the error, and getfile asks
\* the next provider.
PeerUnreachable(t) ==
    /\ tst[t] = "ask"
    /\ Goes(t, IF t \in Cli THEN "next" ELSE "error")
    /\ UNCHANGED <<provided, disk, tpath, tpeer, todo, got, tx, sends, rows, unlogged,
                   restarts>>

\* The stream fails, the network loop drops the sender, and the expect ends the
\* task of the endpoint.  For getfile, it ends the process: see Restart.
StreamFails(t) ==
    /\ tst[t] = "ask" /\ t \in Http
    /\ Goes(t, "dead")
    /\ UNCHANGED <<provided, disk, tpath, tpeer, todo, got, tx, sends, rows, unlogged,
                   restarts>>

-----------------------------------------------------------------------------
(* Utils::handle_file_content_response.                                    *)

\* std::fs::write: all of it, or a failure to open the file or to fill it, which
\* is logged.
WriteFile(t) ==
    /\ tst[t] = "write"
    /\ \/ disk' = [disk EXCEPT ![tpath[t]] = got[t]]
       \/ disk' = [disk EXCEPT ![tpath[t]] = Torn]
       \/ UNCHANGED disk
    /\ Goes(t, "pay")
    /\ UNCHANGED <<provided, tpath, tpeer, todo, got, tx, sends, rows, unlogged, restarts>>

\* Variant of PayForFile: the payment is tried again if its answer is lost.
PayForFileRetries(t) ==
    /\ tst[t] = "pay"
    /\ \E n \in 1..2 : sends' = [sends EXCEPT ![t] = @ + n]
    /\ tx' = [tx EXCEPT ![t] = TRUE]
    /\ Goes(t, "record")
    /\ UNCHANGED <<provided, disk, tpath, tpeer, todo, got, rows, unlogged, restarts>>

\* send_to_address: its transaction id, or an error, which is logged.  bitcoind
\* may have sent the money although its answer is lost.
PayForFile(t) ==
    /\ tst[t] = "pay"
    /\ \/ /\ tx' = [tx EXCEPT ![t] = TRUE]
          /\ sends' = [sends EXCEPT ![t] = @ + 1]
          /\ UNCHANGED unlogged
       \/ /\ sends' = [sends EXCEPT ![t] = @ + 1]
          /\ unlogged' = unlogged \cup {t}
          /\ UNCHANGED tx
       \/ UNCHANGED <<tx, sends, unlogged>>
    /\ Goes(t, "record")
    /\ UNCHANGED <<provided, disk, tpath, tpeer, todo, got, rows, restarts>>

\* Variant of RecordDownload: the row has no transaction.
RecordDownloadUnpaid(t) ==
    /\ tst[t] = "record"
    /\ rows' = rows \cup {[task |-> t, tx |-> FALSE]}
    /\ Goes(t, "ok")
    /\ UNCHANGED <<provided, disk, tpath, tpeer, todo, got, tx, sends, unlogged, restarts>>

\* Variant of RecordDownload: an error of the database is that of the download.
RecordDownloadOrFail(t) ==
    /\ tst[t] = "record"
    /\ \/ rows' = rows \cup {[task |-> t, tx |-> tx[t]]} /\ UNCHANGED unlogged /\ Goes(t, "ok")
       \/ unlogged' = unlogged \cup {t} /\ UNCHANGED rows /\ Goes(t, "error")
    /\ UNCHANGED <<provided, disk, tpath, tpeer, todo, got, tx, sends, restarts>>

\* insert_downloaded_file; an error of the database is logged.
RecordDownload(t) ==
    /\ tst[t] = "record"
    /\ \/ rows' = rows \cup {[task |-> t, tx |-> tx[t]]} /\ UNCHANGED unlogged
       \/ unlogged' = unlogged \cup {t} /\ UNCHANGED rows
    /\ Goes(t, "ok")
    /\ UNCHANGED <<provided, disk, tpath, tpeer, todo, got, tx, sends, restarts>>

\* The downloads that end with their money sent and their row not written.
Unrecorded(ts) == {t \in ts : tst[t] = "record" /\ sends[t] > 0}

\* The configuration cannot be read for the wallet's address or for the database,
\* or the database cannot be opened: the task of the endpoint panics, with the
\* file written and before or after its payment, and the request is answered with
\* status 500.  For getfile, see Restart.
Panics(t) ==
    /\ tst[t] \in {"pay", "record"} /\ t \in Http
    /\ unlogged' = unlogged \cup Unrecorded({t})
    /\ Goes(t, "dead")
    /\ UNCHANGED <<provided, disk, tpath, tpeer, todo, got, tx, sends, rows, restarts>>

-----------------------------------------------------------------------------
\* A provider edits its file, provides it again, or gives it up.
PeerChanges(p) ==
    /\ \E x \in Contents \cup {None} : provided' = [provided EXCEPT ![p] = x]
    /\ UNCHANGED <<disk, tst, tpath, tpeer, todo, got, tx, sends, rows, unlogged, restarts>>

\* The process ends, at any point, of itself or in a panic of getfile, and is
\* started again; a file that is being written is left as it is then.
Restart ==
    /\ restarts < Restarts
    /\ restarts' = restarts + 1
    /\ \/ UNCHANGED disk
       \/ \E t \in Tasks : tst[t] = "write" /\ disk' = [disk EXCEPT ![tpath[t]] = Torn]
    /\ tst' = [t \in Tasks |-> IF tst[t] \in Working THEN "dead" ELSE tst[t]]
    /\ unlogged' = unlogged \cup Unrecorded(Tasks)
    /\ UNCHANGED <<provided, tpath, tpeer, todo, got, tx, sends, rows>>

Next ==
    \/ \E t \in Http : HttpDownload(t) \/ StreamFails(t) \/ Panics(t)
    \/ \E t \in Cli : CliDownload(t) \/ ProvidersFound(t) \/ AskNext(t)
    \/ \E t \in Tasks :
         \/ PeerSends(t) \/ PeerRefuses(t) \/ PeerUnreachable(t)
         \/ WriteFile(t) \/ PayForFile(t) \/ RecordDownload(t)
    \/ \E p \in Peers : PeerChanges(p)
    \/ Restart

Spec == Init /\ [][Next]_vars

-----------------------------------------------------------------------------
\* A download sends money at most once, however many providers it asks and
\* whichever of its steps fail.
PaysOnce == \A t \in Tasks : sends[t] <= 1

\* A download that reports an error has cost nothing: no money, no row, and
\* nothing written to the path.  One that has ended in a panic or with the
\* process, and is not known to have succeeded, has no row either, and has sent
\* money only if it was caught between its payment and its row.
FailureCostsNothing ==
    \A t \in Tasks :
      /\ tst[t] = "error" => sends[t] = 0 /\ got[t] = None
      /\ tst[t] = "dead" => sends[t] = 0 \/ t \in unlogged
      /\ tst[t] \in {"error", "dead"} => \A r \in rows : r.task # t

\* A download that is over has a row with its transaction for the money it has
\* sent, unless bitcoind's answer is lost, or the row to an error of the
\* database, a panic or the end of the process.
PaymentOnRecord ==
    \A t \in Tasks :
      tst[t] \in {"ok", "dead"} /\ sends[t] > 0 =>
        t \in unlogged \/ [task |-> t, tx |-> TRUE] \in rows

\* "Downloaded file" and "Got file": the file that was asked for is on the disk.
SuccessMeansFile ==
    [][\A t \in Tasks : tst[t] # "ok" /\ tst'[t] = "ok" => disk[tpath[t]] = File]_vars
=============================================================================
