---------------------------- MODULE ProxyLifecycle ----------------------------
(***************************************************************************)
(* Starting and stopping the HTTP proxy of a node.                         *)
(*                                                                         *)
(* Whether a proxy runs is recorded three times: in the configuration file *)
(* (what the endpoints look at), in the request handler's sender (what the *)
(* handler looks at), and in the state of the spawned proxy task.  A       *)
(* provider is recorded a fourth time, by its provider record in the DHT.  *)
(* The endpoints check the file, and send an event when it is too late to  *)
(* check again.  The file is overwritten in place: whoever reads it before *)
(* the new text is in panics, and so does a node that is started with what *)
(* a crash has left of it.                                                 *)
(*                                                                         *)
(* The handler starts the proxy before it asks the network loop for the    *)
(* record of a provider.  That call may wait for ever, or panic: then the  *)
(* proxy serves, and nobody can tell it to stop.                           *)
(***************************************************************************)
EXTENDS Naturals, Sequences, FiniteSets

CONSTANTS
    Tasks,       \* requests to the HTTP server or the command line, one each
    Ops,         \* what they ask for
    Boot,        \* start_orca_node, which restarts the configured proxy
    Sessions,    \* session ids of proxy clients
    CliSession,  \* the session "sess1" that the command line starts
    Provider,    \* ProxyMode::ProxyProvider; the other modes are sessions
    None,
    Torn,        \* a configuration file that is being overwritten
    Faults,      \* what may go wrong
    Restarts     \* how often the node may be restarted

HttpStarts == {"httpProvide", "httpClient", "httpConnect"}
CliStarts  == {"cliProvide", "cliClient"}
Starts     == HttpStarts \cup CliStarts \cup {"boot"}
Stops      == {"httpStop", "cliStop"}
CliOps     == CliStarts \cup {"cliStop"}

AllFaults == {"db",       \* the database cannot be opened for an event
              "disk",     \* the configuration file cannot be read or written
              "stop",     \* the network loop waits for ever in one event
              "death",    \* the network loop panics
              "forget"}   \* a query fails: its caller is never told

ASSUME ProxyAssumption ==
    /\ Boot \notin Tasks
    /\ None \notin Tasks \cup {Boot} \cup Sessions \cup {Provider}
    /\ Provider \notin Sessions
    /\ Torn \notin Sessions \cup {Provider, None}
    /\ CliSession \in Sessions
    /\ Ops \subseteq (Starts \cup Stops) \ {"boot"}
    /\ Faults \subseteq AllFaults
    /\ Restarts \in Nat

VARIABLES
    config,    \* the proxy mode in the configuration file, None, or Torn
    known,     \* the sessions with an active row in the table
    evQ,       \* the event channel: the tasks parked on their event
    tst,       \* what each task does
    top,       \* its operation, until it is done
    tmode,     \* the mode it starts
    hpc,       \* the request handler
    hmode,     \* the mode it starts or stops
    hstop,     \* the proxy task it has sent StopProxy to
    sender,    \* proxy_event_sender: the proxy task it leads to, or None
    pst,       \* the proxy task spawned for each StartProxy event
    record,    \* is the provider record of the proxy in the DHT?
    net,       \* the network loop
    restarts

taskVars == <<tst, top, tmode>>
handlerVars == <<hpc, hmode, hstop, sender>>
vars == <<config, known, evQ, taskVars, handlerVars, pst, record, net, restarts>>

Callers == Tasks \cup {Boot}
Modes   == Sessions \cup {Provider}

\* "dead": StopProxy's own expect has failed; "killed": the handler has panicked
\* for another reason; "down": the node has.
HandlerPCs == {"recv", "provide", "confirm", "forgotten", "write", "writing",
               "stopSend", "withdraw", "withdrawSent", "clear", "clearing",
               "dead", "killed", "down"}

TypeOK ==
    /\ config \in Modes \cup {None, Torn}
    /\ known \subseteq Sessions
    /\ evQ \in Seq(Callers)
    /\ tst \in [Callers -> {"idle", "request", "checked", "event", "done"}]
    /\ top \in [Callers -> Ops \cup {"boot", "none"}]
    /\ tmode \in [Callers -> Modes \cup {None}]
    /\ hpc \in HandlerPCs
    /\ hmode \in Modes \cup {None}
    /\ hstop \in Callers \cup {None}
    /\ sender \in Callers \cup {None}
    /\ pst \in [Callers -> {"none", "starting", "listening", "stopping",
                            "ended", "panicked"}]
    /\ record \in BOOLEAN
    /\ net \in {"up", "stopped", "dead"}
    /\ restarts \in 0..Restarts
    /\ (hmode = None) <=> (hpc \in {"recv", "dead", "killed", "down"})
    /\ (hstop = None) <=> (hpc # "stopSend")

\* The configuration file and the sessions are those an earlier run left.
Init ==
    /\ config \in Modes \cup {None}
    /\ known \in SUBSET Sessions
    /\ evQ = <<>>
    /\ tst = [t \in Callers |-> "idle"]
    /\ top = [t \in Callers |-> "none"]
    /\ tmode = [t \in Callers |-> None]
    /\ hpc = "recv" /\ hmode = None /\ hstop = None /\ sender = None
    /\ pst = [t \in Callers |-> "none"]
    /\ record = FALSE
    /\ net = "up"
    /\ restarts = 0

-----------------------------------------------------------------------------
(* Endpoints, command line and start of the node: up to the event.         *)

TaskGoes(t, o, m, st) ==
    /\ tst' = [tst EXCEPT ![t] = st]
    /\ top' = [top EXCEPT ![t] = IF st = "done" THEN "none" ELSE o]
    /\ tmode' = [tmode EXCEPT ![t] = m]
    /\ UNCHANGED <<config, known, evQ, handlerVars, pst, record, net, restarts>>

\* A node that cannot read its configuration file panics as it starts.
NodeUp == hpc # "down"

Begins(t, o) == NodeUp /\ t \in Tasks /\ tst[t] = "idle" /\ o \in Ops

\* The endpoint panics, and its request fails, on a file that is being written.
HttpStop(t) ==
    /\ Begins(t, "httpStop")
    /\ TaskGoes(t, "httpStop", None, IF config \in Modes THEN "checked" ELSE "done")

\* The mode is fixed by the request, except that of connect, which is the
\* session it will create.
HttpStart(t) ==
    \E o \in HttpStarts :
      /\ Begins(t, o)
      /\ IF config # None   \* Torn: the endpoint panics
         THEN TaskGoes(t, o, None, "done")
         ELSE \/ o = "httpProvide" /\ TaskGoes(t, o, Provider, "checked")
              \/ /\ o = "httpClient"
                 /\ \E s \in Sessions : TaskGoes(t, o, s, "checked")
              \/ o = "httpConnect" /\ TaskGoes(t, o, None, "request")

\* The provider's answer to HTTPProxyProvideRequest: a new session, inserted
\* in the table, or an error.
ConnectAnswered(t) ==
    /\ tst[t] = "request" /\ net = "up"
    /\ \/ \E s \in Sessions \ (known \cup {CliSession}) :
            /\ known' = known \cup {s}
            /\ tmode' = [tmode EXCEPT ![t] = s]
            /\ tst' = [tst EXCEPT ![t] = "checked"]
       \/ tst' = [tst EXCEPT ![t] = "done"] /\ UNCHANGED <<known, tmode>>
    /\ UNCHANGED <<config, evQ, top, handlerVars, pst, record, net, restarts>>

\* The expect of send_request once the network loop is gone.
ConnectPanics(t) ==
    /\ tst[t] = "request" /\ net = "dead"
    /\ tst' = [tst EXCEPT ![t] = "done"]
    /\ UNCHANGED <<config, known, evQ, top, tmode, handlerVars, pst, record, net, restarts>>

\* The command line checks nothing.  It reads one line at a time, and only
\* after the node has sent the event for the configured proxy.
CliCommand(t) ==
    /\ tst[Boot] = "done"
    /\ \A u \in Tasks : top[u] \in CliOps => tst[u] = "done"
    /\ \E o \in CliOps :
         /\ Begins(t, o)
         /\ TaskGoes(t, o, CASE o = "cliProvide" -> Provider
                             [] o = "cliClient" -> CliSession
                             [] OTHER -> None, "checked")

\* start_orca_node, after it has started the HTTP server.
BootProxy ==
    /\ NodeUp /\ config # Torn /\ tst[Boot] = "idle"
    /\ TaskGoes(Boot, "boot", config, IF config = None THEN "done" ELSE "checked")

\* Nobody receives the event of a handler that has panicked.
SendEvent(t) ==
    /\ tst[t] = "checked"
    /\ IF hpc \in {"dead", "killed"}
       THEN tst' = [tst EXCEPT ![t] = "done"] /\ UNCHANGED evQ
       ELSE tst' = [tst EXCEPT ![t] = "event"] /\ evQ' = Append(evQ, t)
    /\ UNCHANGED <<config, known, top, tmode, handlerVars, pst, record, net, restarts>>

-----------------------------------------------------------------------------
(* RequestHandlerLoop::handle_event, StartProxy.                           *)

\* Popping the event releases its sender, whose endpoint reports success.
TakeEvent(t, ops) ==
    /\ hpc = "recv" /\ evQ # <<>> /\ Head(evQ) = t /\ top[t] \in ops
    /\ evQ' = Tail(evQ)
    /\ tst' = [tst EXCEPT ![t] = "done"]
    /\ top' = [top EXCEPT ![t] = "none"]
    /\ UNCHANGED <<config, known, tmode, record, net, restarts>>

Spawn(t) ==
    /\ pst' = [pst EXCEPT ![t] = "starting"]
    /\ sender' = t
    /\ hmode' = tmode[t]
    /\ hpc' = IF tmode[t] = Provider THEN "provide" ELSE "write"
    /\ UNCHANGED hstop

\* Variant of HandleStartProxy: a running proxy is not looked for.
HandleStartProxyAlways(t) == TakeEvent(t, Starts) /\ Spawn(t)

HandleStartProxy(t) ==
    /\ TakeEvent(t, Starts)
    /\ \/ sender = None /\ Spawn(t)
       \/ sender # None /\ UNCHANGED <<handlerVars, pst>>

\* start_providing(..).await, after the proxy task was spawned: the record is
\* put, and the query ends, or fails and the handler is not told.
NetProvide ==
    /\ hpc = "provide" /\ net = "up"
    /\ hpc' = "confirm" /\ record' = TRUE
    /\ UNCHANGED <<config, known, evQ, taskVars, hmode, hstop, sender, pst, net, restarts>>

Awaited(to) ==
    /\ hpc = "confirm" /\ net = "up"
    /\ hpc' = to
    /\ UNCHANGED <<config, known, evQ, taskVars, hmode, hstop, sender, pst, record, net,
                   restarts>>

ProvideConfirmed == Awaited("write")
ProvideForgotten == "forget" \in Faults /\ Awaited("forgotten")

\* modify_config_with_kv_pair reads the file, and fs::write truncates it ..
TruncateConfig ==
    /\ hpc \in {"write", "clear"}
    /\ config' = Torn
    /\ hpc' = IF hpc = "write" THEN "writing" ELSE "clearing"
    /\ UNCHANGED <<known, evQ, taskVars, hmode, hstop, sender, pst, record, net, restarts>>

\* .. and writes it: the mode of the proxy that was started.
WriteConfig ==
    /\ hpc = "writing"
    /\ config' = hmode
    /\ hpc' = "recv" /\ hmode' = None
    /\ UNCHANGED <<known, evQ, taskVars, hstop, sender, pst, record, net, restarts>>

-----------------------------------------------------------------------------
(* RequestHandlerLoop::handle_event, StopProxy.                            *)

\* Variant of AfterStop: the provider record is left in the DHT.
AfterStopClears(m) == "clear"

AfterStop(m) == IF m = Provider THEN "withdraw" ELSE "clear"

\* The handler panics: its sender goes with it, and the receiver every parked
\* task waits for.  A proxy task that loses its sender goes on serving.
HandlerGone(pc) ==
    /\ hpc' = pc /\ hmode' = None /\ sender' = None
    /\ evQ' = <<>>
    /\ tst' = [u \in Callers |-> IF tst[u] = "event" THEN "done" ELSE tst[u]]
    /\ UNCHANGED <<config, known, top, tmode, hstop, pst, record, net, restarts>>

\* expect("Proxy mode to be present in config").
HandlerPanics(t) ==
    /\ hpc = "recv" /\ evQ # <<>> /\ Head(evQ) = t /\ top[t] \in Stops
    /\ config \notin Modes
    /\ HandlerGone("dead")

\* The expects of start_providing and stop_providing.
HandlerLosesNet ==
    /\ net = "dead" /\ hpc \in {"provide", "confirm", "forgotten", "withdraw"}
    /\ HandlerGone("killed")

\* expect("Proxy configuration to be updated"): before the file is touched, or
\* with what is left of it.
WriteFails ==
    /\ "disk" \in Faults /\ hpc \in {"write", "writing", "clear", "clearing"}
    /\ HandlerGone("killed")

\* ProvidedFilesTable::new(None) and the like, for an event of another kind.
HandlerDies == "db" \in Faults /\ hpc = "recv" /\ HandlerGone("killed")

\* Without a sender the event is logged, and the rest is done all the same.
HandleStopProxy(t) ==
    /\ config \in Modes
    /\ TakeEvent(t, Stops)
    /\ hmode' = config
    /\ sender' = None /\ hstop' = sender
    /\ hpc' = IF sender = None THEN AfterStop(config) ELSE "stopSend"
    /\ UNCHANGED pst

\* Variant of StopReleased: the handler waits for the end of the proxy task.
StopReleasedAtEnd ==
    /\ hpc = "stopSend" /\ pst[hstop] \in {"ended", "panicked"}
    /\ hpc' = AfterStop(hmode) /\ hstop' = None
    /\ UNCHANGED <<config, known, evQ, taskVars, hmode, sender, pst, record, net, restarts>>

\* Variant of StopReleased: the handler keeps the proxy task it has stopped.
StopReleasedKeepsTask ==
    /\ hpc = "stopSend" /\ pst[hstop] \notin {"starting", "listening"}
    /\ hpc' = AfterStop(hmode)
    /\ UNCHANGED <<config, known, evQ, taskVars, hmode, hstop, sender, pst, record,
                   net, restarts>>

\* send(StopProxy).await ends when the proxy task has popped the event, or has
\* dropped its receiver.
StopReleased ==
    /\ hpc = "stopSend" /\ pst[hstop] \notin {"starting", "listening"}
    /\ hpc' = AfterStop(hmode) /\ hstop' = None
    /\ UNCHANGED <<config, known, evQ, taskVars, hmode, sender, pst, record, net, restarts>>

\* stop_providing(..).await: the send ends when the network loop has taken the
\* command, or is gone.
SendWithdraw ==
    /\ hpc = "withdraw" /\ net # "dead"
    /\ hpc' = "withdrawSent"
    /\ UNCHANGED <<config, known, evQ, taskVars, hmode, hstop, sender, pst, record, net,
                   restarts>>

NetWithdraw ==
    /\ hpc = "withdrawSent" /\ net \in {"up", "dead"}
    /\ hpc' = "clear" /\ record' = FALSE
    /\ UNCHANGED <<config, known, evQ, taskVars, hmode, hstop, sender, pst, net, restarts>>

\* The loop waits for ever for the handler, which waits for it, or for a peer
\* that never ends its stream: it takes no more commands and ends no query.
NetStops ==
    /\ "stop" \in Faults /\ net = "up"
    /\ net' = "stopped"
    /\ UNCHANGED <<config, known, evQ, taskVars, handlerVars, pst, record, restarts>>

\* The loop panics, and the store goes with it.
NetDies ==
    /\ "death" \in Faults /\ net # "dead"
    /\ net' = "dead" /\ record' = FALSE
    /\ UNCHANGED <<config, known, evQ, taskVars, handlerVars, pst, restarts>>

\* Variant of ClearConfig: the file gets the old mode back.
ClearConfigNot ==
    /\ hpc = "clearing"
    /\ config' = hmode
    /\ hpc' = "recv" /\ hmode' = None
    /\ UNCHANGED <<known, evQ, taskVars, hstop, sender, pst, record, net, restarts>>

\* The other half of TruncateConfig when a proxy was stopped.
ClearConfig ==
    /\ hpc = "clearing"
    /\ config' = None
    /\ hpc' = "recv" /\ hmode' = None
    /\ UNCHANGED <<known, evQ, taskVars, hstop, sender, pst, record, net, restarts>>

-----------------------------------------------------------------------------
(* start_http_proxy.                                                       *)

ProxyGoes(t, from, to) ==
    /\ pst[t] = from
    /\ pst' = [pst EXCEPT ![t] = to]
    /\ UNCHANGED <<config, known, evQ, taskVars, handlerVars, record, net, restarts>>

\* The listener lives until the task ends, while it cleans up too.  Both
\* modes listen on port 3000, and 0.0.0.0 conflicts with 127.0.0.1.
PortTaken == \E t \in Callers : pst[t] \in {"listening", "stopping"}

Servable(m) == m = Provider \/ m \in known

\* get_handler: an unknown or closed session ends the task, and so does a table
\* of sessions that cannot be opened.
ProxyRefused(t) ==
    /\ ~Servable(tmode[t]) \/ ("db" \in Faults /\ tmode[t] # Provider)
    /\ ProxyGoes(t, "starting", "ended")

\* TcpListener::bind(addr), with its expect.
ProxyBinds(t) ==
    /\ Servable(tmode[t])
    /\ \/ ~PortTaken /\ ProxyGoes(t, "starting", "listening")
       \/ PortTaken /\ ProxyGoes(t, "starting", "panicked")

ProxyTakesStop(t) ==
    hpc = "stopSend" /\ hstop = t /\ ProxyGoes(t, "listening", "stopping")

\* Variant of ProxyEnds: the provider cleans up as the client does.
ProxyEndsNever(t) == FALSE /\ ProxyGoes(t, "stopping", "ended")

\* clean_up: a provider has nothing to do.  A client awaits the cancellation
\* of its token, which nothing cancels: it has no step.
ProxyEnds(t) == tmode[t] = Provider /\ ProxyGoes(t, "stopping", "ended")

-----------------------------------------------------------------------------
\* What is left of the process: its tasks and channels are not, and the record
\* in the DHT is taken to run out before the node is back.
ProcessEnds(hp) ==
    /\ evQ' = <<>>
    /\ tst' = [t \in Callers |->
                 IF t = Boot \/ tst[t] = "idle" THEN "idle" ELSE "done"]
    /\ hpc' = hp /\ hmode' = None /\ hstop' = None /\ sender' = None
    /\ pst' = [t \in Callers |-> "none"]
    /\ record' = FALSE
    /\ net' = "up"
    /\ top' = [t \in Callers |-> "none"]
    /\ tmode' = [t \in Callers |-> None]
    /\ UNCHANGED known

\* start_orca_node meets a file that the handler is writing, for a request that
\* has come before the end of the start, and its panic is that of main.  The
\* runtime lets the handler finish the write, unless it has failed.
BootPanics ==
    /\ NodeUp /\ config = Torn /\ tst[Boot] = "idle"
    /\ config' = CASE hpc = "writing" -> hmode
                   [] hpc = "clearing" -> None
                   [] OTHER -> Torn
    /\ ProcessEnds("down")
    /\ UNCHANGED restarts

\* The process ends, at any point, and is started again: with a torn file in
\* vain.
Restart ==
    /\ restarts < Restarts
    /\ restarts' = restarts + 1
    /\ ProcessEnds(IF config = Torn THEN "down" ELSE "recv")
    /\ UNCHANGED config

Endpoint(t) == HttpStop(t) \/ HttpStart(t) \/ CliCommand(t)

TaskStep(t) == ConnectAnswered(t) \/ ConnectPanics(t) \/ SendEvent(t)

HandlerStep ==
    \/ \E t \in Callers :
         HandleStartProxy(t) \/ HandleStopProxy(t) \/ HandlerPanics(t)
    \/ TruncateConfig \/ WriteConfig \/ StopReleased \/ ClearConfig
    \/ SendWithdraw \/ HandlerLosesNet

NetStep == NetProvide \/ ProvideConfirmed \/ NetWithdraw

Fault == NetStops \/ NetDies \/ ProvideForgotten \/ WriteFails \/ HandlerDies

ProxyStep(t) ==
    ProxyRefused(t) \/ ProxyBinds(t) \/ ProxyTakesStop(t) \/ ProxyEnds(t)

Next ==
    \/ \E t \in Tasks : Endpoint(t)
    \/ BootProxy \/ BootPanics
    \/ \E t \in Callers : TaskStep(t) \/ ProxyStep(t)
    \/ HandlerStep
    \/ NetStep
    \/ Fault
    \/ Restart

Spec == Init /\ [][Next]_vars

\* The runtime polls every task that can go on, the network loop serves its
\* commands, and a peer answers or its request fails, unless a fault of Faults
\* comes first.
FairSpec ==
    /\ Spec
    /\ WF_vars(HandlerStep) /\ WF_vars(NetStep) /\ WF_vars(BootProxy \/ BootPanics)
    /\ \A t \in Callers : WF_vars(TaskStep(t)) /\ WF_vars(ProxyStep(t))

-----------------------------------------------------------------------------
\* Between two events, the file is whole, so that no endpoint fails on it, and
\* the handler has a proxy exactly when the file names one, and the one it names;
\* only before the node has restarted the configured
\* proxy may it name one the handler does not have.
Booting == tst[Boot] # "done"

ConfigTracksSender ==
    hpc = "recv" =>
      /\ config # Torn
      /\ sender # None => config = tmode[sender]
      /\ sender = None => config = None \/ Booting

\* Between two events, the node is advertised as a proxy provider exactly when
\* the file says that it is one, from the time the configured proxy is
\* restarted and as long as the network loop lives: StartProxy and StopProxy
\* change both or neither.
RecordTracksConfig ==
    hpc = "recv" =>
      /\ record => config = Provider
      /\ config = Provider => record \/ Booting \/ net = "dead"

\* No handler that lives has lost a proxy: a proxy task that serves, or is about
\* to, is the one the handler would send StopProxy to, or has sent it to, also
\* while it waits for the record, for ever perhaps, or writes the file.  A
\* handler that panics there, or in an event of another kind, leaves the proxy
\* behind; the expect of StopProxy itself never does.
ProxyReachable ==
    \A t \in Callers :
      pst[t] \in {"starting", "listening"} => t \in {sender, hstop} \/ hpc = "killed"

\* What makes them inductive: what the handler is doing to the records, ..
HandlerInv ==
    /\ hpc = "recv" => (record <=> sender # None /\ config = Provider /\ net # "dead")
    /\ hpc \in {"provide", "confirm", "forgotten", "write", "writing"} =>
         sender # None /\ hmode = tmode[sender]
    /\ hpc \in {"provide", "confirm", "forgotten"} => hmode = Provider
    /\ hpc \in {"confirm", "write", "writing"} =>
         (record <=> hmode = Provider /\ net # "dead")
    /\ hpc \in {"stopSend", "withdraw", "withdrawSent", "clear", "clearing",
                "killed", "down"} => sender = None
    /\ hpc = "stopSend" /\ record => hmode = Provider
    /\ hpc \in {"clear", "clearing"} => ~record
    /\ hpc \in {"writing", "clearing"} => config = Torn
    /\ config = Torn => hpc \in {"writing", "clearing", "killed", "down"}
    /\ net = "dead" => ~record

\* .. that queued events are those of parked tasks, ..
QueueInv ==
    /\ \A i \in 1..Len(evQ) : tst[evQ[i]] = "event"
    /\ \A i, j \in 1..Len(evQ) : evQ[i] = evQ[j] => i = j

\* .. and that the mode of a start is fixed once it has been checked.
ModeInv ==
    /\ \A t \in Callers :
         tst[t] \in {"checked", "event"} /\ top[t] \in Starts => tmode[t] # None
    /\ sender # None => tst[sender] = "done" /\ tmode[sender] # None
    /\ tst[Boot] # "request"

IInv == /\ TypeOK /\ ConfigTracksSender /\ RecordTracksConfig /\ ProxyReachable
        /\ HandlerInv /\ QueueInv /\ ModeInv

\* The handler waits for a network loop that has stopped, or for a query that
\* the loop has forgotten.
HandlerHalted ==
    \/ hpc = "forgotten"
    \/ net = "stopped" /\ hpc \in {"provide", "confirm", "withdrawSent"}

\* Every request gets an answer, and every start of the node is finished or the
\* node is down: the handler never stays with an event it cannot finish, whatever
\* the proxy tasks do and whoever reads the file while it writes it, unless the
\* network loop has left it, or the request itself, waiting.
EndpointsReturn ==
    /\ \A t \in Tasks :
         tst[t] \in {"request", "checked", "event"}
           ~> \/ tst[t] = "done" \/ HandlerHalted
              \/ tst[t] = "request" /\ net = "stopped"
    /\ tst[Boot] # "done" ~> tst[Boot] = "done" \/ ~NodeUp \/ HandlerHalted

\* A proxy that the handler stops gives up its port, whatever it was doing when
\* StopProxy was sent and whatever becomes of handler and network loop; a client
\* alone goes no further than its clean-up.
StopReachesProxy ==
    \A t \in Callers :
      hpc = "stopSend" /\ hstop = t
        ~> \/ pst[t] \in {"ended", "panicked", "none"}
           \/ pst[t] = "stopping" /\ tmode[t] # Provider

\* expect("Tcp listener to be bound to ..") of start_http_proxy.
ListenerBound == \A t \in Callers : pst[t] # "panicked"

\* expect("Proxy mode to be present in config") of StopProxy.
ProxyModePresent == hpc # "dead"
=============================================================================
