------------------------------ MODULE NodeLoops ------------------------------
(***************************************************************************)
(* The two long-lived tasks of an orca_node and the channels between them. *)
(*                                                                         *)
(* NetworkEventLoop::run (network/event_loop.rs) owns the libp2p swarm and *)
(* the tables of oneshot senders of the NetworkClient calls it has not     *)
(* answered yet.  RequestHandlerLoop::run (request_handler.rs) serves what *)
(* the network loop, the HTTP server and the command line send it.  Every  *)
(* other task is a caller of a NetworkClient method.                       *)
(*                                                                         *)
(* Both channels are futures::mpsc::channel(0): send(..).await parks the   *)
(* sender until the receiver has popped its message.  A queue therefore    *)
(* holds at most one message of each sender, and the sender does nothing   *)
(* else while it is there.                                                 *)
(*                                                                         *)
(* A panic ends the task it happens in and drops what the task owned.      *)
(***************************************************************************)
EXTENDS Naturals, Sequences, FiniteSets

CONSTANTS
    Calls,           \* invocations of NetworkClient methods, used once each
    Peers,           \* remote peers a call can be directed at
    RRRequests,      \* inbound requests of the request-response protocol
    StreamRequests,  \* inbound requests of the stream protocol
    Locals,          \* OrcaNetEvents of the HTTP server and the command line
    Ops,             \* the NetworkClient methods that are called
    Effects,         \* what serving a local event asks of the network loop
    Faults,          \* the failures of the environment that may happen
    Handler,         \* the request handler, as a sender of commands
    None

\* The command a NetworkClient method sends first.
FirstCommand ==
    [start_listening     |-> "StartListening",
     dial                |-> "Dial",
     start_providing     |-> "StartProviding",
     stop_providing      |-> "StopProviding",
     get_providers       |-> "GetProviders",
     send_request        |-> "Request",
     put_kv_pair         |-> "PutKV",
     get_value           |-> "GetValue",
     send_stream_request |-> "Dial"]

Commands == {"StartListening", "Dial", "StartProviding", "StopProviding",
             "GetProviders", "Request", "PutKV", "GetValue", "SendInStream"}

AllEffects == {"provide", "stop", "quiet"}

AllFaults == {"listenErr",    \* listen_on refuses the address
              "dialErr",      \* a dial is refused or fails
              "storeErr",     \* the local record store is full
              "kadErr",       \* a Kademlia query times out
              "noProviders",  \* nobody provides the key that is looked up
              "requestErr",   \* request-response outbound failure
              "streamErr",    \* a stream cannot be opened, read or written
              "noResponse",   \* a peer never answers a stream request
              "connLost",     \* no connection is left to open a stream on
              "neverEnds",    \* a peer does not close the stream it writes to
              "channelClosed",\* an inbound request's connection is lost
              "handlerPanic"} \* an expect of the request handler fails

Inbound == RRRequests \cup StreamRequests
Events  == Inbound \cup Locals
Callers == Calls \cup {Handler}

ASSUME SetsAssumption ==
    /\ RRRequests \cap StreamRequests = {}
    /\ Inbound \cap Locals = {}
    /\ Handler \notin Calls
    /\ None \notin Calls \cup Events \cup Peers \cup {Handler}

ASSUME OpsAssumption == Ops \subseteq DOMAIN FirstCommand

ASSUME EffectsAssumption == Effects \subseteq AllEffects

VARIABLES
    st,       \* what each call does: the task of its caller
    op,       \* the method it called
    peer,     \* the peer it is directed at
    cmd,      \* the NetworkCommand it has sent last
    reply,    \* what its oneshot receiver has been sent
    cmdQ,     \* the command channel: the senders whose command waits
    net,      \* the network event loop
    netReq,   \* the inbound request it waits on
    why,      \* the expect or todo! that ended it
    dialing,  \* pending_dial
    pending,  \* the other pending_* tables: whose sender is in one
    inflight, \* whose operation the swarm, or a peer, will still report on
    evQ,      \* the event channel
    hpc,      \* the request handler
    hcur,     \* the event it is serving
    est,      \* how far each event has got
    closed    \* request-response channels whose connection is gone

callVars == <<st, op, peer, cmd, reply>>
netVars  == <<net, netReq, why>>
tables   == <<dialing, pending, inflight>>
hVars    == <<evQ, hpc, hcur, est, closed>>
vars     == <<callVars, cmdQ, netVars, tables, hVars>>

CallStates  == {"idle", "sending", "waiting", "done", "panicked"}
Replies     == {"none", "ok", "err", "dropped"}
NetStates   == {"select", "forward", "await", "stuck", "dead"}
Reasons     == {"none", "dialing", "store", "channel", "pending",
                "receiver", "sender"}
HandlerPCs  == {"recv", "respond", "provide", "confirm", "stop", "dead"}
EventStates == {"absent", "forwarded", "handling", "served", "answered",
                "lost"}

InQueue(x, q) == \E i \in 1..Len(q) : q[i] = x
Once(q)       == \A i, j \in 1..Len(q) : q[i] = q[j] => i = j

TypeOK ==
    /\ st \in [Calls -> CallStates]
    /\ op \in [Calls -> Ops \cup {"none"}]
    /\ peer \in [Calls -> Peers]
    /\ cmd \in [Calls -> Commands \cup {"none"}]
    /\ reply \in [Calls -> Replies]
    /\ cmdQ \in Seq(Callers)
    /\ net \in NetStates
    /\ netReq \in Inbound \cup {None}
    /\ why \in Reasons
    /\ dialing \in [Peers -> Calls \cup {None}]
    /\ pending \subseteq Callers
    /\ inflight \subseteq Callers
    /\ evQ \in Seq(Events)
    /\ hpc \in HandlerPCs
    /\ hcur \in Events \cup {None}
    /\ est \in [Events -> EventStates]
    /\ (hcur = None) <=> (hpc \in {"recv", "dead"})
    /\ (netReq = None) <=> (net \in {"select", "stuck", "dead"})
    /\ closed \subseteq RRRequests

Init ==
    /\ st = [c \in Calls |-> "idle"]
    /\ op = [c \in Calls |-> "none"]
    /\ peer \in [Calls -> Peers]
    /\ cmd = [c \in Calls |-> "none"]
    /\ reply = [c \in Calls |-> "none"]
    /\ cmdQ = <<>>
    /\ net = "select" /\ netReq = None /\ why = "none"
    /\ dialing = [p \in Peers |-> None]
    /\ pending = {} /\ inflight = {}
    /\ evQ = <<>> /\ hpc = "recv" /\ hcur = None
    /\ est = [e \in Events |-> "absent"]
    /\ closed = {}

-----------------------------------------------------------------------------
(* Callers: the tasks of the HTTP server, the command line and the proxy.  *)

\* A method creates its oneshot and sends its command.  The send panics
\* ("Command receiver not to be dropped.") once the network loop is gone.
Issue(c) ==
    /\ st[c] = "idle"
    /\ \E o \in Ops :
         /\ op' = [op EXCEPT ![c] = o]
         /\ cmd' = [cmd EXCEPT ![c] = FirstCommand[o]]
    /\ IF net = "dead"
       THEN /\ st' = [st EXCEPT ![c] = "panicked"]
            /\ UNCHANGED cmdQ
       ELSE /\ st' = [st EXCEPT ![c] = "sending"]
            /\ cmdQ' = Append(cmdQ, c)
    /\ UNCHANGED <<peer, reply, netVars, tables, hVars>>

\* send_in_stream goes on from a successful dial to its own command.
DialledForStream(c) ==
    op[c] = "send_stream_request" /\ cmd[c] = "Dial" /\ reply[c] = "ok"

SendInStream(c) ==
    /\ st[c] = "waiting" /\ DialledForStream(c) /\ net # "dead"
    /\ st' = [st EXCEPT ![c] = "sending"]
    /\ cmd' = [cmd EXCEPT ![c] = "SendInStream"]
    /\ reply' = [reply EXCEPT ![c] = "none"]
    /\ cmdQ' = Append(cmdQ, c)
    /\ UNCHANGED <<op, peer, netVars, tables, hVars>>

\* The oneshot has been answered and the method returns.  The receiver of a
\* dropped sender panics ("Sender not to be dropped"), and so does the send
\* after a dial when the loop has died meanwhile.
Return(c) ==
    /\ st[c] = "waiting" /\ reply[c] # "none"
    /\ DialledForStream(c) => net = "dead"
    /\ st' = [st EXCEPT ![c] = IF reply[c] = "dropped" \/ DialledForStream(c)
                               THEN "panicked" ELSE "done"]
    /\ UNCHANGED <<op, peer, cmd, reply, cmdQ, netVars, tables, hVars>>

\* Variant of Abandoned: the tables outlive the loop that owned them.
AbandonedOnlyQueued(c) ==
    /\ net = "dead" /\ st[c] = "sending"
    /\ st' = [st EXCEPT ![c] = IF cmd[c] = "StopProviding"
                               THEN "done" ELSE "panicked"]
    /\ UNCHANGED <<op, peer, cmd, reply, cmdQ, netVars, tables, hVars>>

\* The network loop is gone: the queued command or the pending sender is
\* dropped with it.  The send itself succeeds, so stop_providing returns;
\* every other method panics on its oneshot.
Abandoned(c) ==
    /\ net = "dead"
    /\ \/ st[c] = "sending"
       \/ st[c] = "waiting" /\ reply[c] = "none"
    /\ st' = [st EXCEPT ![c] = IF cmd[c] = "StopProviding"
                               THEN "done" ELSE "panicked"]
    /\ UNCHANGED <<op, peer, cmd, reply, cmdQ, netVars, tables, hVars>>

\* The HTTP server, the command line and start_orca_node send an event; once
\* the handler is gone the send fails and the event is dropped.
SendLocal(l) ==
    /\ est[l] = "absent"
    /\ IF hpc = "dead"
       THEN /\ est' = [est EXCEPT ![l] = "lost"]
            /\ UNCHANGED evQ
       ELSE /\ est' = [est EXCEPT ![l] = "forwarded"]
            /\ evQ' = Append(evQ, l)
    /\ UNCHANGED <<callVars, cmdQ, netVars, tables, hpc, hcur, closed>>

-----------------------------------------------------------------------------
(* NetworkEventLoop::handle_command, one action per command.               *)

Panic(reason) == net' = "dead" /\ why' = reason

\* The loop pops the command of call c, which lets c go on to its oneshot.
Pop(c, command) ==
    /\ net = "select" /\ cmdQ # <<>>
    /\ Head(cmdQ) = c /\ c \in Calls /\ cmd[c] = command
    /\ cmdQ' = Tail(cmdQ)
    /\ st' = [st EXCEPT ![c] = IF command = "StopProviding"
                               THEN "done" ELSE "waiting"]
    /\ UNCHANGED <<op, peer, cmd, hVars, netReq>>

Answer(c, result) == reply' = [reply EXCEPT ![c] = result]

\* The sender goes into the command's table, under the id of the operation
\* that the swarm has started.
Track(c) ==
    /\ pending' = pending \cup {c}
    /\ inflight' = inflight \cup {c}
    /\ UNCHANGED <<reply, dialing, net, why>>

CmdStartListening(c) ==
    /\ Pop(c, "StartListening")
    /\ \/ Answer(c, "ok")
       \/ "listenErr" \in Faults /\ Answer(c, "err")
    /\ UNCHANGED <<tables, net, why>>

\* Variant of CmdDial: a second dial replaces the sender of the first.
CmdDialOverwrites(c) ==
    /\ Pop(c, "Dial")
    /\ dialing' = [dialing EXCEPT ![peer[c]] = c]
    /\ UNCHANGED <<reply, pending, inflight, net, why>>

\* A second dial to a peer that is being dialled is todo!().
CmdDial(c) ==
    /\ Pop(c, "Dial")
    /\ LET p == peer[c] IN
       \/ /\ dialing[p] = None
          /\ dialing' = [dialing EXCEPT ![p] = c]
          /\ UNCHANGED <<reply, pending, inflight, net, why>>
       \/ /\ dialing[p] = None /\ "dialErr" \in Faults
          /\ Answer(c, "err")
          /\ UNCHANGED <<tables, net, why>>
       \/ /\ dialing[p] # None
          /\ Panic("dialing")
          /\ UNCHANGED <<reply, tables>>

\* start_providing and put_record fail at once when the store is full; the
\* loop's expect then fails.
CmdStoreThenTrack(c, command) ==
    /\ Pop(c, command)
    /\ \/ Track(c)
       \/ /\ "storeErr" \in Faults /\ Panic("store")
          /\ UNCHANGED <<reply, tables>>

CmdStartProviding(c) == CmdStoreThenTrack(c, "StartProviding")
CmdPutKV(c)          == CmdStoreThenTrack(c, "PutKV")

CmdStopProviding(c) ==
    /\ Pop(c, "StopProviding")
    /\ UNCHANGED <<reply, tables, net, why>>

\* Variant of CmdRequest: the id of the request is not recorded.
CmdRequestUnrecorded(c) ==
    /\ Pop(c, "Request")
    /\ inflight' = inflight \cup {c}
    /\ UNCHANGED <<reply, dialing, pending, net, why>>

CmdGetProviders(c) == Pop(c, "GetProviders") /\ Track(c)
CmdGetValue(c)     == Pop(c, "GetValue") /\ Track(c)
CmdRequest(c)      == Pop(c, "Request") /\ Track(c)

\* open_stream(..).await without a connection waits for a dial, which is up to
\* the swarm, which is up to the loop that waits.
StreamStalls == "connLost" \in Faults /\ net' = "stuck" /\ UNCHANGED why

\* The request is written to a new stream and only then tracked; when the
\* stream cannot be opened or written the sender is dropped unanswered.
CmdSendInStream(c) ==
    /\ Pop(c, "SendInStream")
    /\ \/ Track(c)
       \/ /\ "streamErr" \in Faults
          /\ Answer(c, "dropped")
          /\ UNCHANGED <<tables, net, why>>
       \/ /\ StreamStalls
          /\ UNCHANGED <<reply, tables>>

\* The handler's own commands.  It stays parked in send until this pop.
PopHandler(pc) ==
    /\ net = "select" /\ cmdQ # <<>> /\ Head(cmdQ) = Handler
    /\ hpc = pc
    /\ cmdQ' = Tail(cmdQ)
    /\ UNCHANGED <<callVars, netReq, evQ, closed>>

\* Variant of HandlerDone: the event stays with the handler.
HandlerDoneKeepsEvent ==
    /\ hpc' = "recv" /\ UNCHANGED hcur
    /\ est' = [est EXCEPT ![hcur] = "answered"]

HandlerDone ==
    /\ hpc' = "recv" /\ hcur' = None
    /\ est' = [est EXCEPT ![hcur] = "answered"]

\* send_response fails when the connection is gone, and the loop's expect
\* ("Connection to peer to be still open.") with it.
CmdRespond ==
    /\ PopHandler("respond")
    /\ \/ /\ hcur \notin closed
          /\ HandlerDone
          /\ UNCHANGED <<net, why>>
       \/ /\ hcur \in closed
          /\ Panic("channel")
          /\ hpc' = "recv" /\ hcur' = None
          /\ est' = [est EXCEPT ![hcur] = "lost"]
    /\ UNCHANGED tables

CmdHandlerProvide ==
    /\ PopHandler("provide")
    /\ hpc' = "confirm"
    /\ \/ /\ pending' = pending \cup {Handler}
          /\ inflight' = inflight \cup {Handler}
          /\ UNCHANGED <<dialing, net, why>>
       \/ /\ "storeErr" \in Faults /\ Panic("store")
          /\ UNCHANGED tables
    /\ UNCHANGED <<hcur, est>>

CmdHandlerStop ==
    /\ PopHandler("stop")
    /\ HandlerDone
    /\ UNCHANGED <<tables, net, why>>

HandleCommand ==
    \/ \E c \in Calls :
         \/ CmdStartListening(c) \/ CmdDial(c)
         \/ CmdStartProviding(c) \/ CmdStopProviding(c)
         \/ CmdGetProviders(c) \/ CmdRequest(c)
         \/ CmdPutKV(c) \/ CmdGetValue(c) \/ CmdSendInStream(c)
    \/ CmdRespond \/ CmdHandlerProvide \/ CmdHandlerStop

-----------------------------------------------------------------------------
(* NetworkEventLoop::handle_event, handle_kademlia_events and              *)
(* handle_stream_req.                                                      *)

\* An inbound request is sent to the handler, and the loop waits for the
\* handler to take it.  A dropped receiver fails the loop's expect.
Forward(r) ==
    /\ net = "select" /\ est[r] = "absent"
    /\ IF hpc = "dead"
       THEN /\ Panic("receiver")
            /\ est' = [est EXCEPT ![r] = "lost"]
            /\ UNCHANGED <<netReq, evQ>>
       ELSE /\ net' = "forward" /\ netReq' = r
            /\ est' = [est EXCEPT ![r] = "forwarded"]
            /\ evQ' = Append(evQ, r)
            /\ UNCHANGED why
    /\ UNCHANGED <<callVars, cmdQ, tables, hpc, hcur, closed>>

\* Variant of Released: the loop does not await the response to a stream
\* request.
ReleasedAtOnce(r) == net' = "select" /\ netReq' = None

\* The handler has popped request r: the loop goes on to the next event, or to
\* the oneshot of a stream request.
Released(r) ==
    IF r \in StreamRequests
    THEN net' = "await" /\ netReq' = r
    ELSE net' = "select" /\ netReq' = None

InboundRequest(r) == r \in RRRequests /\ Forward(r)

InboundStream(r) == r \in StreamRequests /\ Forward(r)

\* A stream that cannot be read or decoded is dropped.
InboundStreamUnreadable(r) ==
    /\ r \in StreamRequests /\ "streamErr" \in Faults
    /\ net = "select" /\ est[r] = "absent"
    /\ est' = [est EXCEPT ![r] = "lost"]
    /\ UNCHANGED <<callVars, cmdQ, netVars, tables, evQ, hpc, hcur, closed>>

\* read_to_end(..).await ends when the peer closes its side of the stream.
InboundStreamStalls(r) ==
    /\ r \in StreamRequests /\ "neverEnds" \in Faults
    /\ net = "select" /\ est[r] = "absent"
    /\ net' = "stuck"
    /\ UNCHANGED <<callVars, cmdQ, netReq, why, tables, hVars>>

\* The handler has answered a stream request: the loop itself sends the
\* response in a stream of its own.  A failure is only logged.
SendStreamResponse ==
    /\ net = "await" /\ est[netReq] = "served"
    /\ netReq' = None
    /\ \/ /\ est' = [est EXCEPT ![netReq] = "answered"]
          /\ net' = "select" /\ UNCHANGED why
       \/ /\ "streamErr" \in Faults
          /\ est' = [est EXCEPT ![netReq] = "lost"]
          /\ net' = "select" /\ UNCHANGED why
       \/ /\ StreamStalls
          /\ est' = [est EXCEPT ![netReq] = "lost"]
    /\ UNCHANGED <<callVars, cmdQ, tables, evQ, hpc, hcur, closed>>

\* The swarm reports on operation w.  Its sender leaves its table with the
\* answer, or the loop panics for want of it; a handler that is answered has
\* its start_providing return.
Report(w, result) ==
    /\ net = "select" /\ w \in inflight
    /\ inflight' = inflight \ {w}
    /\ IF w \in pending
       THEN /\ pending' = pending \ {w}
            /\ UNCHANGED <<net, why>>
            /\ IF w = Handler
               THEN HandlerDone /\ UNCHANGED reply
               ELSE Answer(w, result) /\ UNCHANGED <<hpc, hcur, est>>
       ELSE /\ Panic("pending")
            /\ UNCHANGED <<pending, reply, hpc, hcur, est>>
    /\ UNCHANGED <<st, op, peer, cmd, cmdQ, netReq, dialing, evQ, closed>>

CommandOf(w) == IF w = Handler THEN "StartProviding" ELSE cmd[w]

RequestOutcome(w) ==
    /\ CommandOf(w) = "Request"
    /\ \/ Report(w, "ok")
       \/ "requestErr" \in Faults /\ Report(w, "err")

ProvidingStarted(w) == CommandOf(w) = "StartProviding" /\ Report(w, "ok")

\* A failed GetProviders query is answered with the empty set.
ProvidersFound(w) ==
    CommandOf(w) = "GetProviders" /\ Report(w, "ok")

RecordOutcome(w) ==
    /\ CommandOf(w) \in {"PutKV", "GetValue"}
    /\ \/ Report(w, "ok")
       \/ "kadErr" \in Faults /\ Report(w, "err")

StreamResponse(w) == CommandOf(w) = "SendInStream" /\ Report(w, "ok")

\* An operation ends and its sender stays in its table, unanswered.
Ignore(w) ==
    /\ w \in inflight
    /\ inflight' = inflight \ {w}
    /\ UNCHANGED <<callVars, cmdQ, netVars, dialing, pending, hVars>>

\* StartProviding(Err(..)) is logged only.
ProvidingFailed(w) ==
    /\ net = "select" /\ CommandOf(w) = "StartProviding"
    /\ "kadErr" \in Faults /\ Ignore(w)

\* FinishedWithNoAdditionalRecord, the result of a query nobody provided
\* for, falls into the catch-all arm.
NoProvidersFound(w) ==
    /\ net = "select" /\ CommandOf(w) = "GetProviders"
    /\ "noProviders" \in Faults /\ Ignore(w)

\* The remote peer fails, loses the request or drops the response.
StreamUnanswered(w) ==
    /\ CommandOf(w) = "SendInStream"
    /\ "noResponse" \in Faults /\ Ignore(w)

\* ConnectionEstablished as the dialer, or OutgoingConnectionError.
DialOutcome(p) ==
    /\ net = "select" /\ dialing[p] # None
    /\ dialing' = [dialing EXCEPT ![p] = None]
    /\ \/ Answer(dialing[p], "ok")
       \/ "dialErr" \in Faults /\ Answer(dialing[p], "err")
    /\ UNCHANGED <<st, op, peer, cmd, cmdQ, netVars, pending, inflight, hVars>>

\* The handler died: the parked send is released, and returns Ok.
ForwardReleased ==
    /\ net = "forward" /\ hpc = "dead"
    /\ est' = [est EXCEPT ![netReq] = "lost"]
    /\ Released(netReq)
    /\ UNCHANGED <<callVars, cmdQ, why, tables, evQ, hpc, hcur, closed>>

\* The oneshot of a stream request was dropped with its event.
AwaitDropped ==
    /\ net = "await" /\ est[netReq] = "lost"
    /\ Panic("sender") /\ netReq' = None
    /\ UNCHANGED <<callVars, cmdQ, tables, hVars>>

ReportOn(w) ==
    \/ RequestOutcome(w) \/ ProvidingStarted(w) \/ ProvidersFound(w)
    \/ RecordOutcome(w) \/ StreamResponse(w)

-----------------------------------------------------------------------------
(* RequestHandlerLoop::run and handle_event.                               *)

\* Popping an event releases the sender that is parked on it: the network
\* loop for a request, some other task for a local event.
Take(e) ==
    /\ hpc = "recv" /\ evQ # <<>> /\ Head(evQ) = e
    /\ IF e \in Inbound THEN Released(e) ELSE UNCHANGED <<net, netReq>>
    /\ UNCHANGED <<callVars, why, tables, closed>>

\* The handler ends, and with it the event receiver and what it holds.
HandlerDies(e) ==
    /\ hpc' = "dead" /\ hcur' = None
    /\ evQ' = <<>>
    /\ est' = [x \in Events |->
                 IF x = e \/ (x \in Locals /\ est[x] = "forwarded")
                 THEN "lost" ELSE est[x]]

\* The handler sends a command for e.
SendCommand(pc, e) ==
    /\ hpc' = pc /\ hcur' = e
    /\ est' = [est EXCEPT ![e] = "handling"]
    /\ evQ' = Tail(evQ)
    /\ cmdQ' = Append(cmdQ, Handler)

\* A request-response request: handle_request, then respond(..).await.
TakeRequest(e) ==
    /\ e \in RRRequests /\ Take(e)
    /\ SendCommand("respond", e)

\* Variant of TakeStreamRequest: the response goes through the command channel.
TakeStreamRequestByCommand(e) ==
    /\ e \in StreamRequests /\ Take(e)
    /\ SendCommand("respond", e)

\* A stream request: handle_request, then the oneshot the loop awaits.
TakeStreamRequest(e) ==
    /\ e \in StreamRequests /\ Take(e)
    /\ est' = [est EXCEPT ![e] = "served"]
    /\ evQ' = Tail(evQ)
    /\ UNCHANGED <<cmdQ, hpc, hcur>>

\* ProvideFile, StopProvidingFile, StartProxy and StopProxy start providing
\* a key, stop providing one, or ask nothing of the network loop.  A send
\* panics once that loop is gone.
TakeLocal(e) ==
    /\ e \in Locals /\ Take(e)
    /\ \/ /\ "quiet" \in Effects
          /\ est' = [est EXCEPT ![e] = "answered"]
          /\ evQ' = Tail(evQ)
          /\ UNCHANGED <<cmdQ, hpc, hcur>>
       \/ /\ net # "dead"
          /\ \E pc \in Effects \ {"quiet"} : SendCommand(pc, e)
       \/ /\ net = "dead" /\ Effects \ {"quiet"} # {}
          /\ HandlerDies(e)
          /\ UNCHANGED cmdQ

\* An expect, unwrap or panic! of the handler fails while it serves e.
HandlerPanic(e) ==
    /\ "handlerPanic" \in Faults
    /\ e \in Events /\ Take(e)
    /\ HandlerDies(e)
    /\ UNCHANGED cmdQ

\* Variant of HandlerAbandoned: the oneshot of start_providing outlives the loop.
HandlerAbandonedQueued ==
    /\ net = "dead" /\ hpc \in {"respond", "stop"}
    /\ hpc' = "recv" /\ hcur' = None
    /\ est' = [est EXCEPT ![hcur] = "lost"]
    /\ UNCHANGED <<callVars, cmdQ, netVars, tables, evQ, closed>>

\* The network loop is gone.  respond and stop_providing return, since their
\* send does; start_providing panics on its oneshot.
HandlerAbandoned ==
    /\ net = "dead" /\ hpc \in {"respond", "provide", "confirm", "stop"}
    /\ IF hpc \in {"respond", "stop"}
       THEN /\ hpc' = "recv" /\ hcur' = None
            /\ est' = [est EXCEPT ![hcur] = IF hpc = "stop" THEN "answered"
                                                            ELSE "lost"]
            /\ UNCHANGED evQ
       ELSE HandlerDies(hcur)
    /\ UNCHANGED <<callVars, cmdQ, netVars, tables, closed>>

\* The requester disconnects, or its request times out.
CloseChannel(r) ==
    /\ "channelClosed" \in Faults
    /\ r \in RRRequests \ closed /\ est[r] \in {"forwarded", "handling"}
    /\ closed' = closed \cup {r}
    /\ UNCHANGED <<callVars, cmdQ, netVars, tables, evQ, hpc, hcur, est>>

-----------------------------------------------------------------------------
CallStep(c) == SendInStream(c) \/ Return(c) \/ Abandoned(c)

NetFault ==
    \/ \E r \in StreamRequests : InboundStreamUnreadable(r) \/ InboundStreamStalls(r)
    \/ \E w \in Callers :
         \/ ProvidingFailed(w) \/ NoProvidersFound(w) \/ StreamUnanswered(w)
    \/ \E r \in RRRequests : CloseChannel(r)

HandlerStep ==
    \/ \E e \in Events : TakeRequest(e) \/ TakeStreamRequest(e) \/ TakeLocal(e)
    \/ HandlerAbandoned

NetStep ==
    \/ HandleCommand
    \/ \E w \in Callers : ReportOn(w)
    \/ \E p \in Peers : DialOutcome(p)
    \/ SendStreamResponse \/ ForwardReleased \/ AwaitDropped

Next ==
    \/ \E c \in Calls : Issue(c) \/ CallStep(c)
    \/ \E l \in Locals : SendLocal(l)
    \/ \E r \in RRRequests : InboundRequest(r)
    \/ \E r \in StreamRequests : InboundStream(r)
    \/ NetStep
    \/ NetFault
    \/ HandlerStep
    \/ \E e \in Events : HandlerPanic(e)

Spec == Init /\ [][Next]_vars

(***************************************************************************)
(* Fairness.  The tokio runtime is multi-threaded and polls every task     *)
(* that can go on; select! picks at random between ready branches, so a    *)
(* queued command and a swarm event are both handled in the end.  libp2p   *)
(* ends every dial, query and request with an event.  Arrivals, calls and  *)
(* faults are under no obligation.                                         *)
(***************************************************************************)
FairSpec ==
    /\ Spec
    /\ WF_vars(HandleCommand)
    /\ WF_vars(SendStreamResponse)
    /\ WF_vars(ForwardReleased \/ AwaitDropped)
    /\ WF_vars(HandlerStep)
    /\ \A w \in Callers : WF_vars(ReportOn(w))
    /\ \A p \in Peers : WF_vars(DialOutcome(p))
    /\ \A c \in Calls : WF_vars(CallStep(c))

-----------------------------------------------------------------------------
(* Safety.                                                                 *)

Held(c) == c \in pending \/ \E p \in Peers : dialing[p] = c

Waits(c) == st[c] = "waiting" /\ reply[c] = "none"

\* While the network loop lives, a call waits for an answer exactly when its
\* oneshot sender is in one of the pending_* tables: no sender is forgotten,
\* overwritten by another call's, or left behind by an answered call.  Only a
\* loop that is stuck may be with a sender it has not put into a table.
WaiterAccounted ==
    net # "dead" =>
        \A c \in Calls : /\ Held(c) => Waits(c)
                         /\ Waits(c) => Held(c) \/ net = "stuck"

\* An event the handler has been sent is in exactly one place: the event
\* channel, the handler, or (a stream request's response) the network loop;
\* and the network loop waits on the one inbound request that is under way.
EventAccounted ==
    /\ Once(evQ)
    /\ hpc # "dead" => \A e \in Events : InQueue(e, evQ) <=> est[e] = "forwarded"
    /\ \A e \in Events : est[e] = "handling" <=> hcur = e
    /\ \A r \in Inbound :
         /\ est[r] = "forwarded" <=> net = "forward" /\ netReq = r
         /\ est[r] = "served" => net = "await" /\ netReq = r

\* The expects of handle_event and handle_kademlia_events on the tables
\* ("Request to still be pending.", "Completed query to be previously
\* pending.") never fail.
StillPending == why # "pending"

\* What makes them inductive: a command waits in the channel exactly when its
\* sender is parked, unanswered, an operation under way has its sender in a table, and a
\* call is in pending_dial or in another table according to its command.
QueueInv ==
    net # "dead" =>
        /\ Once(cmdQ)
        /\ \A c \in Calls : InQueue(c, cmdQ) <=> st[c] = "sending"
        /\ InQueue(Handler, cmdQ) <=> hpc \in {"respond", "provide", "stop"}
        /\ \A c \in Calls : st[c] \in {"idle", "sending"} => reply[c] = "none"

TablesInv ==
    net # "dead" =>
        /\ inflight \subseteq pending
        /\ Handler \in pending => hpc = "confirm"
        /\ \A c \in Calls : c \in pending => cmd[c] # "Dial"
        /\ \A p \in Peers :
             dialing[p] # None =>
                 peer[dialing[p]] = p /\ cmd[dialing[p]] = "Dial"

IInv == /\ TypeOK /\ EventAccounted /\ QueueInv /\ TablesInv
        /\ WaiterAccounted /\ StillPending

(* Liveness.                                                               *)

\* "This thread handles all the requests from other peers": every event the
\* handler is sent is served, or dropped by a failure.
EventsServed ==
    \A e \in Events : est[e] = "forwarded" ~> est[e] \in {"answered", "lost"}

\* The two loops wait for each other: the network loop for the handler to take
\* a request, the handler for the loop to take or to finish its command.
WaitCycle == net = "forward" /\ hpc \in {"respond", "provide", "confirm", "stop"}

\* The operation of w has ended and its sender is still in a table: the swarm's
\* report fell into an arm that only logs, or the peer did not answer.
Forgotten(w) == w \in pending \ inflight

\* The loop awaits a stream that nothing will open or close.
Stalled == net = "stuck"

\* The wait cycle, a stalled stream and a forgotten start_providing of the
\* handler are the only ways for an event not to be served: the rest of the
\* stream protocol, the local events and the death of either loop hold up nothing.
ServedUnlessCycle ==
    \A e \in Events :
      est[e] = "forwarded"
        ~> \/ est[e] \in {"answered", "lost"}
           \/ WaitCycle \/ Stalled \/ Forgotten(Handler)

\* The wait cycle, a stalled stream and a forgotten sender are the only ways for
\* a call of a NetworkClient method neither to return nor to panic.
ReturnsUnlessForgotten ==
    \A c \in Calls :
      st[c] = "sending"
        ~> st[c] \in {"done", "panicked"} \/ WaitCycle \/ Stalled \/ Forgotten(c)

\* The death of the network loop leaves no caller and no handler waiting.
NetDeathReleasesAll ==
    net = "dead" ~> /\ \A c \in Calls : st[c] \notin {"sending", "waiting"}
                    /\ hpc \in {"recv", "dead"}
=============================================================================
