---------------------------- MODULE FileProviding ----------------------------
(***************************************************************************)
(* The files a node provides: the provided_files table, the provider       *)
(* records the node keeps in its Kademlia store, and the tasks that change *)
(* the one after the other.                                                *)
(*                                                                         *)
(* provide_file and stop_providing send an event to the request handler,   *)
(* which updates the table and then sends a command to the network loop.   *)
(* resume_providing and advertise_provided_files do both themselves, from  *)
(* their own tasks; the command line's startproviding sends the command    *)
(* and leaves the table alone.  Nothing makes a table update and its       *)
(* command one step.  The network loop itself is the subject of NodeLoops: *)
(* here it pops a command and performs it, as long as it is up; it may     *)
(* stop for good, die, and forget a query it has started.                  *)
(***************************************************************************)
EXTENDS Naturals, Sequences, FiniteSets

CONSTANTS
    Files,     \* file ids: the hashes of the contents that occur
    Paths,     \* paths of the local file system
    Tasks,     \* requests to the HTTP server or the command line, one each
    Ops,       \* what they ask for
    Handler,   \* the request handler, as a sender of commands
    None,
    Faults,    \* what may go wrong
    Restarts   \* how often the node may be restarted

AllOps == {"provide", "stop", "remove", "resume", "advertise", "startKey"}

AllFaults == {"db",       \* a statement fails, the database cannot be opened
              "stop",     \* the network loop waits for ever in one event
              "death",    \* the network loop panics
              "forget"}   \* a query fails: its caller is never told

ASSUME FilesAssumption ==
    /\ None \notin Files \cup Paths
    /\ Handler \notin Tasks
    /\ Faults \subseteq AllFaults
    /\ Restarts \in Nat

ASSUME FileOpsAssumption == Ops \subseteq AllOps

VARIABLES
    rowPath,   \* provided_files: the path of a file's row, None if no row
    active,    \* the files whose row has status 1
    dht,       \* the provider records of this node
    evQ,       \* the event channel
    cmdQ,      \* the command channel
    tst,       \* what each task does
    top,       \* what it starts files for
    todo,      \* the files it has still to start providing
    hpc,       \* the request handler
    hfile,     \* the file it has updated the table for
    net,       \* the network loop
    astray,    \* history: the files that may be advertised without a row
    leftOut,   \* history: the active files whose record may be withdrawn
    restarts

taskVars == <<tst, top, todo>>
table    == <<rowPath, active>>
history  == <<astray, leftOut>>
vars     == <<table, dht, evQ, cmdQ, taskVars, hpc, hfile, net, history, restarts>>

Callers   == Tasks \cup {Handler}
Rows      == {f \in Files : rowPath[f] # None}
Command(kind, f, who) == [kind |-> kind, file |-> f, who |-> who]
CommandSet == [kind : {"StartProviding", "StopProviding"},
               file : Files, who : Callers]

\* An event carries a file and, to provide it, a path; its task is parked on it.
Event(kind, f, p, who) == [kind |-> kind, file |-> f, path |-> p, who |-> who]
EventSet == [kind : {"provide"}, file : Files, path : Paths, who : Tasks]
              \cup [kind : {"stop", "remove"}, file : Files, path : {None}, who : Tasks]

\* "done": the task has returned, or has panicked.
TaskStates == {"idle", "event", "loop", "sending", "waiting", "forgotten", "done"}
Loops      == {"resume", "advertise", "startKey"}
HandlerPCs == {"recv", "start", "startSent", "confirm", "forgotten",
               "stop", "stopSent", "dead"}

TypeOK ==
    /\ rowPath \in [Files -> Paths \cup {None}]
    /\ active \subseteq Rows
    /\ dht \subseteq Files
    /\ evQ \in Seq(EventSet)
    /\ cmdQ \in Seq(CommandSet)
    /\ tst \in [Tasks -> TaskStates]
    /\ top \in [Tasks -> Loops \cup {"none"}]
    /\ todo \in [Tasks -> SUBSET Files]
    /\ hpc \in HandlerPCs
    /\ hfile \in Files \cup {None}
    /\ (hfile = None) <=> (hpc \in {"recv", "dead"})
    /\ net \in {"up", "stopped", "dead"}
    /\ astray \subseteq Files
    /\ leftOut \subseteq Files
    /\ restarts \in 0..Restarts

Init ==
    /\ rowPath = [f \in Files |-> None]
    /\ active = {} /\ dht = {}
    /\ evQ = <<>> /\ cmdQ = <<>>
    /\ tst = [t \in Tasks |-> "idle"]
    /\ top = [t \in Tasks |-> "none"]
    /\ todo = [t \in Tasks |-> {}]
    /\ hpc = "recv" /\ hfile = None
    /\ net = "up"
    /\ astray = {} /\ leftOut = {}
    /\ restarts = 0

-----------------------------------------------------------------------------
\* Some StartProviding of f is in the channel, or is yet to be sent by a task.
InQueue(f) ==
    \E i \in 1..Len(cmdQ) : cmdQ[i].kind = "StartProviding" /\ cmdQ[i].file = f

Pending(f) == InQueue(f) \/ \E t \in Tasks : f \in todo[t]

\* The handler is about to have the record of f withdrawn.
Withdrawing(f) == hpc \in {"stop", "stopSent"} /\ hfile = f

-----------------------------------------------------------------------------
(* HTTP endpoints and the command line.                                    *)

\* Nobody receives the event of a handler that has panicked.
SendEvent(t, o, f, p) ==
    /\ tst[t] = "idle" /\ o \in Ops
    /\ IF hpc = "dead"
       THEN tst' = [tst EXCEPT ![t] = "done"] /\ UNCHANGED evQ
       ELSE tst' = [tst EXCEPT ![t] = "event"] /\ evQ' = Append(evQ, Event(o, f, p, t))
    /\ UNCHANGED <<table, dht, cmdQ, top, todo, hpc, hfile, net, history, restarts>>

\* provide_file: the id is the hash of what is at the path now.  The user edits
\* and replaces files at any time, so it can be any.
ProvideFile(t) == \E p \in Paths, f \in Files : SendEvent(t, "provide", f, p)

\* stop_providing, with permanent set or not.
StopProviding(t) ==
    \E f \in Files, o \in {"stop", "remove"} : SendEvent(t, o, f, None)

\* A task that reaches the command channel itself.
StartLoop(t, o, files) ==
    /\ tst[t] = "idle" /\ o \in Ops
    /\ tst' = [tst EXCEPT ![t] = "loop"]
    /\ top' = [top EXCEPT ![t] = o]
    /\ todo' = [todo EXCEPT ![t] = files]
    /\ UNCHANGED <<rowPath, dht, evQ, cmdQ, hpc, hfile, net, restarts>>

\* resume_providing sets the status of a row before it starts the file.
ResumeProviding(t) ==
    \E f \in Rows :
      /\ StartLoop(t, "resume", {f})
      /\ active' = active \cup {f}
      /\ leftOut' = IF Withdrawing(f) THEN leftOut \cup {f} ELSE leftOut
      /\ UNCHANGED astray

\* startproviding of the command line: any key, and the table is not looked at.
StartKey(t) ==
    \E f \in Files :
      /\ StartLoop(t, "startKey", {f})
      /\ astray' = astray \cup {f}
      /\ UNCHANGED <<active, leftOut>>

\* The table cannot be read: this is logged, and nothing is started.
TableUnread(t) ==
    /\ "db" \in Faults /\ tst[t] = "idle" /\ "advertise" \in Ops
    /\ tst' = [tst EXCEPT ![t] = "done"]
    /\ UNCHANGED <<table, dht, evQ, cmdQ, top, todo, hpc, hfile, net, history, restarts>>

\* Variant of AdvertiseProvidedFiles: the test of the status is inverted.
AdvertiseInactive(t) ==
    \/ StartLoop(t, "advertise", Rows \ active) /\ UNCHANGED <<active, history>>
    \/ TableUnread(t)

\* advertise_provided_files starts the active rows.
AdvertiseProvidedFiles(t) ==
    \/ StartLoop(t, "advertise", active) /\ UNCHANGED <<active, history>>
    \/ TableUnread(t)

\* start_providing(..).await for one file after the other.
StartNext(t) ==
    /\ tst[t] = "loop" /\ net # "dead"
    /\ \E f \in todo[t] :
         /\ cmdQ' = Append(cmdQ, Command("StartProviding", f, t))
         /\ todo' = [todo EXCEPT ![t] = @ \ {f}]
    /\ tst' = [tst EXCEPT ![t] = "sending"]
    /\ UNCHANGED <<table, dht, evQ, top, hpc, hfile, net, history, restarts>>

TaskGoes(t, st, o, files) ==
    /\ tst' = [tst EXCEPT ![t] = st]
    /\ top' = [top EXCEPT ![t] = o]
    /\ todo' = [todo EXCEPT ![t] = files]
    /\ UNCHANGED <<table, dht, evQ, cmdQ, hpc, hfile, net, history, restarts>>

LoopDone(t) == tst[t] = "loop" /\ todo[t] = {} /\ TaskGoes(t, "done", "none", {})

\* The query for the file it waits for has ended ..
TaskConfirmed(t) ==
    tst[t] = "waiting" /\ net = "up" /\ TaskGoes(t, "loop", top[t], todo[t])

\* .. or has failed, which nobody tells the task: it never gets to the rest.
TaskForgotten(t) ==
    /\ "forget" \in Faults /\ net = "up"
    /\ tst[t] = "waiting" /\ TaskGoes(t, "forgotten", "none", {})

\* The expects of start_providing once the network loop is gone.
TaskPanics(t) ==
    /\ net = "dead"
    /\ \/ tst[t] \in {"sending", "waiting", "forgotten"}
       \/ tst[t] = "loop" /\ todo[t] # {}
    /\ TaskGoes(t, "done", "none", {})

-----------------------------------------------------------------------------
(* RequestHandlerLoop::handle_event.                                       *)

\* Popping the event releases its sender, whose endpoint reports success.
TakeEvent(kind) ==
    /\ hpc = "recv" /\ evQ # <<>> /\ Head(evQ).kind = kind
    /\ evQ' = Tail(evQ)
    /\ tst' = [tst EXCEPT ![Head(evQ).who] = "done"]
    /\ UNCHANGED <<dht, cmdQ, top, todo, net, restarts>>

HandlerGoes(pc, f) == hpc' = pc /\ hfile' = f

\* The row is refused when its id or its path is already in the table.
Insertable(f, p) == f \notin Rows /\ \A g \in Rows : rowPath[g] # p

\* Nothing happens when the file has gone from the path, or the row is refused.
HandleProvideFile ==
    /\ TakeEvent("provide")
    /\ LET f == Head(evQ).file
           p == Head(evQ).path
       IN  \/ /\ Insertable(f, p)
              /\ rowPath' = [rowPath EXCEPT ![f] = p]
              /\ active' = active \cup {f}
              /\ HandlerGoes("start", f)
           \/ UNCHANGED <<table, hpc, hfile>>
    /\ UNCHANGED history

\* The record of f will be withdrawn: before a start that is under way puts it,
\* or after everything that could put it.
Withdraw(f) ==
    /\ HandlerGoes("stop", f)
    /\ astray' = IF Pending(f) THEN astray \cup {f} ELSE astray \ {f}

\* A failed statement is logged, and the record is withdrawn all the same.
StatementFails(f) ==
    /\ "db" \in Faults
    /\ leftOut' = leftOut \cup ({f} \cap active)
    /\ UNCHANGED table

HandleStopProviding ==
    /\ TakeEvent("stop")
    /\ Withdraw(Head(evQ).file)
    /\ \/ /\ active' = active \ {Head(evQ).file}
          /\ leftOut' = leftOut \ {Head(evQ).file}
          /\ UNCHANGED rowPath
       \/ StatementFails(Head(evQ).file)

\* Variant of HandleRemove: only the table forgets the file.
HandleRemoveOnly ==
    /\ TakeEvent("remove")
    /\ rowPath' = [rowPath EXCEPT ![Head(evQ).file] = None]
    /\ active' = active \ {Head(evQ).file}
    /\ UNCHANGED <<hpc, hfile, history>>

HandleRemove ==
    /\ TakeEvent("remove")
    /\ Withdraw(Head(evQ).file)
    /\ \/ /\ rowPath' = [rowPath EXCEPT ![Head(evQ).file] = None]
          /\ active' = active \ {Head(evQ).file}
          /\ leftOut' = leftOut \ {Head(evQ).file}
       \/ StatementFails(Head(evQ).file)

\* Variant of HandlerSend: start_providing is not sent.
HandlerSendStopOnly ==
    /\ net # "dead"
    /\ hpc = "stop" /\ hpc' = "stopSent"
    /\ cmdQ' = Append(cmdQ, Command("StopProviding", hfile, Handler))
    /\ UNCHANGED <<table, dht, evQ, taskVars, hfile, net, history, restarts>>

\* The command that follows the table update.
HandlerSend ==
    /\ net # "dead"
    /\ \/ /\ hpc = "start" /\ hpc' = "startSent"
          /\ cmdQ' = Append(cmdQ, Command("StartProviding", hfile, Handler))
       \/ /\ hpc = "stop" /\ hpc' = "stopSent"
          /\ cmdQ' = Append(cmdQ, Command("StopProviding", hfile, Handler))
    /\ UNCHANGED <<table, dht, evQ, taskVars, hfile, net, history, restarts>>

\* Variant of HandlerConfirmed: the file stays with the handler.
HandlerConfirmedKeepsFile ==
    /\ hpc = "confirm" /\ net = "up" /\ hpc' = "recv"
    /\ UNCHANGED <<table, dht, evQ, cmdQ, taskVars, hfile, net, history, restarts>>

\* The query has ended, or has failed and the handler is not told.
HandlerConfirmed ==
    /\ hpc = "confirm" /\ net = "up"
    /\ HandlerGoes("recv", None)
    /\ UNCHANGED <<table, dht, evQ, cmdQ, taskVars, net, history, restarts>>

HandlerForgotten ==
    /\ "forget" \in Faults /\ hpc = "confirm" /\ net = "up"
    /\ HandlerGoes("forgotten", hfile)
    /\ UNCHANGED <<table, dht, evQ, cmdQ, taskVars, net, history, restarts>>

\* Once the network loop is gone, stop_providing's parked send ends.
HandlerReleased ==
    /\ net = "dead" /\ hpc = "stopSent"
    /\ HandlerGoes("recv", None)
    /\ UNCHANGED <<table, dht, evQ, cmdQ, taskVars, net, history, restarts>>

\* The handler panics: nobody receives the events of the parked tasks.
HandlerGone ==
    /\ HandlerGoes("dead", None)
    /\ evQ' = <<>>
    /\ tst' = [t \in Tasks |-> IF tst[t] = "event" THEN "done" ELSE tst[t]]
    /\ UNCHANGED <<table, dht, cmdQ, top, todo, net, history, restarts>>

\* The expects of start_providing and stop_providing.
HandlerPanics ==
    /\ net = "dead" /\ hpc \in {"start", "startSent", "confirm", "forgotten", "stop"}
    /\ HandlerGone

\* ProvidedFilesTable::new cannot open the database for an event, one of these
\* or a peer's request.
HandlerDies == "db" \in Faults /\ hpc = "recv" /\ HandlerGone

-----------------------------------------------------------------------------
(* NetworkEventLoop::handle_command: the record is in the store when the   *)
(* query starts; the end of the query releases start_providing.            *)

NetStartProviding ==
    /\ net = "up"
    /\ cmdQ # <<>> /\ Head(cmdQ).kind = "StartProviding"
    /\ LET c == Head(cmdQ) IN
         /\ dht' = dht \cup {c.file}
         /\ IF c.who = Handler
            THEN hpc' = "confirm" /\ UNCHANGED tst
            ELSE tst' = [tst EXCEPT ![c.who] = "waiting"] /\ UNCHANGED hpc
         /\ leftOut' = IF Withdrawing(c.file) THEN leftOut ELSE leftOut \ {c.file}
    /\ cmdQ' = Tail(cmdQ)
    /\ UNCHANGED <<table, evQ, top, todo, hfile, net, astray, restarts>>

NetStopProviding ==
    /\ net = "up"
    /\ cmdQ # <<>> /\ Head(cmdQ).kind = "StopProviding"
    /\ dht' = dht \ {Head(cmdQ).file}
    /\ HandlerGoes("recv", None)
    /\ cmdQ' = Tail(cmdQ)
    /\ UNCHANGED <<table, evQ, taskVars, net, history, restarts>>

\* The loop waits for ever for the handler, which waits for it, or for a peer
\* that never ends its stream: it takes no more commands and ends no query.
NetStops ==
    /\ "stop" \in Faults /\ net = "up"
    /\ net' = "stopped"
    /\ UNCHANGED <<table, dht, evQ, cmdQ, taskVars, hpc, hfile, history, restarts>>

\* The loop panics: the store and the command channel go with it.
NetDies ==
    /\ "death" \in Faults /\ net # "dead"
    /\ net' = "dead" /\ dht' = {} /\ cmdQ' = <<>>
    /\ UNCHANGED <<table, evQ, taskVars, hpc, hfile, history, restarts>>

-----------------------------------------------------------------------------
\* The process ends, at any point, and is started again.  The table is on
\* disk; the records are in memory, and RequestHandlerLoop::run puts none.
Restart ==
    /\ restarts < Restarts
    /\ restarts' = restarts + 1
    /\ dht' = {} /\ evQ' = <<>> /\ cmdQ' = <<>>
    /\ tst' = [t \in Tasks |-> IF tst[t] = "idle" THEN "idle" ELSE "done"]
    /\ top' = [t \in Tasks |-> "none"]
    /\ todo' = [t \in Tasks |-> {}]
    /\ hpc' = "recv" /\ hfile' = None
    /\ net' = "up"
    /\ astray' = {} /\ leftOut' = {}
    /\ UNCHANGED table

Endpoint(t) ==
    \/ ProvideFile(t) \/ StopProviding(t)
    \/ ResumeProviding(t) \/ AdvertiseProvidedFiles(t) \/ StartKey(t)

TaskStep(t) == StartNext(t) \/ LoopDone(t) \/ TaskConfirmed(t) \/ TaskPanics(t)

HandlerStep ==
    \/ HandleProvideFile \/ HandleStopProviding \/ HandleRemove
    \/ HandlerSend \/ HandlerConfirmed \/ HandlerReleased \/ HandlerPanics

NetStep == NetStartProviding \/ NetStopProviding

Fault ==
    \/ NetStops \/ NetDies \/ HandlerDies \/ HandlerForgotten
    \/ \E t \in Tasks : TaskForgotten(t)

Next ==
    \/ \E t \in Tasks : Endpoint(t) \/ TaskStep(t)
    \/ HandlerStep
    \/ NetStep
    \/ Fault
    \/ Restart

Spec == Init /\ [][Next]_vars

\* The runtime polls every task that can go on; the network loop serves its
\* commands and Kademlia ends its queries, unless a fault of Faults comes first.
FairSpec == /\ Spec
            /\ WF_vars(HandlerStep) /\ WF_vars(NetStep)
            /\ \A t \in Tasks : WF_vars(TaskStep(t))

-----------------------------------------------------------------------------
\* A record in the store belongs to an active row, or the handler is about to
\* withdraw it: what the node advertises, it provides.  Two things alone can
\* leave a record behind: a key typed at the command line, and a stop that the
\* handler begins while a start of the same file is still under way past it.  The
\* next stop of the file, with no start under way, makes up for both.
AdvertisedIsActive ==
    \A f \in dht : f \in active \/ Withdrawing(f) \/ f \in astray

\* What makes it inductive: a task starts what is active or may go astray; ..
TaskInv ==
    /\ \A t \in Tasks : todo[t] \subseteq active \cup astray
    /\ \A i \in 1..Len(cmdQ) :
         cmdQ[i].who # Handler =>
           /\ cmdQ[i].kind = "StartProviding"
           /\ cmdQ[i].file \in active \cup astray

\* .. the handler has at most one command in the channel, for its file; the file
\* it starts to provide is active; and nothing outlives the network loop.
HandlerInv ==
    /\ \A i \in 1..Len(cmdQ) :
         cmdQ[i].who = Handler =>
           /\ cmdQ[i].file = hfile
           /\ cmdQ[i].kind = "StartProviding" => hpc = "startSent"
           /\ cmdQ[i].kind = "StopProviding" => hpc = "stopSent"
    /\ \A i, j \in 1..Len(cmdQ) :
         cmdQ[i].who = Handler /\ cmdQ[j].who = Handler => i = j
    /\ hpc \in {"start", "startSent", "confirm", "forgotten"} => hfile \in active
    /\ net = "dead" => dht = {} /\ cmdQ = <<>>

IInv == TypeOK /\ TaskInv /\ HandlerInv /\ AdvertisedIsActive

\* An active row becomes advertised, or is stopped: what the node provides, it
\* advertises, as long as the network loop runs and the node is not restarted.
\* Two things alone leave an active row out: the database refuses to stop the
\* file, and the record is withdrawn all the same; or the file is resumed
\* while the handler is withdrawing it.
ActiveGetsAdvertised ==
    \A f \in Files :
      f \in active ~> \/ f \in dht \/ f \notin active \/ f \in leftOut
                      \/ restarts > 0 \/ net # "up"

\* The files whose own start_providing is under way: the handler's, that of a
\* resume_providing, and whatever is in the channel.
Starting ==
    {f \in Files : \/ hpc \in {"start", "startSent"} /\ hfile = f
                   \/ \E t \in Tasks : top[t] = "resume" /\ f \in todo[t]
                   \/ InQueue(f)}

Covered(f) == f \in dht \cup Starting \cup leftOut

\* The table survives a restart and the records do not: when
\* advertise_provided_files is through with the rows it has read, and the network
\* loop is alive, every active file is advertised again, its own
\* start_providing is under way, or it is one of those left out.
AdvertiseRestores ==
    [][\A t \in Tasks :
         LoopDone(t) /\ top[t] = "advertise" /\ net # "dead" =>
           \A f \in active : Covered(f)]_vars

\* What makes it inductive: a task has files to start while it goes through
\* them, and resume_providing one, before its only command; ..
ListInv ==
    \A t \in Tasks :
      /\ todo[t] # {} => top[t] # "none"
      /\ top[t] # "none" => tst[t] \in {"loop", "sending", "waiting"}
      /\ top[t] = "resume" => \A f, g \in todo[t] : f = g /\ tst[t] = "loop"

\* .. a task waits for its one command or event in the channel; ..
ChannelInv ==
    /\ \A i \in 1..Len(cmdQ) : cmdQ[i].who \in Tasks => tst[cmdQ[i].who] = "sending"
    /\ \A i, j \in 1..Len(cmdQ) : cmdQ[i].who = cmdQ[j].who => i = j
    /\ \A i \in 1..Len(evQ) : tst[evQ[i].who] = "event"
    /\ \A i, j \in 1..Len(evQ) : evQ[i].who = evQ[j].who => i = j

\* .. while a file is being stopped, its row is not active or is one of those
\* left out; and from the moment advertise_provided_files has read the table,
\* whatever is or becomes active is covered or on its list.
RestoreInv ==
    /\ \A f \in active : Withdrawing(f) => f \in leftOut
    /\ net # "dead" =>
         \A t \in Tasks :
           top[t] = "advertise" => \A f \in active : Covered(f) \/ f \in todo[t]

\* Nothing is queued or under way.
Quiet == /\ hpc = "recv" /\ evQ = <<>> /\ cmdQ = <<>>
         /\ \A t \in Tasks : tst[t] \in {"idle", "done"}

\* "Stop providing a file to the network": once everything has settled, a file
\* that is not active is not advertised.
StoppedIsWithdrawn == Quiet => dht \subseteq active
=============================================================================
