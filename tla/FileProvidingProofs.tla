------------------------- MODULE FileProvidingProofs -------------------------
(***************************************************************************)
(* Proof that the request handler keeps the provider records within the    *)
(* active rows of provided_files, through database errors, failures of the *)
(* network loop and restarts: only a key typed at the command line, or a   *)
(* stop that overtakes a start, can leave a record without an active row.  *)
(* And proof that advertise_provided_files makes up for a restart: when it *)
(* is through with the rows it has read, every active row is advertised or *)
(* about to be, or is one of those that a refused statement or a           *)
(* resume_providing during a stop has left out.                            *)
(***************************************************************************)
EXTENDS FileProviding, TLAPS

LEMMA InitIInv == ASSUME Init PROVE IInv
<1>1. TypeOK
  BY FilesAssumption DEF Init, TypeOK, Rows, CommandSet, EventSet, TaskStates, HandlerPCs, Loops
<1>2. TaskInv /\ HandlerInv /\ AdvertisedIsActive
  BY DEF Init, TaskInv, HandlerInv, AdvertisedIsActive
<1> QED BY <1>1, <1>2 DEF IInv

\* The command at the end of the channel.
LEMMA AppendCommand ==
    ASSUME IInv, NEW c \in CommandSet, cmdQ' = Append(cmdQ, c)
    PROVE  /\ Len(cmdQ) \in Nat /\ Len(cmdQ') = Len(cmdQ) + 1
           /\ cmdQ' \in Seq(CommandSet) /\ cmdQ'[Len(cmdQ) + 1] = c
           /\ \A i \in 1..Len(cmdQ) : i \in 1..Len(cmdQ') /\ cmdQ'[i] = cmdQ[i]
           /\ \A i \in 1..Len(cmdQ') : i \in 1..Len(cmdQ) \/ i = Len(cmdQ) + 1
           /\ Len(cmdQ) + 1 \in 1..Len(cmdQ')
<1>1. cmdQ \in Seq(CommandSet)
  BY DEF IInv, TypeOK
<1> QED BY <1>1

\* The command at its head.
LEMMA TailCommand ==
    ASSUME IInv, cmdQ # <<>>, cmdQ' = Tail(cmdQ)
    PROVE  /\ Len(cmdQ) \in Nat /\ Len(cmdQ') = Len(cmdQ) - 1 /\ cmdQ' \in Seq(CommandSet)
           /\ 1 \in 1..Len(cmdQ) /\ Head(cmdQ) = cmdQ[1] /\ Head(cmdQ) \in CommandSet
           /\ \A i \in 1..Len(cmdQ') : i + 1 \in 1..Len(cmdQ) /\ cmdQ'[i] = cmdQ[i + 1] /\ i + 1 # 1
<1>1. cmdQ \in Seq(CommandSet)
  BY DEF IInv, TypeOK
<1> QED BY <1>1

\* The event at the head of its channel.
LEMMA HeadEvent ==
    ASSUME IInv, evQ # <<>>
    PROVE  /\ Head(evQ) \in EventSet /\ Tail(evQ) \in Seq(EventSet)
           /\ Head(evQ).file \in Files /\ Head(evQ).who \in Tasks
           /\ Head(evQ).kind = "provide" => Head(evQ).path \in Paths
<1>1. evQ \in Seq(EventSet)
  BY DEF IInv, TypeOK
<1>2. Head(evQ) \in EventSet /\ Tail(evQ) \in Seq(EventSet)
  BY <1>1
<1>3. \A e \in EventSet : /\ e.file \in Files /\ e.who \in Tasks
                          /\ e.kind = "provide" => e.path \in Paths
  BY DEF EventSet
<1> QED BY <1>2, <1>3

\* A step of the tasks and the event channel alone.
LEMMA KeepsIInv ==
    ASSUME IInv, tst' \in [Tasks -> TaskStates], evQ' \in Seq(EventSet),
           top' \in [Tasks -> Loops \cup {"none"}], todo' \in [Tasks -> SUBSET Files],
           \A t \in Tasks : todo'[t] \subseteq active \cup astray,
           UNCHANGED <<rowPath, active, dht, cmdQ, hpc, hfile, net, astray, leftOut, restarts>>
    PROVE  IInv'
<1>1. TypeOK'
  BY DEF IInv, TypeOK, Rows
<1>2. TaskInv'
  BY DEF IInv, TaskInv
<1>3. HandlerInv' /\ AdvertisedIsActive'
  BY DEF IInv, HandlerInv, AdvertisedIsActive, Withdrawing
<1> QED BY <1>1, <1>2, <1>3 DEF IInv

\* A task asks the handler for something.
LEMMA SendEventStep ==
    ASSUME IInv, NEW t \in Tasks, NEW o, NEW f \in Files, NEW p,
           (o = "provide" /\ p \in Paths) \/ (o \in {"stop", "remove"} /\ p = None),
           SendEvent(t, o, f, p)
    PROVE  IInv'
<1>1. Event(o, f, p, t) \in EventSet /\ evQ \in Seq(EventSet)
  BY DEF Event, EventSet, IInv, TypeOK
<1>2. evQ' \in Seq(EventSet)
  BY <1>1 DEF SendEvent
<1>3. tst' \in [Tasks -> TaskStates]
  BY DEF SendEvent, IInv, TypeOK, TaskStates
<1>4. UNCHANGED <<rowPath, active, dht, cmdQ, top, todo, hpc, hfile, net, astray, leftOut, restarts>>
  BY DEF SendEvent, table, history
<1> QED BY <1>2, <1>3, <1>4, KeepsIInv DEF IInv, TypeOK, TaskInv

\* A task sets out to start files that are active or may go astray.
LEMMA StartLoopStep ==
    ASSUME IInv, NEW t \in Tasks, NEW o \in Loops, NEW files \in SUBSET Files,
           StartLoop(t, o, files), files \subseteq active' \cup astray',
           active \subseteq active', active' \subseteq Rows,
           astray \subseteq astray', astray' \subseteq Files, leftOut' \subseteq Files
    PROVE  IInv'
<1>1. /\ tst' = [tst EXCEPT ![t] = "loop"] /\ top' = [top EXCEPT ![t] = o]
      /\ todo' = [todo EXCEPT ![t] = files]
      /\ UNCHANGED <<rowPath, dht, evQ, cmdQ, hpc, hfile, net, restarts>>
  BY DEF StartLoop
<1>2. TypeOK'
  BY <1>1 DEF IInv, TypeOK, Rows, TaskStates
<1>3. \A u \in Tasks : todo'[u] \subseteq active' \cup astray'
  BY <1>1 DEF IInv, TypeOK, TaskInv
<1>4. TaskInv'
  BY <1>1, <1>3 DEF IInv, TaskInv
<1>5. HandlerInv' /\ AdvertisedIsActive'
  BY <1>1 DEF IInv, HandlerInv, AdvertisedIsActive, Withdrawing
<1> QED BY <1>2, <1>4, <1>5 DEF IInv

LEMMA EndpointStep == ASSUME IInv, NEW t \in Tasks, Endpoint(t) PROVE IInv'
<1>0. active \subseteq Rows /\ Rows \subseteq Files /\ astray \subseteq Files /\ leftOut \subseteq Files
  BY DEF IInv, TypeOK, Rows
<1>1. CASE ProvideFile(t)
  BY <1>1, SendEventStep DEF ProvideFile
<1>2. CASE StopProviding(t)
  BY <1>2, SendEventStep DEF StopProviding
<1>3. CASE ResumeProviding(t)
  <2>1. PICK f \in Rows : /\ StartLoop(t, "resume", {f}) /\ active' = active \cup {f}
                          /\ leftOut' \subseteq leftOut \cup {f} /\ astray' = astray
    BY <1>3 DEF ResumeProviding
  <2>2. "resume" \in Loops /\ {f} \in SUBSET Files
    BY <1>0 DEF Loops
  <2> QED BY <1>0, <2>1, <2>2, StartLoopStep
<1>4. CASE StartKey(t)
  <2>1. PICK f \in Files : /\ StartLoop(t, "startKey", {f}) /\ astray' = astray \cup {f}
                           /\ active' = active /\ leftOut' = leftOut
    BY <1>4 DEF StartKey
  <2>2. "startKey" \in Loops /\ {f} \in SUBSET Files
    BY DEF Loops
  <2> QED BY <1>0, <2>1, <2>2, StartLoopStep
<1>5. CASE StartLoop(t, "advertise", active) /\ UNCHANGED <<active, history>>
  <2>1. "advertise" \in Loops /\ active \in SUBSET Files /\ UNCHANGED <<active, astray, leftOut>>
    BY <1>0, <1>5 DEF Loops, history
  <2> QED BY <1>0, <1>5, <2>1, StartLoopStep
<1>6. CASE TableUnread(t)
  <2>1. tst' \in [Tasks -> TaskStates]
    BY <1>6 DEF TableUnread, IInv, TypeOK, TaskStates
  <2>2. UNCHANGED <<rowPath, active, dht, evQ, cmdQ, top, todo, hpc, hfile, net, astray,
                    leftOut, restarts>>
    BY <1>6 DEF TableUnread, table, history
  <2> QED BY <2>1, <2>2, KeepsIInv DEF IInv, TypeOK, TaskInv
<1> QED BY <1>1, <1>2, <1>3, <1>4, <1>5, <1>6 DEF Endpoint, AdvertiseProvidedFiles

\* A task goes on, and starts no more than it had set out to.
LEMMA TaskGoesStep ==
    ASSUME IInv, NEW t \in Tasks, NEW st \in TaskStates, NEW o \in Loops \cup {"none"},
           NEW files \in SUBSET todo[t], TaskGoes(t, st, o, files)
    PROVE  IInv'
<1>1. UNCHANGED <<rowPath, active, dht, evQ, cmdQ, hpc, hfile, net, astray, leftOut, restarts>>
  BY DEF TaskGoes, table, history
<1>2. todo[t] \subseteq Files /\ todo[t] \subseteq active \cup astray
  BY DEF IInv, TypeOK, TaskInv
<1>3. /\ tst' \in [Tasks -> TaskStates] /\ top' \in [Tasks -> Loops \cup {"none"}]
      /\ todo' \in [Tasks -> SUBSET Files]
      /\ \A u \in Tasks : todo'[u] \subseteq todo[u]
  BY <1>2 DEF TaskGoes, IInv, TypeOK
<1>4. evQ' \in Seq(EventSet) /\ \A u \in Tasks : todo'[u] \subseteq active \cup astray
  BY <1>1, <1>3 DEF IInv, TypeOK, TaskInv
<1> QED BY <1>1, <1>3, <1>4, KeepsIInv

LEMMA StartNextStep == ASSUME IInv, NEW t \in Tasks, StartNext(t) PROVE IInv'
<1>1. PICK f \in todo[t] : /\ cmdQ' = Append(cmdQ, Command("StartProviding", f, t))
                           /\ todo' = [todo EXCEPT ![t] = @ \ {f}]
  BY DEF StartNext
<1> DEFINE c == Command("StartProviding", f, t)
<1>2. /\ net # "dead" /\ tst' = [tst EXCEPT ![t] = "sending"]
      /\ UNCHANGED <<rowPath, active, dht, evQ, top, hpc, hfile, net, astray, leftOut, restarts>>
  BY DEF StartNext, table, history
<1>3. f \in Files /\ f \in active \cup astray
  BY <1>1 DEF IInv, TypeOK, TaskInv
<1>4. /\ c \in CommandSet /\ c.who # Handler /\ c.kind = "StartProviding" /\ c.file = f
  BY <1>3, FilesAssumption DEF Command, CommandSet, Callers
<1> HIDE DEF c
<1>5. /\ Len(cmdQ) \in Nat /\ Len(cmdQ') = Len(cmdQ) + 1
      /\ cmdQ' \in Seq(CommandSet) /\ cmdQ'[Len(cmdQ) + 1] = c
      /\ \A i \in 1..Len(cmdQ) : i \in 1..Len(cmdQ') /\ cmdQ'[i] = cmdQ[i]
      /\ \A i \in 1..Len(cmdQ') : i \in 1..Len(cmdQ) \/ i = Len(cmdQ) + 1
  BY <1>1, <1>4, AppendCommand DEF c
<1>6. TypeOK'
  BY <1>1, <1>2, <1>5 DEF IInv, TypeOK, Rows, TaskStates
<1>7. TaskInv'
  <2>1. \A u \in Tasks : todo'[u] \subseteq todo[u]
    BY <1>1 DEF IInv, TypeOK
  <2>2. \A i \in 1..Len(cmdQ') : cmdQ'[i].who # Handler =>
          cmdQ'[i].kind = "StartProviding" /\ cmdQ'[i].file \in active \cup astray
    BY <1>3, <1>4, <1>5 DEF IInv, TaskInv
  <2> QED BY <1>2, <2>1, <2>2 DEF IInv, TaskInv
<1>8. HandlerInv'
  BY <1>2, <1>4, <1>5 DEF IInv, HandlerInv
<1>9. AdvertisedIsActive'
  BY <1>2 DEF IInv, AdvertisedIsActive, Withdrawing
<1> QED BY <1>6, <1>7, <1>8, <1>9 DEF IInv

\* What a task does, and a query that is forgotten.
LEMMA TaskStepStep ==
    ASSUME IInv, NEW t \in Tasks, TaskStep(t) \/ TaskForgotten(t) PROVE IInv'
<1>1. /\ {"done", "loop", "forgotten"} \subseteq TaskStates /\ "none" \in Loops \cup {"none"}
      /\ {} \in SUBSET todo[t] /\ todo[t] \in SUBSET todo[t] /\ top[t] \in Loops \cup {"none"}
  BY DEF TaskStates, IInv, TypeOK
<1>2. CASE LoopDone(t) \/ TaskPanics(t)
  BY <1>1, <1>2, TaskGoesStep DEF LoopDone, TaskPanics
<1>3. CASE TaskConfirmed(t)
  BY <1>1, <1>3, TaskGoesStep DEF TaskConfirmed
<1>4. CASE TaskForgotten(t)
  BY <1>1, <1>4, TaskGoesStep DEF TaskForgotten
<1> QED BY <1>2, <1>3, <1>4, StartNextStep DEF TaskStep

\* The handler has a command in the channel only while it is parked on it, and
\* none once the network loop is dead.
LEMMA NoHandlerCommand ==
    ASSUME IInv, hpc \notin {"startSent", "stopSent"} \/ net = "dead"
    PROVE  \A i \in 1..Len(cmdQ) : cmdQ[i].who # Handler
<1>1. \A i \in 1..Len(cmdQ) : cmdQ[i].kind \in {"StartProviding", "StopProviding"}
  <2>1. cmdQ \in Seq(CommandSet)
    BY DEF IInv, TypeOK
  <2>2. \A i \in 1..Len(cmdQ) : cmdQ[i] \in CommandSet
    BY <2>1
  <2> QED BY <2>2 DEF CommandSet
<1>2. CASE net = "dead"
  BY <1>2 DEF IInv, HandlerInv
<1> QED BY <1>1, <1>2 DEF IInv, HandlerInv

\* What the handler's taking an event leaves alone.
LEMMA TakeEventKeeps ==
    ASSUME IInv, NEW kind, TakeEvent(kind)
    PROVE  /\ hpc = "recv" /\ Head(evQ).kind = kind /\ Head(evQ).file \in Files
           /\ kind = "provide" => Head(evQ).path \in Paths
           /\ evQ' \in Seq(EventSet) /\ tst' \in [Tasks -> TaskStates]
           /\ UNCHANGED <<dht, cmdQ, top, todo, net, restarts>>
           /\ \A i \in 1..Len(cmdQ) : cmdQ[i].who # Handler
<1>1. /\ hpc = "recv" /\ evQ # <<>> /\ Head(evQ).kind = kind /\ evQ' = Tail(evQ)
      /\ tst' = [tst EXCEPT ![Head(evQ).who] = "done"]
      /\ UNCHANGED <<dht, cmdQ, top, todo, net, restarts>>
  BY DEF TakeEvent
<1>2. \A i \in 1..Len(cmdQ) : cmdQ[i].who # Handler
  BY <1>1, NoHandlerCommand
<1>3. tst' \in [Tasks -> TaskStates]
  BY <1>1 DEF IInv, TypeOK, TaskStates
<1> QED BY <1>1, <1>2, <1>3, HeadEvent

LEMMA HandleProvideFileStep == ASSUME IInv, HandleProvideFile PROVE IInv'
<1> DEFINE f == Head(evQ).file
           p == Head(evQ).path
<1>1. /\ hpc = "recv" /\ f \in Files /\ p \in Paths /\ evQ' \in Seq(EventSet)
      /\ tst' \in [Tasks -> TaskStates]
      /\ UNCHANGED <<dht, cmdQ, top, todo, net, restarts>>
      /\ \A i \in 1..Len(cmdQ) : cmdQ[i].who # Handler
  BY TakeEventKeeps DEF HandleProvideFile
<1>2. /\ \/ /\ rowPath' = [rowPath EXCEPT ![f] = p] /\ active' = active \cup {f}
            /\ hpc' = "start" /\ hfile' = f
         \/ UNCHANGED <<rowPath, active, hpc, hfile>>
      /\ UNCHANGED <<astray, leftOut>>
  BY DEF HandleProvideFile, HandlerGoes, table, history
<1> HIDE DEF f, p
<1>3. f # None /\ p # None
  BY <1>1, FilesAssumption
<1>4. rowPath' \in [Files -> Paths \cup {None}] /\ active' \subseteq Rows'
  BY <1>1, <1>2, <1>3 DEF IInv, TypeOK, Rows
<1>5. TypeOK'
  BY <1>1, <1>2, <1>3, <1>4 DEF IInv, TypeOK, HandlerPCs
<1>6. TaskInv' /\ AdvertisedIsActive'
  BY <1>1, <1>2 DEF IInv, TaskInv, AdvertisedIsActive, Withdrawing
<1>7. HandlerInv'
  BY <1>1, <1>2 DEF IInv, HandlerInv
<1> QED BY <1>5, <1>6, <1>7 DEF IInv

\* The handler is bound to withdraw the record of the row it lets go of.
LEMMA HandleStopStep ==
    ASSUME IInv, HandleStopProviding \/ HandleRemove PROVE IInv'
<1> DEFINE f == Head(evQ).file
<1>0. PICK o \in {"stop", "remove"} : TakeEvent(o)
  BY DEF HandleStopProviding, HandleRemove
<1>1. /\ hpc = "recv" /\ f \in Files /\ evQ' \in Seq(EventSet)
      /\ tst' \in [Tasks -> TaskStates]
      /\ UNCHANGED <<dht, cmdQ, top, todo, net, restarts>>
      /\ \A i \in 1..Len(cmdQ) : cmdQ[i].who # Handler
  BY <1>0, TakeEventKeeps
<1>2. /\ hpc' = "stop" /\ hfile' = f
      /\ astray' = IF Pending(f) THEN astray \cup {f} ELSE astray \ {f}
      /\ active' \subseteq active /\ active \ active' \subseteq {f}
      /\ leftOut' \subseteq leftOut \cup {f}
      /\ rowPath' = rowPath \/ (rowPath' = [rowPath EXCEPT ![f] = None] /\ active' = active \ {f})
  BY DEF HandleStopProviding, HandleRemove, Withdraw, HandlerGoes, StatementFails, table
<1> HIDE DEF f
<1>3. f # None
  BY <1>1, FilesAssumption
<1>4. rowPath' \in [Files -> Paths \cup {None}] /\ active' \subseteq Rows'
  BY <1>1, <1>2, <1>3 DEF IInv, TypeOK, Rows
<1>5. TypeOK'
  BY <1>1, <1>2, <1>3, <1>4 DEF IInv, TypeOK, HandlerPCs
<1>6. TaskInv'
  <2>1. \A u \in Tasks : todo'[u] \subseteq active' \cup astray'
    BY <1>1, <1>2 DEF IInv, TaskInv, Pending
  <2>2. \A i \in 1..Len(cmdQ) : /\ cmdQ[i].kind = "StartProviding"
                                /\ cmdQ[i].file \in active' \cup astray'
    <3> TAKE i \in 1..Len(cmdQ)
    <3>1. cmdQ[i].kind = "StartProviding" /\ cmdQ[i].file \in active \cup astray
      BY <1>1 DEF IInv, TaskInv
    <3>2. cmdQ[i].file = f => Pending(f)
      BY <3>1 DEF Pending, InQueue
    <3> QED BY <1>2, <3>1, <3>2
  <2> QED BY <1>1, <2>1, <2>2 DEF TaskInv
<1>7. HandlerInv'
  BY <1>1, <1>2 DEF IInv, HandlerInv
<1>8. AdvertisedIsActive'
  BY <1>1, <1>2 DEF IInv, AdvertisedIsActive, Withdrawing
<1> QED BY <1>5, <1>6, <1>7, <1>8 DEF IInv

LEMMA HandlerSendStep == ASSUME IInv, HandlerSend PROVE IInv'
<1>1. PICK k \in {"StartProviding", "StopProviding"} :
        /\ cmdQ' = Append(cmdQ, Command(k, hfile, Handler))
        /\ k = "StartProviding" => hpc = "start" /\ hpc' = "startSent"
        /\ k = "StopProviding" => hpc = "stop" /\ hpc' = "stopSent"
  BY DEF HandlerSend
<1> DEFINE c == Command(k, hfile, Handler)
<1>2. /\ hfile \in Files /\ \A i \in 1..Len(cmdQ) : cmdQ[i].who # Handler
  BY <1>1, NoHandlerCommand DEF IInv, TypeOK
<1>3. c \in CommandSet /\ c.who = Handler /\ c.kind = k /\ c.file = hfile
  BY <1>2 DEF Command, CommandSet, Callers
<1> HIDE DEF c
<1>4. /\ Len(cmdQ) \in Nat /\ Len(cmdQ') = Len(cmdQ) + 1
      /\ cmdQ' \in Seq(CommandSet) /\ cmdQ'[Len(cmdQ) + 1] = c
      /\ \A i \in 1..Len(cmdQ) : i \in 1..Len(cmdQ') /\ cmdQ'[i] = cmdQ[i]
      /\ \A i \in 1..Len(cmdQ') : i \in 1..Len(cmdQ) \/ i = Len(cmdQ) + 1
  BY <1>1, <1>3, AppendCommand DEF c
<1>5. /\ net # "dead"
      /\ UNCHANGED <<rowPath, active, dht, evQ, tst, top, todo, hfile, net, astray, leftOut,
                     restarts>>
  BY DEF HandlerSend, table, taskVars, history
<1>6. TypeOK'
  BY <1>1, <1>4, <1>5 DEF IInv, TypeOK, Rows, HandlerPCs
<1>7. TaskInv'
  BY <1>3, <1>4, <1>5 DEF IInv, TaskInv
<1>8. HandlerInv'
  BY <1>1, <1>2, <1>3, <1>4, <1>5 DEF IInv, HandlerInv
<1>9. AdvertisedIsActive'
  BY <1>1, <1>5 DEF IInv, AdvertisedIsActive, Withdrawing
<1> QED BY <1>6, <1>7, <1>8, <1>9 DEF IInv

\* The answer of the network loop, its failure to give one, and its end.
LEMMA HandlerAnsweredStep ==
    ASSUME IInv, HandlerConfirmed \/ HandlerForgotten \/ HandlerReleased PROVE IInv'
<1>1. /\ UNCHANGED <<rowPath, active, dht, evQ, cmdQ, tst, top, todo, net, astray, leftOut, restarts>>
      /\ \/ hpc' = "recv" /\ hfile' = None
         \/ hpc = "confirm" /\ hpc' = "forgotten" /\ hfile' = hfile
      /\ hpc = "confirm" \/ (hpc = "stopSent" /\ net = "dead")
  BY DEF HandlerConfirmed, HandlerForgotten, HandlerReleased, HandlerGoes, table, taskVars, history
<1>2. \A i \in 1..Len(cmdQ) : cmdQ[i].who # Handler
  BY <1>1, NoHandlerCommand
<1>3. TypeOK'
  BY <1>1 DEF IInv, TypeOK, Rows, HandlerPCs
<1>4. TaskInv'
  BY <1>1 DEF IInv, TaskInv
<1>5. HandlerInv'
  BY <1>1, <1>2 DEF IInv, HandlerInv
<1>6. AdvertisedIsActive'
  BY <1>1 DEF IInv, HandlerInv, AdvertisedIsActive, Withdrawing
<1> QED BY <1>3, <1>4, <1>5, <1>6 DEF IInv

LEMMA HandlerGoneStep == ASSUME IInv, HandlerPanics \/ HandlerDies PROVE IInv'
<1>1. /\ hpc' = "dead" /\ hfile' = None /\ evQ' = <<>>
      /\ tst' = [t \in Tasks |-> IF tst[t] = "event" THEN "done" ELSE tst[t]]
      /\ UNCHANGED <<rowPath, active, dht, cmdQ, top, todo, net, astray, leftOut, restarts>>
      /\ hpc = "recv" \/ net = "dead"
  BY DEF HandlerPanics, HandlerDies, HandlerGone, HandlerGoes, table, history
<1>2. \A i \in 1..Len(cmdQ) : cmdQ[i].who # Handler
  BY <1>1, NoHandlerCommand
<1>3. TypeOK'
  BY <1>1 DEF IInv, TypeOK, Rows, HandlerPCs, TaskStates
<1>4. TaskInv'
  BY <1>1 DEF IInv, TaskInv
<1>5. HandlerInv'
  BY <1>1, <1>2 DEF IInv, HandlerInv
<1>6. AdvertisedIsActive'
  BY <1>1 DEF IInv, HandlerInv, AdvertisedIsActive, Withdrawing
<1> QED BY <1>3, <1>4, <1>5, <1>6 DEF IInv

\* A command of a task is for a file that is active or may go astray; a command
\* of the handler is for the file it serves.
LEMMA NetStepStep == ASSUME IInv, NetStep PROVE IInv'
<1> DEFINE c == Head(cmdQ)
<1>1. cmdQ # <<>> /\ cmdQ' = Tail(cmdQ) /\ net = "up" /\ net' = net
  BY DEF NetStep, NetStartProviding, NetStopProviding
<1>2. /\ Len(cmdQ) \in Nat /\ Len(cmdQ') = Len(cmdQ) - 1 /\ cmdQ' \in Seq(CommandSet)
      /\ 1 \in 1..Len(cmdQ) /\ c = cmdQ[1] /\ c \in CommandSet
      /\ \A i \in 1..Len(cmdQ') : i + 1 \in 1..Len(cmdQ) /\ cmdQ'[i] = cmdQ[i + 1] /\ i + 1 # 1
  BY <1>1, TailCommand
<1>3. /\ c.who \in Callers /\ c.file \in Files
  BY <1>2 DEF CommandSet
<1>4. ASSUME UNCHANGED <<todo, active, astray>> PROVE TaskInv'
  BY <1>2, <1>4 DEF IInv, TaskInv
<1>5. CASE c.who = Handler
  <2>1. \A i \in 1..Len(cmdQ') : cmdQ'[i].who # Handler
    BY <1>2, <1>5 DEF IInv, HandlerInv
  <2>2. /\ c.file = hfile
        /\ c.kind = "StartProviding" => hpc = "startSent"
        /\ c.kind = "StopProviding" => hpc = "stopSent"
    BY <1>2, <1>5 DEF IInv, HandlerInv
  <2>3. CASE NetStartProviding
    <3>1. /\ hpc = "startSent" /\ hpc' = "confirm" /\ dht' = dht \cup {hfile}
          /\ leftOut' \subseteq leftOut
          /\ UNCHANGED <<rowPath, active, evQ, tst, top, todo, hfile, astray, restarts>>
      BY <1>5, <2>2, <2>3 DEF NetStartProviding, table
    <3>2. TypeOK'
      BY <1>1, <1>2, <1>3, <2>2, <3>1 DEF IInv, TypeOK, Rows, HandlerPCs
    <3>3. HandlerInv'
      BY <1>1, <2>1, <3>1 DEF IInv, HandlerInv
    <3>4. AdvertisedIsActive'
      BY <3>1 DEF IInv, HandlerInv, AdvertisedIsActive, Withdrawing
    <3> QED BY <1>4, <3>1, <3>2, <3>3, <3>4 DEF IInv
  <2>4. CASE NetStopProviding
    <3>1. /\ hpc = "stopSent" /\ hpc' = "recv" /\ dht' = dht \ {hfile}
          /\ hfile' = None
          /\ UNCHANGED <<rowPath, active, evQ, tst, top, todo, astray, leftOut, restarts>>
      BY <2>2, <2>4 DEF NetStopProviding, HandlerGoes, table, taskVars, history
    <3>2. TypeOK'
      BY <1>1, <1>2, <3>1 DEF IInv, TypeOK, Rows, HandlerPCs
    <3>3. HandlerInv'
      BY <1>1, <2>1, <3>1 DEF HandlerInv
    <3>4. AdvertisedIsActive'
      BY <3>1 DEF IInv, AdvertisedIsActive, Withdrawing
    <3> QED BY <1>4, <3>1, <3>2, <3>3, <3>4 DEF IInv
  <2> QED BY <2>3, <2>4 DEF NetStep
<1>6. CASE c.who # Handler
  <2>1. c.who \in Tasks /\ c.kind = "StartProviding" /\ c.file \in active \cup astray
    BY <1>2, <1>3, <1>6 DEF IInv, TaskInv, Callers
  <2>2. /\ dht' = dht \cup {c.file} /\ tst' = [tst EXCEPT ![c.who] = "waiting"]
        /\ leftOut' \subseteq leftOut
        /\ UNCHANGED <<rowPath, active, evQ, top, todo, hpc, hfile, astray, restarts>>
    BY <1>6, <2>1 DEF NetStep, NetStartProviding, NetStopProviding, table
  <2>3. TypeOK'
    BY <1>1, <1>2, <1>3, <2>1, <2>2 DEF IInv, TypeOK, Rows, TaskStates
  <2>4. TaskInv'
    BY <1>4, <2>2
  <2>5. HandlerInv'
    <3>1. \A i, j \in 1..Len(cmdQ') :
            cmdQ'[i].who = Handler /\ cmdQ'[j].who = Handler => i = j
      <4>1. TAKE i, j \in 1..Len(cmdQ')
      <4>2. i + 1 = j + 1 => i = j
        BY <1>1, <1>2
      <4>3. /\ i + 1 \in 1..Len(cmdQ) /\ cmdQ'[i] = cmdQ[i + 1]
            /\ j + 1 \in 1..Len(cmdQ) /\ cmdQ'[j] = cmdQ[j + 1]
        BY <1>2
      <4>4. cmdQ[i + 1].who = Handler /\ cmdQ[j + 1].who = Handler => i + 1 = j + 1
        BY <4>3 DEF IInv, HandlerInv
      <4> QED BY <4>2, <4>3, <4>4
    <3> QED BY <1>1, <1>2, <2>2, <3>1 DEF IInv, HandlerInv
  <2>6. AdvertisedIsActive'
    BY <2>1, <2>2 DEF IInv, AdvertisedIsActive, Withdrawing
  <2> QED BY <2>3, <2>4, <2>5, <2>6 DEF IInv
<1> QED BY <1>5, <1>6

\* The network loop stops, or takes records and commands with it.
LEMMA NetFailsStep == ASSUME IInv, NetStops \/ NetDies PROVE IInv'
<1>1. /\ UNCHANGED <<rowPath, active, evQ, tst, top, todo, hpc, hfile, astray, leftOut, restarts>>
      /\ \/ net' = "stopped" /\ UNCHANGED <<dht, cmdQ>>
         \/ net' = "dead" /\ dht' = {} /\ cmdQ' = <<>>
  BY DEF NetStops, NetDies, table, taskVars, history
<1>2. TypeOK'
  <2>1. cmdQ' \in Seq(CommandSet) /\ dht' \subseteq Files
    <3>1. <<>> \in Seq(CommandSet)
      OBVIOUS
    <3> QED BY <1>1, <3>1 DEF IInv, TypeOK
  <2> QED BY <1>1, <2>1 DEF IInv, TypeOK, Rows
<1>3. TaskInv' /\ HandlerInv' /\ AdvertisedIsActive'
  BY <1>1 DEF IInv, TaskInv, HandlerInv, AdvertisedIsActive, Withdrawing
<1> QED BY <1>2, <1>3 DEF IInv

LEMMA RestartStep == ASSUME IInv, Restart PROVE IInv'
<1>1. TypeOK'
  BY FilesAssumption DEF IInv, TypeOK, Restart, table, Rows, CommandSet, EventSet,
     TaskStates, HandlerPCs, Loops
<1>2. TaskInv'
  BY DEF TaskInv, Restart
<1>3. HandlerInv' /\ AdvertisedIsActive'
  BY DEF HandlerInv, AdvertisedIsActive, Restart
<1> QED BY <1>1, <1>2, <1>3 DEF IInv

LEMMA NextIInv == ASSUME IInv, [Next]_vars PROVE IInv'
<1>1. CASE UNCHANGED vars
  BY <1>1 DEF vars, table, taskVars, history, IInv, TypeOK, Rows, TaskInv, HandlerInv,
     AdvertisedIsActive, Withdrawing
<1>2. CASE HandlerStep
  BY <1>2, HandleProvideFileStep, HandleStopStep, HandlerSendStep,
     HandlerAnsweredStep, HandlerGoneStep DEF HandlerStep
<1>3. CASE Fault
  BY <1>3, NetFailsStep, HandlerGoneStep, HandlerAnsweredStep, TaskStepStep DEF Fault
<1> QED BY <1>1, <1>2, <1>3, EndpointStep, TaskStepStep, NetStepStep, RestartStep
     DEF Next

\* Every record the node advertises belongs to an active row or is about to be
\* withdrawn, unless its key was typed at the command line, or its stop was begun
\* while a start of it was under way past the handler: for every number
\* of files, requests and restarts, whether or not the database fails, and whatever
\* becomes of the network loop.
THEOREM AdvertisedRecordsActive == Spec => []AdvertisedIsActive
<1>1. Init => IInv
  BY InitIInv
<1>2. IInv /\ [Next]_vars => IInv'
  BY NextIInv
<1>3. IInv => AdvertisedIsActive
  BY DEF IInv
<1> QED BY <1>1, <1>2, <1>3, PTL DEF Spec

\* Table, records, channels, tasks and handler keep their types: an active file
\* has a row, and the handler has a file exactly while it works on one.
THEOREM FilesTypeCorrect == Spec => []TypeOK
<1>1. Init => IInv
  BY InitIInv
<1>2. IInv /\ [Next]_vars => IInv'
  BY NextIInv
<1>3. IInv => TypeOK
  BY DEF IInv
<1> QED BY <1>1, <1>2, <1>3, PTL DEF Spec

-----------------------------------------------------------------------------
(* advertise_provided_files.                                               *)

\* An event joins its channel, or is taken from it.
LEMMA AppendEvent ==
    ASSUME IInv, NEW e \in EventSet, evQ' = Append(evQ, e)
    PROVE  /\ Len(evQ) \in Nat /\ Len(evQ') = Len(evQ) + 1 /\ evQ'[Len(evQ) + 1] = e
           /\ \A i \in 1..Len(evQ) : evQ'[i] = evQ[i]
           /\ \A i \in 1..Len(evQ') : i \in 1..Len(evQ) \/ i = Len(evQ) + 1
<1>1. evQ \in Seq(EventSet)
  BY DEF IInv, TypeOK
<1> QED BY <1>1

LEMMA TailEvent ==
    ASSUME IInv, evQ # <<>>, evQ' = Tail(evQ)
    PROVE  /\ Len(evQ) \in Nat /\ 1 \in 1..Len(evQ) /\ Head(evQ) = evQ[1]
           /\ \A i \in 1..Len(evQ') : i + 1 \in 1..Len(evQ) /\ evQ'[i] = evQ[i + 1] /\ i + 1 # 1
           /\ \A i, j \in 1..Len(evQ') : i + 1 = j + 1 => i = j
<1>1. evQ \in Seq(EventSet)
  BY DEF IInv, TypeOK
<1> QED BY <1>1

LEMMA InitSender == ASSUME Init PROVE ListInv /\ ChannelInv
BY DEF Init, ListInv, ChannelInv

LEMMA EventWho == ASSUME IInv PROVE \A i \in 1..Len(evQ) : evQ[i].who \in Tasks
<1>1. evQ \in Seq(EventSet)
  BY DEF IInv, TypeOK
<1>2. \A i \in 1..Len(evQ) : evQ[i] \in EventSet
  BY <1>1
<1> QED BY <1>2 DEF EventSet

\* A step of one task that leaves the channels alone, and is not waiting in one.
LEMMA KeepsSender ==
    ASSUME IInv, ListInv, ChannelInv, UNCHANGED <<cmdQ, evQ>>, NEW t \in Tasks,
           \A u \in Tasks \ {t} : tst'[u] = tst[u] /\ top'[u] = top[u] /\ todo'[u] = todo[u],
           tst[t] \notin {"sending", "event"},
           todo'[t] # {} => top'[t] # "none",
           top'[t] # "none" => tst'[t] \in {"loop", "sending", "waiting"},
           top'[t] = "resume" => \A f, g \in todo'[t] : f = g /\ tst'[t] = "loop"
    PROVE  ListInv' /\ ChannelInv'
<1>1. ListInv'
  BY DEF ListInv
<1>2. \A i \in 1..Len(cmdQ) : cmdQ[i].who \in Tasks => tst'[cmdQ[i].who] = "sending"
  BY DEF ChannelInv
<1>3. \A i \in 1..Len(evQ) : tst'[evQ[i].who] = "event"
  BY EventWho DEF ChannelInv
<1> QED BY <1>1, <1>2, <1>3 DEF ChannelInv

LEMMA EndpointSender ==
    ASSUME IInv, ListInv, ChannelInv, NEW t \in Tasks, Endpoint(t)
    PROVE  ListInv' /\ ChannelInv'
<1>1. ASSUME NEW o \in Loops, NEW files, StartLoop(t, o, files),
             o = "resume" => \A f, g \in files : f = g
      PROVE  ListInv' /\ ChannelInv'
  <2>1. /\ tst[t] = "idle" /\ tst'[t] = "loop" /\ top'[t] = o /\ UNCHANGED <<cmdQ, evQ>>
        /\ todo'[t] = files
        /\ \A u \in Tasks \ {t} : tst'[u] = tst[u] /\ top'[u] = top[u] /\ todo'[u] = todo[u]
    BY <1>1 DEF StartLoop, IInv, TypeOK
  <2>2. top'[t] # "none"
    BY <2>1 DEF Loops
  <2> QED BY <1>1, <2>1, <2>2, KeepsSender
<1>2. CASE ResumeProviding(t) \/ StartKey(t) \/ StartLoop(t, "advertise", active)
  BY <1>1, <1>2 DEF ResumeProviding, StartKey, Loops
<1>3. CASE TableUnread(t)
  <2>1. /\ tst[t] = "idle" /\ UNCHANGED <<cmdQ, evQ, top, todo>>
        /\ \A u \in Tasks \ {t} : tst'[u] = tst[u]
    BY <1>3 DEF TableUnread, IInv, TypeOK
  <2>2. top[t] = "none" /\ todo[t] = {}
    BY <2>1 DEF ListInv
  <2> QED BY <2>1, <2>2, KeepsSender
<1>4. ASSUME NEW o, NEW f \in Files, NEW p,
             (o = "provide" /\ p \in Paths) \/ (o \in {"stop", "remove"} /\ p = None),
             SendEvent(t, o, f, p)
      PROVE  ListInv' /\ ChannelInv'
  <2>1. /\ tst[t] = "idle" /\ UNCHANGED <<cmdQ, top, todo>>
        /\ \A u \in Tasks \ {t} : tst'[u] = tst[u]
    BY <1>4 DEF SendEvent, IInv, TypeOK
  <2>2. top[t] = "none" /\ todo[t] = {}
    BY <2>1 DEF ListInv
  <2>3. CASE hpc = "dead"
    BY <1>4, <2>1, <2>2, <2>3, KeepsSender DEF SendEvent
  <2>4. CASE hpc # "dead"
    <3> DEFINE e == Event(o, f, p, t)
    <3>1. tst'[t] = "event" /\ evQ' = Append(evQ, e)
      BY <1>4, <2>4 DEF SendEvent, IInv, TypeOK
    <3>2. e \in EventSet /\ e.who = t
      BY <1>4 DEF Event, EventSet
    <3> HIDE DEF e
    <3>3. /\ Len(evQ) \in Nat /\ Len(evQ') = Len(evQ) + 1 /\ evQ'[Len(evQ) + 1] = e
          /\ \A i \in 1..Len(evQ) : evQ'[i] = evQ[i]
          /\ \A i \in 1..Len(evQ') : i \in 1..Len(evQ) \/ i = Len(evQ) + 1
      BY <3>1, <3>2, AppendEvent
    <3>4. \A i \in 1..Len(evQ) : evQ[i].who \in Tasks \ {t}
      BY <2>1, EventWho DEF ChannelInv
    <3>5. \A i \in 1..Len(evQ') : tst'[evQ'[i].who] = "event"
      BY <2>1, <3>1, <3>2, <3>3, <3>4 DEF ChannelInv
    <3>6. \A i, j \in 1..Len(evQ') : evQ'[i].who = evQ'[j].who => i = j
      BY <3>2, <3>3, <3>4 DEF ChannelInv
    <3>7. \A i \in 1..Len(cmdQ) : cmdQ[i].who \in Tasks => tst'[cmdQ[i].who] = "sending"
      BY <2>1 DEF ChannelInv
    <3>8. ListInv'
      BY <2>1, <2>2 DEF ListInv
    <3> QED BY <2>1, <3>5, <3>6, <3>7, <3>8 DEF ChannelInv
  <2> QED BY <2>3, <2>4
<1>5. CASE ProvideFile(t) \/ StopProviding(t)
  BY <1>4, <1>5 DEF ProvideFile, StopProviding
<1> QED BY <1>2, <1>3, <1>5 DEF Endpoint, AdvertiseProvidedFiles

LEMMA TaskSender ==
    ASSUME IInv, ListInv, ChannelInv, NEW t \in Tasks, TaskStep(t) \/ TaskForgotten(t)
    PROVE  ListInv' /\ ChannelInv'
<1>1. CASE StartNext(t)
  <2>1. PICK f \in todo[t] : /\ cmdQ' = Append(cmdQ, Command("StartProviding", f, t))
                             /\ todo' = [todo EXCEPT ![t] = @ \ {f}]
    BY <1>1 DEF StartNext
  <2> DEFINE c == Command("StartProviding", f, t)
  <2>2. c \in CommandSet /\ c.who = t
    BY DEF IInv, TypeOK, Command, CommandSet, Callers
  <2> HIDE DEF c
  <2>3. /\ tst[t] = "loop" /\ tst'[t] = "sending" /\ \A u \in Tasks \ {t} : tst'[u] = tst[u]
        /\ UNCHANGED <<top, evQ>> /\ \A u \in Tasks \ {t} : todo'[u] = todo[u]
        /\ todo'[t] = todo[t] \ {f}
    BY <1>1, <2>1 DEF StartNext, IInv, TypeOK
  <2>4. \A i \in 1..Len(cmdQ) : cmdQ[i].who # t
    BY <2>3 DEF ChannelInv
  <2>5. /\ Len(cmdQ) \in Nat /\ Len(cmdQ') = Len(cmdQ) + 1
        /\ cmdQ'[Len(cmdQ) + 1] = c
        /\ \A i \in 1..Len(cmdQ) : cmdQ'[i] = cmdQ[i]
        /\ \A i \in 1..Len(cmdQ') : i \in 1..Len(cmdQ) \/ i = Len(cmdQ) + 1
    BY <2>1, <2>2, AppendCommand DEF c
  <2>6. \A i \in 1..Len(cmdQ') : cmdQ'[i].who \in Tasks => tst'[cmdQ'[i].who] = "sending"
    BY <2>2, <2>3, <2>4, <2>5 DEF ChannelInv
  <2>7. \A i, j \in 1..Len(cmdQ') : cmdQ'[i].who = cmdQ'[j].who => i = j
    BY <2>2, <2>4, <2>5 DEF ChannelInv
  <2>8. \A i \in 1..Len(evQ) : tst'[evQ[i].who] = "event"
    BY <2>3, EventWho DEF ChannelInv
  <2>9. top[t] = "resume" => todo'[t] = {}
    BY <2>1, <2>3 DEF ListInv
  <2>10. ListInv'
    BY <2>3, <2>9 DEF ListInv
  <2> QED BY <2>3, <2>6, <2>7, <2>8, <2>10 DEF ChannelInv
<1>2. ASSUME tst[t] \notin {"sending", "event"}, TaskGoes(t, tst'[t], top'[t], todo'[t]),
             todo'[t] # {} => top'[t] # "none",
             top'[t] # "none" => tst'[t] \in {"loop", "sending", "waiting"},
             top'[t] = "resume" => \A f, g \in todo'[t] : f = g /\ tst'[t] = "loop"
      PROVE  ListInv' /\ ChannelInv'
  <2>1. /\ UNCHANGED <<cmdQ, evQ>>
        /\ \A u \in Tasks \ {t} : tst'[u] = tst[u] /\ top'[u] = top[u] /\ todo'[u] = todo[u]
    BY <1>2 DEF TaskGoes, IInv, TypeOK
  <2> QED BY <1>2, <2>1, KeepsSender
<1>3. CASE LoopDone(t) \/ TaskForgotten(t)
  <2>1. tst[t] \in {"loop", "waiting"} /\ \E st : TaskGoes(t, st, "none", {})
    BY <1>3 DEF LoopDone, TaskForgotten
  <2>2. top'[t] = "none" /\ todo'[t] = {} /\ TaskGoes(t, tst'[t], top'[t], todo'[t])
    BY <2>1 DEF TaskGoes, IInv, TypeOK
  <2> QED BY <1>2, <2>1, <2>2
<1>4. CASE TaskConfirmed(t)
  <2>1. tst[t] = "waiting" /\ TaskGoes(t, "loop", top[t], todo[t])
    BY <1>4 DEF TaskConfirmed
  <2>2. /\ tst'[t] = "loop" /\ top'[t] = top[t] /\ todo'[t] = todo[t]
        /\ TaskGoes(t, tst'[t], top'[t], todo'[t])
    BY <2>1 DEF TaskGoes, IInv, TypeOK
  <2>3. todo[t] # {} => top[t] # "none" /\ top[t] # "resume"
    BY <2>1 DEF ListInv
  <2> QED BY <1>2, <2>1, <2>2, <2>3
<1>5. CASE TaskPanics(t)
  <2>1. /\ cmdQ = <<>> /\ UNCHANGED <<cmdQ, evQ>> /\ tst[t] # "event"
        /\ top'[t] = "none" /\ todo'[t] = {}
        /\ \A u \in Tasks \ {t} : tst'[u] = tst[u] /\ top'[u] = top[u] /\ todo'[u] = todo[u]
    BY <1>5 DEF TaskPanics, TaskGoes, IInv, TypeOK, HandlerInv
  <2>2. \A i \in 1..Len(evQ) : tst'[evQ[i].who] = "event"
    BY <2>1, EventWho DEF ChannelInv
  <2>3. ListInv'
    BY <2>1 DEF ListInv
  <2> QED BY <2>1, <2>2, <2>3 DEF ChannelInv
<1> QED BY <1>1, <1>3, <1>4, <1>5 DEF TaskStep

\* The handler takes an event, whose task is parked on nothing else.
LEMMA TakeEventSender ==
    ASSUME IInv, ListInv, ChannelInv, NEW kind, TakeEvent(kind)
    PROVE  /\ ListInv' /\ ChannelInv' /\ UNCHANGED <<top, todo>>
           /\ \A u \in Tasks : top[u] # "none" => tst'[u] = tst[u]
<1> DEFINE t == Head(evQ).who
<1>1. /\ evQ # <<>> /\ evQ' = Tail(evQ) /\ tst' = [tst EXCEPT ![t] = "done"]
      /\ UNCHANGED <<cmdQ, top, todo>>
  BY DEF TakeEvent
<1>2. /\ Len(evQ) \in Nat /\ 1 \in 1..Len(evQ) /\ Head(evQ) = evQ[1]
      /\ \A i \in 1..Len(evQ') : i + 1 \in 1..Len(evQ) /\ evQ'[i] = evQ[i + 1] /\ i + 1 # 1
      /\ \A i, j \in 1..Len(evQ') : i + 1 = j + 1 => i = j
  BY <1>1, TailEvent
<1>3. t \in Tasks /\ tst[t] = "event" /\ tst'[t] = "done"
      /\ \A u \in Tasks \ {t} : tst'[u] = tst[u]
  BY <1>1, <1>2, EventWho DEF ChannelInv, IInv, TypeOK
<1>4. \A i \in 1..Len(evQ') : evQ'[i].who \in Tasks \ {t}
  BY <1>2, EventWho DEF ChannelInv
<1>5. \A i \in 1..Len(evQ') : tst'[evQ'[i].who] = "event"
  BY <1>2, <1>3, <1>4 DEF ChannelInv
<1>6. \A i, j \in 1..Len(evQ') : evQ'[i].who = evQ'[j].who => i = j
  BY <1>2 DEF ChannelInv
<1>7. top[t] = "none" /\ todo[t] = {}
  BY <1>3 DEF ListInv
<1>8. \A i \in 1..Len(cmdQ) : cmdQ[i].who \in Tasks => tst'[cmdQ[i].who] = "sending"
  BY <1>3 DEF ChannelInv
<1>9. ListInv'
  BY <1>1, <1>3, <1>7 DEF ListInv
<1> QED BY <1>1, <1>3, <1>5, <1>6, <1>7, <1>8, <1>9 DEF ChannelInv

LEMMA HandlerSender ==
    ASSUME IInv, ListInv, ChannelInv, HandlerStep \/ HandlerDies \/ HandlerForgotten
    PROVE  ListInv' /\ ChannelInv'
<1>1. CASE HandlerSend
  <2>1. PICK k \in {"StartProviding", "StopProviding"} :
          cmdQ' = Append(cmdQ, Command(k, hfile, Handler)) /\ hpc \in {"start", "stop"}
    BY <1>1 DEF HandlerSend
  <2> DEFINE c == Command(k, hfile, Handler)
  <2>2. c \in CommandSet /\ c.who = Handler
    BY <2>1 DEF IInv, TypeOK, Command, CommandSet, Callers
  <2> HIDE DEF c
  <2>3. UNCHANGED <<tst, top, todo, evQ>>
    BY <1>1 DEF HandlerSend, taskVars
  <2>4. \A i \in 1..Len(cmdQ) : cmdQ[i].who # Handler
    BY <2>1, NoHandlerCommand
  <2>5. /\ Len(cmdQ) \in Nat /\ Len(cmdQ') = Len(cmdQ) + 1
        /\ cmdQ'[Len(cmdQ) + 1] = c
        /\ \A i \in 1..Len(cmdQ) : cmdQ'[i] = cmdQ[i]
        /\ \A i \in 1..Len(cmdQ') : i \in 1..Len(cmdQ) \/ i = Len(cmdQ) + 1
    BY <2>1, <2>2, AppendCommand DEF c
  <2>6. \A i \in 1..Len(cmdQ') : cmdQ'[i].who \in Tasks => tst[cmdQ'[i].who] = "sending"
    BY <2>2, <2>5, FilesAssumption DEF ChannelInv
  <2>7. \A i, j \in 1..Len(cmdQ') : cmdQ'[i].who = cmdQ'[j].who => i = j
    BY <2>2, <2>4, <2>5 DEF ChannelInv
  <2> QED BY <2>3, <2>6, <2>7 DEF ChannelInv, ListInv
<1>2. CASE HandleProvideFile \/ HandleStopProviding \/ HandleRemove
  BY <1>2, TakeEventSender DEF HandleProvideFile, HandleStopProviding, HandleRemove
<1>3. CASE HandlerConfirmed \/ HandlerReleased \/ HandlerForgotten
  BY <1>3 DEF HandlerConfirmed, HandlerReleased, HandlerForgotten, taskVars, ChannelInv, ListInv
<1>4. CASE HandlerPanics \/ HandlerDies
  <2>1. /\ UNCHANGED <<cmdQ, top, todo>> /\ evQ' = <<>>
        /\ \A u \in Tasks : tst'[u] = IF tst[u] = "event" THEN "done" ELSE tst[u]
    BY <1>4 DEF HandlerPanics, HandlerDies, HandlerGone
  <2>2. ListInv'
    BY <2>1 DEF ListInv
  <2>3. \A i \in 1..Len(cmdQ) : cmdQ[i].who \in Tasks => tst'[cmdQ[i].who] = "sending"
    BY <2>1 DEF ChannelInv
  <2> QED BY <2>1, <2>2, <2>3 DEF ChannelInv
<1> QED BY <1>1, <1>2, <1>3, <1>4 DEF HandlerStep

LEMMA NetSender ==
    ASSUME IInv, ListInv, ChannelInv, NetStep PROVE ListInv' /\ ChannelInv'
<1> DEFINE c == Head(cmdQ)
<1>1. cmdQ # <<>> /\ cmdQ' = Tail(cmdQ) /\ UNCHANGED <<top, todo, evQ>>
  BY DEF NetStep, NetStartProviding, NetStopProviding, taskVars
<1>2. /\ Len(cmdQ) \in Nat /\ Len(cmdQ') = Len(cmdQ) - 1
      /\ 1 \in 1..Len(cmdQ) /\ c = cmdQ[1] /\ c \in CommandSet
      /\ \A i \in 1..Len(cmdQ') : i + 1 \in 1..Len(cmdQ) /\ cmdQ'[i] = cmdQ[i + 1] /\ i + 1 # 1
  BY <1>1, TailCommand
<1>3. \A i \in 1..Len(cmdQ') : cmdQ'[i].who # c.who
  BY <1>2 DEF ChannelInv
<1>5. \A u \in Tasks : tst'[u] = tst[u] \/ (u = c.who /\ tst'[u] = "waiting")
  BY DEF NetStep, NetStartProviding, NetStopProviding, taskVars, IInv, TypeOK
<1>6. \A i \in 1..Len(cmdQ') : cmdQ'[i].who \in Tasks => tst'[cmdQ'[i].who] = "sending"
  BY <1>2, <1>3, <1>5 DEF ChannelInv
<1>7. \A i, j \in 1..Len(cmdQ') : cmdQ'[i].who = cmdQ'[j].who => i = j
  <2> TAKE i, j \in 1..Len(cmdQ')
  <2>1. i + 1 = j + 1 => i = j
    BY <1>2
  <2>2. cmdQ[i + 1].who = cmdQ[j + 1].who => i + 1 = j + 1
    BY <1>2 DEF ChannelInv
  <2> QED BY <1>2, <2>1, <2>2
<1>8. c.who \in Tasks => tst[c.who] = "sending"
  BY <1>2 DEF ChannelInv
<1>9. \A i \in 1..Len(evQ) : tst'[evQ[i].who] = "event"
  BY <1>5, <1>8, EventWho DEF ChannelInv
<1>10. ListInv'
  BY <1>1, <1>5, <1>8 DEF ListInv
<1> QED BY <1>1, <1>6, <1>7, <1>9, <1>10 DEF ChannelInv

LEMMA NextSender ==
    ASSUME IInv, ListInv, ChannelInv, [Next]_vars PROVE ListInv' /\ ChannelInv'
<1>1. CASE UNCHANGED vars
  BY <1>1 DEF vars, taskVars, ListInv, ChannelInv
<1>2. CASE Restart
  BY <1>2 DEF Restart, ListInv, ChannelInv
<1>3. CASE NetStops \/ NetDies
  BY <1>3 DEF NetStops, NetDies, taskVars, ListInv, ChannelInv
<1> QED BY <1>1, <1>2, <1>3, EndpointSender, TaskSender, HandlerSender, NetSender
        DEF Next, Fault

LEMMA InitRestore == ASSUME Init PROVE RestoreInv
BY DEF Init, RestoreInv, Withdrawing

\* A step after which no other task advertises: what is active was covered, or
\* on the list of the task, and stays so, or is covered anew.
LEMMA KeepsCover ==
    ASSUME RestoreInv, net' # "dead" => net # "dead",
           \A f \in active' : Withdrawing(f)' => f \in leftOut',
           net' # "dead" => \A f \in active' : f \in active \/ Covered(f)',
           net' # "dead" => \A f \in active' : Covered(f) => Covered(f)',
           \A u \in Tasks : top'[u] = "advertise" =>
              top[u] = "advertise" /\ \A f \in todo[u] : f \in todo'[u] \/ Covered(f)'
    PROVE  RestoreInv'
<1> SUFFICES ASSUME net' # "dead", NEW t \in Tasks, top'[t] = "advertise", NEW f \in active'
             PROVE  Covered(f)' \/ f \in todo'[t]
  BY DEF RestoreInv
<1>1. f \in active => Covered(f) \/ f \in todo[t]
  BY DEF RestoreInv
<1> QED BY <1>1

LEMMA EndpointRestore ==
    ASSUME IInv, ListInv, RestoreInv, NEW t \in Tasks, Endpoint(t) PROVE RestoreInv'
<1>0. tst[t] = "idle" => top[t] = "none" /\ todo[t] = {}
  BY DEF ListInv
<1>1. ASSUME UNCHANGED <<active, dht, cmdQ, top, todo, hpc, hfile, net, leftOut>> PROVE RestoreInv'
  BY <1>1 DEF RestoreInv, Covered, Starting, InQueue, Withdrawing
<1>2. CASE ProvideFile(t) \/ StopProviding(t) \/ TableUnread(t)
  BY <1>1, <1>2 DEF ProvideFile, StopProviding, SendEvent, TableUnread, table, history
<1>3. ASSUME NEW o \in Loops, NEW files \in SUBSET Files, StartLoop(t, o, files)
      PROVE  /\ tst[t] = "idle" /\ top[t] = "none" /\ todo[t] = {} /\ top'[t] = o /\ todo'[t] = files
             /\ \A u \in Tasks \ {t} : top'[u] = top[u] /\ todo'[u] = todo[u]
             /\ UNCHANGED <<dht, cmdQ, hpc, hfile, net>>
             /\ Starting \subseteq Starting'
  <2>1. /\ tst[t] = "idle" /\ top'[t] = o /\ todo'[t] = files
        /\ \A u \in Tasks \ {t} : top'[u] = top[u] /\ todo'[u] = todo[u]
        /\ UNCHANGED <<dht, cmdQ, hpc, hfile, net>>
    BY <1>3 DEF StartLoop, IInv, TypeOK
  <2>2. Starting \subseteq Starting'
    BY <1>0, <2>1 DEF Starting, InQueue
  <2> QED BY <1>0, <2>1, <2>2
<1>4. CASE ResumeProviding(t)
  <2>1. PICK f \in Rows :
          /\ StartLoop(t, "resume", {f}) /\ active' = active \cup {f}
          /\ leftOut' = IF Withdrawing(f) THEN leftOut \cup {f} ELSE leftOut
    BY <1>4 DEF ResumeProviding
  <2>2. f \in Files /\ {f} \in SUBSET Files /\ "resume" \in Loops
    BY DEF Rows, Loops
  <2>3. /\ top[t] = "none" /\ todo[t] = {} /\ top'[t] = "resume" /\ todo'[t] = {f}
        /\ \A u \in Tasks \ {t} : top'[u] = top[u] /\ todo'[u] = todo[u]
        /\ UNCHANGED <<dht, cmdQ, hpc, hfile, net>>
        /\ Starting \subseteq Starting'
    BY <1>3, <2>1, <2>2
  <2>4. f \in Starting'
    BY <2>2, <2>3 DEF Starting
  <2>5. \A g \in active' : (g \in active \/ Covered(g)') /\ (Covered(g) => Covered(g)')
    BY <2>1, <2>3, <2>4 DEF Covered
  <2>6. \A g \in active' : Withdrawing(g)' => g \in leftOut'
    BY <2>1, <2>3 DEF RestoreInv, Withdrawing
  <2> QED BY <2>3, <2>5, <2>6, KeepsCover
<1>5. CASE StartKey(t)
  <2>1. PICK f \in Files : StartLoop(t, "startKey", {f}) /\ UNCHANGED <<active, leftOut>>
    BY <1>5 DEF StartKey
  <2>2. {f} \in SUBSET Files /\ "startKey" \in Loops
    BY DEF Loops
  <2>3. /\ top[t] = "none" /\ todo[t] = {} /\ top'[t] = "startKey"
        /\ \A u \in Tasks \ {t} : top'[u] = top[u] /\ todo'[u] = todo[u]
        /\ UNCHANGED <<dht, cmdQ, hpc, hfile, net>>
        /\ Starting \subseteq Starting'
    BY <1>3, <2>1, <2>2
  <2>4. \A g \in active' : g \in active /\ (Covered(g) => Covered(g)')
    BY <2>1, <2>3 DEF Covered
  <2>5. \A g \in active' : Withdrawing(g)' => g \in leftOut'
    BY <2>1, <2>3 DEF RestoreInv, Withdrawing
  <2> QED BY <2>3, <2>4, <2>5, KeepsCover
<1>6. CASE StartLoop(t, "advertise", active) /\ UNCHANGED <<active, history>>
  <2>1. "advertise" \in Loops /\ active \in SUBSET Files /\ UNCHANGED <<active, leftOut>>
    BY <1>6 DEF Loops, IInv, TypeOK, Rows, history
  <2>2. /\ todo'[t] = active
        /\ \A u \in Tasks \ {t} : top'[u] = top[u] /\ todo'[u] = todo[u]
        /\ UNCHANGED <<dht, cmdQ, hpc, hfile, net>>
        /\ Starting \subseteq Starting'
    BY <1>3, <1>6, <2>1
  <2>3. \A g \in active' : Covered(g) => Covered(g)'
    BY <2>1, <2>2 DEF Covered
  <2>4. \A g \in active' : Withdrawing(g)' => g \in leftOut'
    BY <2>1, <2>2 DEF RestoreInv, Withdrawing
  <2>5. ASSUME net' # "dead", NEW u \in Tasks, top'[u] = "advertise", NEW g \in active'
        PROVE  Covered(g)' \/ g \in todo'[u]
    <3>1. CASE u = t
      BY <2>1, <2>2, <2>5, <3>1
    <3>2. CASE u # t
      BY <2>1, <2>2, <2>3, <2>5, <3>2 DEF RestoreInv
    <3> QED BY <3>1, <3>2
  <2> QED BY <2>4, <2>5 DEF RestoreInv
<1> QED BY <1>2, <1>4, <1>5, <1>6 DEF Endpoint, AdvertiseProvidedFiles

LEMMA TaskRestore ==
    ASSUME IInv, ListInv, RestoreInv, NEW t \in Tasks, TaskStep(t) \/ TaskForgotten(t)
    PROVE  RestoreInv'
<1>1. UNCHANGED <<active, dht, hpc, hfile, net, leftOut>>
  BY DEF TaskStep, TaskForgotten, StartNext, LoopDone, TaskConfirmed, TaskPanics, TaskGoes,
         table, history
<1>2. \A g \in active' : Withdrawing(g)' => g \in leftOut'
  BY <1>1 DEF RestoreInv, Withdrawing
<1>3. CASE StartNext(t)
  <2>1. PICK f \in todo[t] : /\ cmdQ' = Append(cmdQ, Command("StartProviding", f, t))
                             /\ todo' = [todo EXCEPT ![t] = @ \ {f}]
    BY <1>3 DEF StartNext
  <2> DEFINE c == Command("StartProviding", f, t)
  <2>2. /\ f \in Files /\ top' = top /\ todo'[t] = todo[t] \ {f}
        /\ \A u \in Tasks \ {t} : todo'[u] = todo[u]
    BY <1>3, <2>1 DEF IInv, TypeOK, StartNext
  <2>3. c \in CommandSet /\ c.kind = "StartProviding" /\ c.file = f
    BY <2>2 DEF Command, CommandSet, Callers
  <2> HIDE DEF c
  <2>4. /\ cmdQ'[Len(cmdQ) + 1] = c /\ Len(cmdQ) + 1 \in 1..Len(cmdQ')
        /\ \A i \in 1..Len(cmdQ) : i \in 1..Len(cmdQ') /\ cmdQ'[i] = cmdQ[i]
    BY <2>1, <2>3, AppendCommand DEF c
  <2>5. (\A g : InQueue(g) => InQueue(g)') /\ InQueue(f)'
    BY <2>3, <2>4 DEF InQueue
  <2>6. Starting \subseteq Starting' /\ f \in Starting'
    BY <1>1, <2>2, <2>5 DEF Starting
  <2>7. \A g \in active' : g \in active /\ (Covered(g) => Covered(g)')
    BY <1>1, <2>6 DEF Covered
  <2>8. \A u \in Tasks : \A g \in todo[u] : g \in todo'[u] \/ Covered(g)'
    BY <2>2, <2>6 DEF Covered
  <2> QED BY <1>1, <1>2, <2>2, <2>7, <2>8, KeepsCover
<1>4. CASE TaskPanics(t)
  BY <1>1, <1>2, <1>4 DEF TaskPanics, RestoreInv
<1>5. CASE LoopDone(t) \/ TaskConfirmed(t) \/ TaskForgotten(t)
  <2>1. /\ cmdQ' = cmdQ
        /\ \A u \in Tasks \ {t} : top'[u] = top[u] /\ todo'[u] = todo[u]
        /\ \/ top'[t] = top[t] /\ todo'[t] = todo[t]
           \/ /\ top'[t] = "none" /\ todo'[t] = {}
              /\ todo[t] = {} \/ tst[t] = "waiting"
    BY <1>5 DEF LoopDone, TaskConfirmed, TaskForgotten, TaskGoes, IInv, TypeOK
  <2>2. tst[t] = "waiting" /\ top[t] = "resume" => todo[t] = {}
    BY DEF ListInv
  <2>3. Starting \subseteq Starting'
    BY <1>1, <2>1, <2>2 DEF Starting, InQueue
  <2>4. \A g \in active' : g \in active /\ (Covered(g) => Covered(g)')
    BY <1>1, <2>3 DEF Covered
  <2>5. \A u \in Tasks : top'[u] = "advertise" =>
           top[u] = "advertise" /\ \A g \in todo[u] : g \in todo'[u]
    BY <2>1
  <2> QED BY <1>1, <1>2, <2>4, <2>5, KeepsCover
<1> QED BY <1>3, <1>4, <1>5 DEF TaskStep

LEMMA HandlerRestore ==
    ASSUME IInv, ListInv, ChannelInv, RestoreInv, HandlerStep \/ HandlerDies \/ HandlerForgotten
    PROVE  RestoreInv'
<1>1. CASE HandleProvideFile
  <2> DEFINE f == Head(evQ).file
  <2>1. /\ hpc = "recv" /\ f \in Files /\ UNCHANGED <<dht, cmdQ, top, todo, net>>
    BY <1>1, TakeEventKeeps DEF HandleProvideFile
  <2>2. /\ leftOut' = leftOut
        /\ \/ active' = active \cup {f} /\ hpc' = "start" /\ hfile' = f
           \/ UNCHANGED <<active, hpc, hfile>>
    BY <1>1 DEF HandleProvideFile, HandlerGoes, table, history
  <2> HIDE DEF f
  <2>3. Starting \subseteq Starting'
    BY <2>1 DEF Starting, InQueue
  <2>4. \A g \in active' : g \in active \/ g \in Starting'
    BY <2>1, <2>2 DEF Starting
  <2>5. \A g \in active' : (g \in active \/ Covered(g)') /\ (Covered(g) => Covered(g)')
    BY <2>1, <2>2, <2>3, <2>4 DEF Covered
  <2>6. \A g \in active' : Withdrawing(g)' => g \in leftOut'
    BY <2>1, <2>2 DEF Withdrawing
  <2> QED BY <2>1, <2>5, <2>6, KeepsCover
<1>2. CASE HandleStopProviding \/ HandleRemove
  <2> DEFINE f == Head(evQ).file
  <2>1. PICK o \in {"stop", "remove"} : TakeEvent(o)
    BY <1>2 DEF HandleStopProviding, HandleRemove
  <2>2. /\ hpc = "recv" /\ f \in Files /\ UNCHANGED <<dht, cmdQ, top, todo, net>>
    BY <2>1, TakeEventKeeps
  <2>3. /\ hfile' = f
        /\ \/ active' = active \ {f} /\ leftOut' = leftOut \ {f}
           \/ active' = active /\ leftOut' = leftOut \cup ({f} \cap active)
    BY <1>2 DEF HandleStopProviding, HandleRemove, Withdraw, HandlerGoes, StatementFails, table
  <2> HIDE DEF f
  <2>4. Starting \subseteq Starting'
    BY <2>2 DEF Starting, InQueue
  <2>5. \A g \in active' : g \in active /\ (Covered(g) => Covered(g)')
    BY <2>2, <2>3, <2>4 DEF Covered
  <2>6. \A g \in active' : Withdrawing(g)' => g \in leftOut'
    BY <2>3 DEF Withdrawing
  <2> QED BY <2>2, <2>5, <2>6, KeepsCover
<1>3. CASE HandlerSend
  <2>1. PICK k \in {"StartProviding", "StopProviding"} :
          /\ cmdQ' = Append(cmdQ, Command(k, hfile, Handler))
          /\ k = "StartProviding" => hpc = "start" /\ hpc' = "startSent"
          /\ k = "StopProviding" => hpc = "stop" /\ hpc' = "stopSent"
    BY <1>3 DEF HandlerSend
  <2>2. UNCHANGED <<active, dht, top, todo, hfile, net, leftOut>>
    BY <1>3 DEF HandlerSend, table, taskVars, history
  <2>3. Command(k, hfile, Handler) \in CommandSet
    BY <2>1 DEF IInv, TypeOK, Command, CommandSet, Callers
  <2>4. \A i \in 1..Len(cmdQ) : i \in 1..Len(cmdQ') /\ cmdQ'[i] = cmdQ[i]
    BY <2>1, <2>3, AppendCommand
  <2>5. \A g : InQueue(g) => InQueue(g)'
    BY <2>4 DEF InQueue
  <2>6. Starting \subseteq Starting'
    BY <2>1, <2>2, <2>5 DEF Starting
  <2>7. \A g \in active' : g \in active /\ (Covered(g) => Covered(g)')
    BY <2>2, <2>6 DEF Covered
  <2>8. \A g \in active' : Withdrawing(g)' => g \in leftOut'
    BY <2>1, <2>2 DEF RestoreInv, Withdrawing
  <2> QED BY <2>2, <2>7, <2>8, KeepsCover
<1>4. CASE \/ HandlerConfirmed \/ HandlerForgotten \/ HandlerReleased
           \/ HandlerPanics \/ HandlerDies
  <2>1. /\ UNCHANGED <<active, dht, cmdQ, top, todo, net, leftOut>>
        /\ hpc' \in {"recv", "forgotten", "dead"}
        /\ hpc \in {"confirm", "recv"} \/ net = "dead"
    BY <1>4 DEF HandlerConfirmed, HandlerForgotten, HandlerReleased, HandlerPanics, HandlerDies,
            HandlerGone, HandlerGoes, table, taskVars, history
  <2>2. net' # "dead" => Starting \subseteq Starting'
    BY <2>1 DEF Starting, InQueue
  <2>3. net' # "dead" => \A g \in active' : g \in active /\ (Covered(g) => Covered(g)')
    BY <2>1, <2>2 DEF Covered
  <2>4. \A g \in active' : Withdrawing(g)' => g \in leftOut'
    BY <2>1 DEF Withdrawing
  <2> QED BY <2>1, <2>3, <2>4, KeepsCover
<1> QED BY <1>1, <1>2, <1>3, <1>4 DEF HandlerStep

\* A command is performed: what start_providing was under way for is in the
\* store, and what is withdrawn is not active, or left out.
LEMMA NetRestore == ASSUME IInv, RestoreInv, NetStep PROVE RestoreInv'
<1> DEFINE c == Head(cmdQ)
<1>1. cmdQ # <<>> /\ cmdQ' = Tail(cmdQ) /\ UNCHANGED <<active, top, todo, net>>
  BY DEF NetStep, NetStartProviding, NetStopProviding, table, taskVars
<1>2. /\ Len(cmdQ) \in Nat /\ Len(cmdQ') = Len(cmdQ) - 1
      /\ 1 \in 1..Len(cmdQ) /\ c = cmdQ[1] /\ c \in CommandSet
      /\ \A i \in 1..Len(cmdQ') : cmdQ'[i] = cmdQ[i + 1]
  BY <1>1, TailCommand
<1>3. \A g : InQueue(g) => InQueue(g)' \/ (c.kind = "StartProviding" /\ c.file = g)
  <2> SUFFICES ASSUME NEW g, NEW i \in 1..Len(cmdQ),
                      cmdQ[i].kind = "StartProviding", cmdQ[i].file = g, i # 1
               PROVE  InQueue(g)'
    BY <1>2 DEF InQueue
  <2>1. i - 1 \in 1..Len(cmdQ') /\ (i - 1) + 1 = i
    BY <1>2
  <2>2. cmdQ'[i - 1] = cmdQ[i]
    BY <1>2, <2>1
  <2> QED BY <2>1, <2>2 DEF InQueue
<1>4. c.kind \in {"StartProviding", "StopProviding"} /\ c.who \in Callers /\ c.file \in Files
  BY <1>2 DEF CommandSet
<1>5. /\ c.who = Handler => /\ c.file = hfile
                            /\ c.kind = "StartProviding" => hpc = "startSent"
                            /\ c.kind = "StopProviding" => hpc = "stopSent"
      /\ c.who # Handler => c.kind = "StartProviding"
  BY <1>2 DEF IInv, HandlerInv, TaskInv
<1>6. CASE c.kind = "StartProviding"
  <2>1. NetStartProviding
    BY <1>6 DEF NetStep, NetStopProviding
  <2>2. /\ dht' = dht \cup {c.file} /\ hfile' = hfile
        /\ hpc' = hpc \/ (hfile = c.file /\ hpc = "startSent" /\ hpc' = "confirm")
        /\ leftOut' = IF Withdrawing(c.file) THEN leftOut ELSE leftOut \ {c.file}
    BY <1>5, <1>6, <2>1 DEF NetStartProviding
  <2>3. Starting \subseteq dht' \cup Starting'
    <3> SUFFICES ASSUME NEW g \in Starting PROVE g \in dht' \cup Starting'
      OBVIOUS
    <3>1. CASE hpc \in {"start", "startSent"} /\ hfile = g
      BY <2>2, <3>1 DEF Starting
    <3>2. CASE \E u \in Tasks : top[u] = "resume" /\ g \in todo[u]
      BY <1>1, <3>2 DEF Starting
    <3>3. CASE InQueue(g)
      BY <1>3, <2>2, <3>3 DEF Starting
    <3> QED BY <3>1, <3>2, <3>3 DEF Starting
  <2>4. \A g \in active' : g \in active /\ (Covered(g) => Covered(g)')
    BY <1>1, <2>2, <2>3 DEF Covered
  <2>5. \A g \in active' : Withdrawing(g)' => g \in leftOut'
    BY <1>1, <2>2 DEF RestoreInv, Withdrawing
  <2> QED BY <1>1, <2>4, <2>5, KeepsCover
<1>7. CASE c.kind = "StopProviding"
  <2>1. NetStopProviding
    BY <1>7 DEF NetStep, NetStartProviding
  <2>2. /\ c.file = hfile /\ hpc = "stopSent" /\ dht' = dht \ {hfile}
        /\ hpc' = "recv" /\ leftOut' = leftOut
    BY <1>5, <1>7, <2>1 DEF NetStopProviding, HandlerGoes, history
  <2>3. hfile \in active => hfile \in leftOut
    BY <2>2 DEF RestoreInv, Withdrawing
  <2>4. Starting \subseteq Starting'
    <3> SUFFICES ASSUME NEW g \in Starting PROVE g \in Starting'
      OBVIOUS
    <3>1. CASE \E u \in Tasks : top[u] = "resume" /\ g \in todo[u]
      BY <1>1, <3>1 DEF Starting
    <3>2. CASE InQueue(g)
      BY <1>3, <1>7, <3>2 DEF Starting
    <3> QED BY <2>2, <3>1, <3>2 DEF Starting
  <2>5. \A g \in active' : g \in active /\ (Covered(g) => Covered(g)')
    BY <1>1, <2>2, <2>3, <2>4 DEF Covered
  <2>6. \A g \in active' : Withdrawing(g)' => g \in leftOut'
    BY <2>2 DEF Withdrawing
  <2> QED BY <1>1, <2>5, <2>6, KeepsCover
<1> QED BY <1>4, <1>6, <1>7

LEMMA NextRestore ==
    ASSUME IInv, ListInv, ChannelInv, RestoreInv, [Next]_vars PROVE RestoreInv'
<1>1. CASE UNCHANGED vars
  BY <1>1 DEF vars, table, taskVars, history, RestoreInv, Covered, Starting, InQueue, Withdrawing
<1>2. CASE Restart
  BY <1>2 DEF Restart, RestoreInv, Withdrawing
<1>3. CASE NetStops
  BY <1>3 DEF NetStops, table, taskVars, history, RestoreInv, Covered, Starting, InQueue, Withdrawing
<1>4. CASE NetDies
  BY <1>4 DEF NetDies, table, taskVars, history, RestoreInv, Withdrawing
<1> QED BY <1>1, <1>2, <1>3, <1>4, EndpointRestore, TaskRestore, HandlerRestore, NetRestore
        DEF Next, Fault

\* AdvertiseRestores: when advertise_provided_files has started the files it read
\* from the table, and the network loop is alive, every file that is active by
\* then is advertised, has its own start_providing under way, or is
\* left out: whatever was stopped, provided or resumed meanwhile, and whichever
\* query, statement or loop has failed.
THEOREM AdvertisingRestores == Spec => AdvertiseRestores
<1> DEFINE Inv == IInv /\ ListInv /\ ChannelInv /\ RestoreInv
<1>1. Init => Inv
  BY InitIInv, InitSender, InitRestore
<1>2. Inv /\ [Next]_vars => Inv'
  BY NextIInv, NextSender, NextRestore
<1>3. Inv => [\A t \in Tasks :
                LoopDone(t) /\ top[t] = "advertise" /\ net # "dead" =>
                  \A f \in active : Covered(f)]_vars
  BY DEF RestoreInv, LoopDone
<1> QED BY <1>1, <1>2, <1>3, PTL DEF Spec, AdvertiseRestores
=============================================================================
