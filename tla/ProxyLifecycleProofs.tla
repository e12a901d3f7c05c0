------------------------- MODULE ProxyLifecycleProofs -------------------------
(***************************************************************************)
(* Proofs that the configuration file, the handler's sender, the provider  *)
(* record and the proxy tasks agree between two events, for any number of  *)
(* requests, sessions and restarts.                                        *)
(***************************************************************************)
EXTENDS ProxyLifecycle, TLAPS

LEMMA ConstantFacts ==
    /\ Boot \in Callers /\ None \notin Callers /\ None \notin Modes
    /\ Provider \in Modes /\ Sessions \subseteq Modes /\ CliSession \in Modes
    /\ Torn \notin Modes /\ Torn # None
BY ProxyAssumption DEF Callers, Modes

LEMMA InitIInv == ASSUME Init PROVE IInv
<1>1. TypeOK
  <2>1. top \in [Callers -> Ops \cup {"boot", "none"}] /\ restarts \in 0..Restarts
    BY ProxyAssumption DEF Init
  <2>2. evQ \in Seq(Callers) /\ record \in BOOLEAN
    <3>1. evQ = <<>> /\ record = FALSE
      BY DEF Init
    <3>2. <<>> \in Seq(Callers)
      OBVIOUS
    <3> QED BY <3>1, <3>2, Zenon
  <2>3. /\ tst \in [Callers -> {"idle", "request", "checked", "event", "done"}]
        /\ tmode \in [Callers -> Modes \cup {None}]
        /\ pst \in [Callers -> {"none", "starting", "listening", "stopping",
                                "ended", "panicked"}]
    BY DEF Init
  <2>4. /\ hpc = "recv" /\ hmode = None /\ hstop = None /\ sender = None
        /\ config \in Modes \cup {None} /\ known \subseteq Sessions /\ net = "up"
    BY DEF Init
  <2> QED BY <2>1, <2>2, <2>3, <2>4 DEF TypeOK, HandlerPCs
<1>2. ConfigTracksSender /\ RecordTracksConfig
  BY ConstantFacts DEF Init, ConfigTracksSender, RecordTracksConfig, Booting
<1>3. ProxyReachable /\ HandlerInv /\ QueueInv /\ ModeInv
  BY ConstantFacts DEF Init, ProxyReachable, HandlerInv, QueueInv, ModeInv
<1> QED BY <1>1, <1>2, <1>3 DEF IInv

\* A task that has sent no event yet moves on.
LEMMA TaskGoesStep ==
    ASSUME IInv, NEW t \in Callers, NEW o \in Ops \cup {"boot"},
           NEW m \in Modes \cup {None}, NEW st \in {"request", "checked", "done"},
           tst[t] = "idle", TaskGoes(t, o, m, st),
           st = "checked" /\ o \in Starts => m # None,
           t = Boot => st # "request" /\ (st = "done" => config = None)
    PROVE  IInv'
<1>1. TypeOK'
  BY DEF IInv, TypeOK, TaskGoes, handlerVars
<1>2. ConfigTracksSender' /\ RecordTracksConfig'
  BY ConstantFacts DEF IInv, TypeOK, ModeInv, ConfigTracksSender, RecordTracksConfig,
     Booting, TaskGoes, handlerVars
<1>3. ProxyReachable' /\ HandlerInv'
  BY DEF IInv, TypeOK, ModeInv, ProxyReachable, HandlerInv, TaskGoes, handlerVars
<1>4. QueueInv'
  BY DEF IInv, TypeOK, QueueInv, TaskGoes
<1>5. ModeInv'
  BY ConstantFacts DEF IInv, TypeOK, ModeInv, TaskGoes, handlerVars
<1> QED BY <1>1, <1>2, <1>3, <1>4, <1>5 DEF IInv

LEMMA EndpointStep == ASSUME IInv, NEW t \in Tasks, Endpoint(t) PROVE IInv'
<1>0. t \in Callers /\ t # Boot
  BY ProxyAssumption DEF Callers
<1>1. CASE HttpStop(t)
  <2>1. PICK st \in {"checked", "done"} : TaskGoes(t, "httpStop", None, st)
    BY <1>1 DEF HttpStop
  <2>2. tst[t] = "idle" /\ "httpStop" \in Ops
    BY <1>1 DEF HttpStop, Begins
  <2> QED BY <1>0, <2>1, <2>2, TaskGoesStep DEF Starts, HttpStarts, CliStarts
<1>2. CASE HttpStart(t)
  <2>1. PICK o \in HttpStarts, m \in Modes \cup {None}, st \in {"request", "checked", "done"} :
          Begins(t, o) /\ TaskGoes(t, o, m, st) /\ (st = "checked" => m # None)
    BY <1>2, ConstantFacts DEF HttpStart
  <2>2. tst[t] = "idle" /\ o \in Ops
    BY <2>1 DEF Begins
  <2> QED BY <1>0, <2>1, <2>2, TaskGoesStep
<1>3. CASE CliCommand(t)
  <2>1. PICK o \in CliOps :
          /\ Begins(t, o)
          /\ TaskGoes(t, o, CASE o = "cliProvide" -> Provider
                              [] o = "cliClient" -> CliSession
                              [] OTHER -> None, "checked")
    BY <1>3 DEF CliCommand
  <2> DEFINE m == CASE o = "cliProvide" -> Provider
                    [] o = "cliClient" -> CliSession
                    [] OTHER -> None
  <2>2. tst[t] = "idle" /\ o \in Ops
    BY <2>1 DEF Begins
  <2>3. m \in Modes \cup {None} /\ (o \in Starts => m # None)
    BY ConstantFacts DEF CliOps, Starts, HttpStarts, CliStarts
  <2>4. TaskGoes(t, o, m, "checked")
    BY <2>1
  <2> HIDE DEF m
  <2> QED BY <1>0, <2>2, <2>3, <2>4, TaskGoesStep
<1> QED BY <1>1, <1>2, <1>3 DEF Endpoint

LEMMA BootProxyStep == ASSUME IInv, BootProxy PROVE IInv'
<1>1. PICK st \in {"checked", "done"} :
        TaskGoes(Boot, "boot", config, st) /\ (st = "done" <=> config = None)
  BY DEF BootProxy
<1>2. tst[Boot] = "idle" /\ config \in Modes \cup {None}
  BY DEF BootProxy, IInv, TypeOK
<1> QED BY <1>1, <1>2, ConstantFacts, TaskGoesStep

LEMMA ConnectAnsweredStep ==
    ASSUME IInv, NEW t \in Callers, ConnectAnswered(t) PROVE IInv'
<1>1. TypeOK'
  BY ConstantFacts DEF IInv, TypeOK, ConnectAnswered, handlerVars
<1>2. ConfigTracksSender' /\ RecordTracksConfig'
  BY ConstantFacts DEF IInv, TypeOK, ModeInv, ConfigTracksSender, RecordTracksConfig,
     Booting, ConnectAnswered, handlerVars
<1>3. ProxyReachable' /\ HandlerInv'
  BY DEF IInv, TypeOK, ModeInv, ProxyReachable, HandlerInv, ConnectAnswered, handlerVars
<1>4. QueueInv'
  BY DEF IInv, TypeOK, QueueInv, ConnectAnswered
<1>5. ModeInv'
  BY ConstantFacts DEF IInv, TypeOK, ModeInv, ConnectAnswered, handlerVars
<1> QED BY <1>1, <1>2, <1>3, <1>4, <1>5 DEF IInv

LEMMA ConnectPanicsStep ==
    ASSUME IInv, NEW t \in Callers, ConnectPanics(t) PROVE IInv'
<1>1. TypeOK'
  BY DEF IInv, TypeOK, ConnectPanics, handlerVars
<1>2. ConfigTracksSender' /\ RecordTracksConfig'
  BY ConstantFacts DEF IInv, TypeOK, ModeInv, ConfigTracksSender, RecordTracksConfig,
     Booting, ConnectPanics, handlerVars
<1>3. ProxyReachable' /\ HandlerInv'
  BY DEF IInv, ProxyReachable, HandlerInv, ConnectPanics, handlerVars
<1>4. QueueInv' /\ ModeInv'
  BY ConstantFacts DEF IInv, TypeOK, QueueInv, ModeInv, ConnectPanics, handlerVars
<1> QED BY <1>1, <1>2, <1>3, <1>4 DEF IInv

LEMMA SendEventStep ==
    ASSUME IInv, NEW t \in Callers, SendEvent(t) PROVE IInv'
<1> DEFINE Deaf == hpc \in {"dead", "killed"}
<1>0. /\ tst[t] = "checked" /\ tst \in [Callers -> {"idle", "request", "checked", "event", "done"}]
      /\ tst' = [tst EXCEPT ![t] = IF Deaf THEN "done" ELSE "event"]
      /\ evQ' = IF Deaf THEN evQ ELSE Append(evQ, t)
      /\ evQ \in Seq(Callers)
      /\ UNCHANGED <<config, known, top, tmode, handlerVars, pst, record, net, restarts>>
  BY DEF SendEvent, IInv, TypeOK
<1>1. TypeOK'
  BY <1>0 DEF IInv, TypeOK, handlerVars
<1>2. hpc = "recv" /\ Booting => Booting'
  BY <1>0, ConstantFacts DEF Booting
<1>3. ConfigTracksSender' /\ RecordTracksConfig'
  BY <1>0, <1>2 DEF IInv, ConfigTracksSender, RecordTracksConfig, handlerVars
<1>4. ProxyReachable' /\ HandlerInv'
  BY <1>0 DEF IInv, ProxyReachable, HandlerInv, handlerVars
<1>5. QueueInv'
  <2>1. CASE Deaf
    BY <1>0, <2>1 DEF IInv, QueueInv
  <2>2. CASE ~Deaf
    <3> DEFINE q == Append(evQ, t)
    <3>1. /\ evQ' = q /\ Len(evQ) \in Nat /\ Len(q) = Len(evQ) + 1
          /\ q[Len(evQ) + 1] = t
          /\ \A i \in 1..Len(evQ) : q[i] = evQ[i] /\ evQ[i] \in Callers
      BY <1>0, <2>2
    <3>2. \A i \in 1..Len(evQ) : evQ[i] # t
      BY <1>0 DEF IInv, QueueInv
    <3> HIDE DEF q
    <3>3. \A i \in 1..Len(q) : tst'[q[i]] = "event"
      BY <1>0, <2>2, <3>1, <3>2 DEF IInv, QueueInv
    <3>4. \A i, j \in 1..Len(q) : q[i] = q[j] => i = j
      BY <3>1, <3>2 DEF IInv, QueueInv
    <3> QED BY <3>1, <3>3, <3>4 DEF QueueInv
  <2> QED BY <2>1, <2>2
<1>6. ModeInv'
  BY <1>0 DEF IInv, ModeInv, handlerVars
<1> QED BY <1>1, <1>3, <1>4, <1>5, <1>6 DEF IInv

-----------------------------------------------------------------------------
\* The event at the head of the queue is that of a parked task, and the queue
\* stays well formed without it.
LEMMA TakeEventFacts ==
    ASSUME IInv, NEW t \in Callers, NEW ops, TakeEvent(t, ops)
    PROVE  /\ hpc = "recv" /\ hstop = None /\ tst[t] = "event" /\ top[t] \in ops
           /\ tst' = [tst EXCEPT ![t] = "done"]
           /\ top' = [top EXCEPT ![t] = "none"]
           /\ UNCHANGED <<config, known, tmode, record, net, restarts>>
           /\ evQ' \in Seq(Callers) /\ QueueInv'
<1>1. /\ hpc = "recv" /\ hstop = None /\ evQ # <<>> /\ Head(evQ) = t
      /\ top[t] \in ops /\ evQ' = Tail(evQ)
      /\ tst' = [tst EXCEPT ![t] = "done"]
      /\ top' = [top EXCEPT ![t] = "none"]
      /\ UNCHANGED <<config, known, tmode, record, net, restarts>>
  BY DEF TakeEvent, IInv, TypeOK
<1>2. evQ \in Seq(Callers) /\ tst \in [Callers -> {"idle", "request", "checked", "event", "done"}]
  BY DEF IInv, TypeOK
<1> DEFINE q == Tail(evQ)
<1>3. /\ Len(evQ) \in Nat /\ Len(evQ) > 0 /\ q \in Seq(Callers)
      /\ Len(q) = Len(evQ) - 1 /\ evQ[1] = t
      /\ \A i \in 1..Len(q) : q[i] = evQ[i + 1] /\ i + 1 \in 1..Len(evQ)
                                /\ q[i] \in Callers
  BY <1>1, <1>2
<1>4. tst[t] = "event"
  BY <1>3 DEF IInv, QueueInv
<1> HIDE DEF q
<1>5. \A i \in 1..Len(q) : q[i] # t
  BY <1>3 DEF IInv, QueueInv
<1>6. QueueInv'
  <2>1. \A i \in 1..Len(q) : tst'[q[i]] = "event"
    <3> SUFFICES ASSUME NEW i \in 1..Len(q) PROVE tst'[q[i]] = "event"
      OBVIOUS
    <3>1. q[i] \in Callers /\ q[i] # t /\ q[i] = evQ[i + 1] /\ i + 1 \in 1..Len(evQ)
      BY <1>3, <1>5
    <3>2. tst[q[i]] = "event"
      BY <3>1 DEF IInv, QueueInv
    <3> QED BY <1>1, <1>2, <3>1, <3>2
  <2>2. \A i, j \in 1..Len(q) : q[i] = q[j] => i = j
    BY <1>3 DEF IInv, QueueInv
  <2> QED BY <1>1, <2>1, <2>2 DEF QueueInv, q
<1> QED BY <1>1, <1>3, <1>4, <1>6 DEF q

LEMMA HandleStartProxyStep ==
    ASSUME IInv, NEW t \in Callers, HandleStartProxy(t) PROVE IInv'
<1>0. TakeEvent(t, Starts)
  BY DEF HandleStartProxy
<1>1. /\ hpc = "recv" /\ hstop = None /\ tst[t] = "event" /\ top[t] \in Starts
      /\ tst' = [tst EXCEPT ![t] = "done"]
      /\ top' = [top EXCEPT ![t] = "none"]
      /\ UNCHANGED <<config, known, tmode, record, net, restarts>>
      /\ evQ' \in Seq(Callers) /\ QueueInv'
  BY <1>0, TakeEventFacts
<1>2. tmode[t] # None /\ tmode[t] \in Modes
  BY <1>1 DEF IInv, ModeInv, TypeOK
<1>3. CASE sender = None /\ Spawn(t)
  <2>1. /\ pst' = [pst EXCEPT ![t] = "starting"] /\ sender' = t /\ hmode' = tmode[t]
        /\ hpc' = IF tmode[t] = Provider THEN "provide" ELSE "write"
        /\ hstop' = hstop
    BY <1>3 DEF Spawn
  <2>2. TypeOK'
    BY <1>1, <1>2, <2>1, ConstantFacts DEF IInv, TypeOK, HandlerPCs
  <2>3. ConfigTracksSender' /\ RecordTracksConfig'
    BY <2>1 DEF ConfigTracksSender, RecordTracksConfig
  <2>4. ProxyReachable'
    BY <1>1, <1>3, <2>1, ConstantFacts DEF IInv, TypeOK, ProxyReachable
  <2>5. HandlerInv'
    BY <1>1, <1>2, <1>3, <2>1, ConstantFacts DEF IInv, HandlerInv
  <2>6. ModeInv'
    BY <1>1, <1>2, <2>1 DEF IInv, TypeOK, ModeInv
  <2> QED BY <1>1, <2>2, <2>3, <2>4, <2>5, <2>6 DEF IInv
<1>4. CASE sender # None /\ UNCHANGED <<handlerVars, pst>>
  <2>1. UNCHANGED <<hpc, hmode, hstop, sender, pst>>
    BY <1>4 DEF handlerVars
  <2>2. TypeOK'
    BY <1>1, <2>1 DEF IInv, TypeOK
  <2>3. ConfigTracksSender'
    BY <1>1, <1>4, <2>1 DEF IInv, ConfigTracksSender
  <2>4. RecordTracksConfig'
    BY <1>1, <1>4, <2>1 DEF IInv, HandlerInv, RecordTracksConfig
  <2>5. ProxyReachable' /\ HandlerInv'
    BY <1>1, <2>1 DEF IInv, ProxyReachable, HandlerInv
  <2>6. ModeInv'
    BY <1>1, <2>1 DEF IInv, TypeOK, ModeInv
  <2> QED BY <1>1, <2>2, <2>3, <2>4, <2>5, <2>6 DEF IInv
<1> QED BY <1>3, <1>4 DEF HandleStartProxy

LEMMA HandleStopProxyStep ==
    ASSUME IInv, NEW t \in Callers, HandleStopProxy(t) PROVE IInv'
<1>0. TakeEvent(t, Stops)
  BY DEF HandleStopProxy
<1>1. /\ hpc = "recv" /\ hstop = None /\ tst[t] = "event"
      /\ tst' = [tst EXCEPT ![t] = "done"]
      /\ top' = [top EXCEPT ![t] = "none"]
      /\ UNCHANGED <<config, known, tmode, record, net, restarts>>
      /\ evQ' \in Seq(Callers) /\ QueueInv'
  BY <1>0, TakeEventFacts
<1>2. /\ config \in Modes /\ hmode' = config /\ sender' = None /\ hstop' = sender
      /\ hpc' = IF sender = None THEN AfterStop(config) ELSE "stopSend"
      /\ pst' = pst
  BY DEF HandleStopProxy
<1>3. TypeOK'
  BY <1>1, <1>2, ConstantFacts DEF IInv, TypeOK, HandlerPCs, AfterStop
<1>4. ConfigTracksSender' /\ RecordTracksConfig'
  BY <1>2 DEF ConfigTracksSender, RecordTracksConfig, AfterStop
<1>5. ProxyReachable'
  BY <1>1, <1>2, ConstantFacts DEF IInv, ProxyReachable
<1>6. HandlerInv'
  BY <1>1, <1>2 DEF IInv, HandlerInv, AfterStop
<1>7. ModeInv'
  BY <1>1, <1>2 DEF IInv, TypeOK, ModeInv
<1> QED BY <1>1, <1>3, <1>4, <1>5, <1>6, <1>7 DEF IInv

\* The handler is gone: whatever it was doing, its proxy is left behind, unless
\* it had none.
LEMMA HandlerGoneStep ==
    ASSUME IInv, NEW pc \in {"dead", "killed"}, HandlerGone(pc),
           hstop = None, pc = "dead" => hpc = "recv" /\ sender = None
    PROVE  IInv'
<1>1. /\ hpc' = pc /\ hmode' = None /\ sender' = None /\ evQ' = <<>>
      /\ tst' = [u \in Callers |-> IF tst[u] = "event" THEN "done" ELSE tst[u]]
      /\ UNCHANGED <<config, known, top, tmode, hstop, pst, record, net, restarts>>
  BY DEF HandlerGone
<1>2. TypeOK'
  BY <1>1 DEF IInv, TypeOK, HandlerPCs
<1>3. ConfigTracksSender' /\ RecordTracksConfig' /\ HandlerInv' /\ QueueInv'
  BY <1>1 DEF IInv, ConfigTracksSender, RecordTracksConfig, HandlerInv, QueueInv
<1>4. ProxyReachable'
  BY <1>1, ConstantFacts DEF IInv, ProxyReachable
<1>5. ModeInv'
  BY <1>1, ConstantFacts DEF IInv, TypeOK, ModeInv
<1> QED BY <1>2, <1>3, <1>4, <1>5 DEF IInv

\* The handler that finds no mode in the file has no proxy either.
LEMMA HandlerPanicsStep ==
    ASSUME IInv, NEW t \in Callers, HandlerPanics(t) PROVE IInv'
<1>1. hpc = "recv" /\ config \notin Modes /\ HandlerGone("dead")
  BY DEF HandlerPanics
<1>2. hstop = None /\ sender = None
  BY <1>1 DEF IInv, TypeOK, ConfigTracksSender, ModeInv
<1> QED BY <1>1, <1>2, HandlerGoneStep

\* Elsewhere it panics only while no proxy task has its StopProxy.
LEMMA HandlerKilledStep ==
    ASSUME IInv, HandlerLosesNet \/ WriteFails \/ HandlerDies PROVE IInv'
<1>1. HandlerGone("killed") /\ hpc # "stopSend"
  BY DEF HandlerLosesNet, WriteFails, HandlerDies
<1>2. hstop = None
  BY <1>1 DEF IInv, TypeOK
<1> QED BY <1>1, <1>2, HandlerGoneStep

-----------------------------------------------------------------------------
\* The rest of StartProxy and StopProxy, and the network loop's part in them.
LEMMA FinishStep ==
    ASSUME IInv, \/ NetProvide \/ ProvideConfirmed \/ ProvideForgotten
                 \/ TruncateConfig \/ WriteConfig
                 \/ StopReleased \/ SendWithdraw \/ NetWithdraw \/ ClearConfig
    PROVE  IInv'
<1> USE DEF ProvideConfirmed, ProvideForgotten, Awaited
<1>0. UNCHANGED <<known, evQ, tst, top, tmode, sender, pst, net, restarts>>
  BY DEF NetProvide, TruncateConfig, WriteConfig, StopReleased, SendWithdraw,
     NetWithdraw, ClearConfig, taskVars
<1>1. TypeOK'
  BY <1>0, ConstantFacts DEF IInv, TypeOK, HandlerPCs, NetProvide, TruncateConfig,
     WriteConfig, StopReleased, SendWithdraw, NetWithdraw, ClearConfig, AfterStop
<1>2. ConfigTracksSender' /\ RecordTracksConfig' /\ HandlerInv'
  <2>1. CASE NetProvide
    BY <1>0, <2>1 DEF IInv, NetProvide, ConfigTracksSender, RecordTracksConfig, HandlerInv
  <2>2. CASE WriteConfig
    BY <1>0, <2>2, ConstantFacts DEF IInv, TypeOK, WriteConfig, ConfigTracksSender,
       RecordTracksConfig, HandlerInv
  <2>3. CASE StopReleased
    BY <1>0, <2>3 DEF IInv, StopReleased, AfterStop, ConfigTracksSender,
       RecordTracksConfig, HandlerInv
  <2>4. CASE NetWithdraw \/ SendWithdraw
    BY <1>0, <2>4 DEF IInv, NetWithdraw, SendWithdraw, ConfigTracksSender,
       RecordTracksConfig, HandlerInv
  <2>5. CASE ClearConfig
    BY <1>0, <2>5, ConstantFacts DEF IInv, ClearConfig, ConfigTracksSender,
       RecordTracksConfig, HandlerInv
  <2>6. CASE TruncateConfig
    BY <1>0, <2>6 DEF IInv, TruncateConfig, ConfigTracksSender, RecordTracksConfig,
       HandlerInv
  <2>7. CASE ProvideConfirmed \/ ProvideForgotten
    BY <1>0, <2>7 DEF IInv, ConfigTracksSender, RecordTracksConfig, HandlerInv
  <2> QED BY <2>1, <2>2, <2>3, <2>4, <2>5, <2>6, <2>7
<1>3. ProxyReachable'
  BY <1>0, ConstantFacts DEF IInv, TypeOK, ProxyReachable, NetProvide, TruncateConfig,
     WriteConfig, StopReleased, SendWithdraw, NetWithdraw, ClearConfig
<1>4. QueueInv' /\ ModeInv'
  BY <1>0 DEF IInv, QueueInv, ModeInv
<1> QED BY <1>1, <1>2, <1>3, <1>4 DEF IInv

\* The network loop stops or dies, and the store with it.
LEMMA NetFaultStep == ASSUME IInv, NetStops \/ NetDies PROVE IInv'
<1>0. UNCHANGED <<config, known, evQ, tst, top, tmode, hpc, hmode, hstop, sender,
                  pst, restarts>>
  BY DEF NetStops, NetDies, taskVars, handlerVars
<1>1. \/ net' = "stopped" /\ net = "up" /\ record' = record
      \/ net' = "dead" /\ record' = FALSE
  BY DEF NetStops, NetDies
<1>2. TypeOK'
  <2>1. net' \in {"up", "stopped", "dead"}
    BY <1>1
  <2>2. record' \in BOOLEAN
    BY <1>1, Zenon DEF IInv, TypeOK
  <2> QED BY <1>0, <2>1, <2>2 DEF IInv, TypeOK
<1>3. ConfigTracksSender' /\ ProxyReachable' /\ QueueInv' /\ ModeInv'
  BY <1>0 DEF IInv, ConfigTracksSender, Booting, ProxyReachable, QueueInv, ModeInv
<1>4. RecordTracksConfig'
  BY <1>0, <1>1 DEF IInv, RecordTracksConfig, Booting
<1>5. HandlerInv'
  BY <1>0, <1>1 DEF IInv, HandlerInv
<1> QED BY <1>2, <1>3, <1>4, <1>5 DEF IInv

\* A proxy task starts to serve only from "starting".
LEMMA ProxyTaskStep ==
    ASSUME IInv, NEW t \in Callers, ProxyStep(t) PROVE IInv'
<1>1. PICK from \in {"starting", "listening", "stopping"},
           to \in {"listening", "stopping", "ended", "panicked"} :
        ProxyGoes(t, from, to) /\ (to = "listening" => from = "starting")
  BY DEF ProxyStep, ProxyRefused, ProxyBinds, ProxyTakesStop, ProxyEnds
<1>2. /\ pst[t] = from /\ pst' = [pst EXCEPT ![t] = to]
      /\ UNCHANGED <<config, known, evQ, tst, top, tmode, hpc, hmode, hstop, sender,
                     record, net, restarts>>
  BY <1>1 DEF ProxyGoes, taskVars, handlerVars
<1>3. TypeOK'
  BY <1>2 DEF IInv, TypeOK
<1>4. ConfigTracksSender' /\ RecordTracksConfig' /\ HandlerInv' /\ QueueInv' /\ ModeInv'
  BY <1>2 DEF IInv, ConfigTracksSender, RecordTracksConfig, Booting, HandlerInv,
     QueueInv, ModeInv
<1>5. ProxyReachable'
  BY <1>1, <1>2 DEF IInv, TypeOK, ProxyReachable
<1> QED BY <1>3, <1>4, <1>5 DEF IInv

\* The end of the process leaves nothing but the file and the sessions.
LEMMA ProcessEndsStep ==
    ASSUME IInv, NEW hp \in {"recv", "down"}, ProcessEnds(hp),
           config' \in Modes \cup {None, Torn}, restarts' \in 0..Restarts,
           config' = Torn => hp = "down"
    PROVE  IInv'
<1>1. TypeOK'
  <2>1. evQ' \in Seq(Callers) /\ record' \in BOOLEAN
    <3>1. evQ' = <<>> /\ record' = FALSE
      BY DEF ProcessEnds
    <3>2. <<>> \in Seq(Callers)
      OBVIOUS
    <3> QED BY <3>1, <3>2, Zenon
  <2>2. /\ tst' \in [Callers -> {"idle", "request", "checked", "event", "done"}]
        /\ pst' \in [Callers -> {"none", "starting", "listening", "stopping",
                                 "ended", "panicked"}]
    BY DEF ProcessEnds, IInv, TypeOK
  <2>3. /\ hpc' = hp /\ hmode' = None /\ hstop' = None /\ sender' = None
        /\ net' = "up" /\ known' = known
    BY DEF ProcessEnds
  <2>4. /\ top' \in [Callers -> Ops \cup {"boot", "none"}]
        /\ tmode' \in [Callers -> Modes \cup {None}]
    BY DEF ProcessEnds
  <2> QED BY <2>1, <2>2, <2>3, <2>4 DEF IInv, TypeOK, HandlerPCs
<1>2. Booting'
  BY ConstantFacts DEF ProcessEnds, Booting
<1>3. ConfigTracksSender' /\ RecordTracksConfig'
  BY <1>2 DEF ProcessEnds, ConfigTracksSender, RecordTracksConfig
<1>4. ProxyReachable' /\ HandlerInv' /\ QueueInv'
  BY DEF ProcessEnds, ProxyReachable, HandlerInv, QueueInv
<1>5. ModeInv'
  BY ConstantFacts DEF ProcessEnds, ModeInv
<1> QED BY <1>1, <1>3, <1>4, <1>5 DEF IInv

LEMMA BootPanicsStep == ASSUME IInv, BootPanics PROVE IInv'
<1>1. ProcessEnds("down") /\ restarts' = restarts
  BY DEF BootPanics
<1>2. config' \in Modes \cup {None, Torn}
  BY ConstantFacts DEF BootPanics, IInv, TypeOK
<1>3. restarts \in 0..Restarts
  BY DEF IInv, TypeOK
<1> QED BY <1>1, <1>2, <1>3, ProcessEndsStep

LEMMA RestartStep == ASSUME IInv, Restart PROVE IInv'
<1>1. restarts' \in 0..Restarts
  BY ProxyAssumption DEF Restart, IInv, TypeOK
<1>2. /\ config' = config /\ config \in Modes \cup {None, Torn}
      /\ ProcessEnds(IF config = Torn THEN "down" ELSE "recv")
  BY DEF Restart, IInv, TypeOK
<1> QED BY <1>1, <1>2, ProcessEndsStep

LEMMA NextIInv == ASSUME IInv, [Next]_vars PROVE IInv'
<1>1. CASE UNCHANGED vars
  BY <1>1 DEF vars, taskVars, handlerVars, IInv, TypeOK, ConfigTracksSender,
     RecordTracksConfig, Booting, ProxyReachable, HandlerInv, QueueInv, ModeInv
<1>2. CASE Next
  BY <1>2, EndpointStep, BootProxyStep, ConnectAnsweredStep, ConnectPanicsStep,
     SendEventStep, HandleStartProxyStep, HandleStopProxyStep, HandlerPanicsStep,
     HandlerKilledStep, FinishStep, NetFaultStep, ProxyTaskStep, BootPanicsStep,
     RestartStep
     DEF Next, TaskStep, HandlerStep, NetStep, Fault
<1> QED BY <1>1, <1>2

\* The invariant is inductive.
THEOREM ProxyInvariant == Spec => []IInv
<1>1. Init => IInv
  BY InitIInv
<1>2. IInv /\ [Next]_vars => IInv'
  BY NextIInv
<1> QED BY <1>1, <1>2, PTL DEF Spec

\* The request handler is with at most one proxy and one mode, and knows them
\* exactly while it starts or stops a proxy, in whatever state the tasks are.
THEOREM ProxyTypeCorrect == Spec => []TypeOK
<1>1. IInv => TypeOK
  BY DEF IInv
<1> QED BY <1>1, ProxyInvariant, PTL

\* Between two events the configuration file is whole and names the proxy the request handler
\* has, whatever the interleaving of the endpoints, and over restarts.
THEOREM ConfigTracks == Spec => []ConfigTracksSender
<1>1. IInv => ConfigTracksSender
  BY DEF IInv
<1> QED BY <1>1, ProxyInvariant, PTL

\* The node is advertised as a proxy provider when the file says so, and only then,
\* while its network loop lives.
THEOREM RecordTracks == Spec => []RecordTracksConfig
<1>1. IInv => RecordTracksConfig
  BY DEF IInv
<1> QED BY <1>1, ProxyInvariant, PTL

\* A handler that has not panicked never loses a proxy that serves: it holds the
\* sender of its StopProxy, or has used it, through the waits for the network loop
\* and the writes of the file.
THEOREM ProxiesReachable == Spec => []ProxyReachable
<1>1. IInv => ProxyReachable
  BY DEF IInv
<1> QED BY <1>1, ProxyInvariant, PTL
=============================================================================
