--------------------------- MODULE NodeLoopsProofs ---------------------------
(***************************************************************************)
(* Proofs that the invariants of NodeLoops hold for any numbers of calls,  *)
(* peers and events, under any faults.                                     *)
(***************************************************************************)
EXTENDS NodeLoops, TLAPS

\* What sending to a channel does to what is queued in it.
LEMMA AppendQueue ==
    ASSUME NEW S, NEW q \in Seq(S), NEW x \in S
    PROVE  /\ Append(q, x) \in Seq(S)
           /\ \A y : InQueue(y, Append(q, x)) <=> InQueue(y, q) \/ y = x
           /\ Once(q) /\ ~InQueue(x, q) => Once(Append(q, x))
<1> DEFINE a == Append(q, x)
<1>1. /\ a \in Seq(S) /\ Len(a) = Len(q) + 1
      /\ a[Len(q) + 1] = x
      /\ \A i \in 1..Len(q) : a[i] = q[i]
  OBVIOUS
<1>2. Len(q) \in Nat
  OBVIOUS
<1>3. \A y : InQueue(y, a) <=> InQueue(y, q) \/ y = x
  <2> SUFFICES ASSUME NEW y PROVE InQueue(y, a) <=> InQueue(y, q) \/ y = x
    OBVIOUS
  <2>1. 1..Len(a) = 1..Len(q) \cup {Len(q) + 1}
    BY <1>1, <1>2
  <2> QED BY <1>1, <1>2, <2>1 DEF InQueue
<1>4. Once(q) /\ ~InQueue(x, q) => Once(a)
  <2> SUFFICES ASSUME Once(q), ~InQueue(x, q),
                      NEW i \in 1..Len(a), NEW j \in 1..Len(a), a[i] = a[j]
               PROVE  i = j
    BY DEF Once
  <2> QED BY <1>1, <1>2 DEF Once, InQueue
<1> QED BY <1>1, <1>3, <1>4

\* What popping the head of a channel does to what is queued in it.
LEMMA TailQueue ==
    ASSUME NEW S, NEW q \in Seq(S), q # <<>>
    PROVE  /\ Head(q) \in S /\ Tail(q) \in Seq(S) /\ InQueue(Head(q), q)
           /\ Once(q) => /\ Once(Tail(q))
                         /\ \A y : InQueue(y, Tail(q)) <=>
                                     InQueue(y, q) /\ y # Head(q)
<1> DEFINE t == Tail(q)
<1>1. /\ t \in Seq(S) /\ Len(q) \in Nat /\ Len(q) > 0 /\ Len(t) = Len(q) - 1
      /\ \A i \in 1..Len(t) : t[i] = q[i + 1]
      /\ Head(q) = q[1] /\ Head(q) \in S
  OBVIOUS
<1>2. InQueue(Head(q), q)
  BY <1>1 DEF InQueue
<1>3. ASSUME Once(q) PROVE Once(t)
  BY <1>1, <1>3 DEF Once
<1>4. ASSUME Once(q), NEW y
      PROVE  InQueue(y, t) <=> InQueue(y, q) /\ y # Head(q)
  <2>1. ASSUME InQueue(y, t) PROVE InQueue(y, q) /\ y # Head(q)
    <3>1. PICK i \in 1..Len(t) : t[i] = y
      BY <2>1 DEF InQueue
    <3>2. i + 1 \in 1..Len(q) /\ q[i + 1] = y /\ i + 1 # 1 /\ 1 \in 1..Len(q)
      BY <3>1, <1>1
    <3> QED BY <3>2, <1>1, <1>4 DEF InQueue, Once
  <2>2. ASSUME InQueue(y, q), y # Head(q) PROVE InQueue(y, t)
    <3>1. PICK i \in 1..Len(q) : q[i] = y
      BY <2>2 DEF InQueue
    <3>2. i # 1
      BY <3>1, <2>2, <1>1
    <3>3. i - 1 \in 1..Len(t) /\ t[i - 1] = y
      BY <3>1, <3>2, <1>1
    <3> QED BY <3>3 DEF InQueue
  <2> QED BY <2>1, <2>2
<1> QED BY <1>1, <1>2, <1>3, <1>4

LEMMA EmptyQueue == Once(<<>>) /\ \A x : ~InQueue(x, <<>>)
BY DEF Once, InQueue

\* The first command of every method is a command.
LEMMA FirstCommandType ==
    ASSUME NEW o \in Ops
    PROVE  FirstCommand[o] \in Commands
BY OpsAssumption DEF FirstCommand, Commands

-----------------------------------------------------------------------------
\* The initial state satisfies the inductive invariant.
LEMMA InitIInv == ASSUME Init PROVE IInv
<1>1. TypeOK
  BY SetsAssumption DEF Init, TypeOK, CallStates, Replies, NetStates, Reasons,
     HandlerPCs, EventStates, Callers
<1>2. EventAccounted
  BY SetsAssumption, EmptyQueue DEF Init, EventAccounted, Events, Inbound
<1>3. QueueInv
  BY EmptyQueue DEF Init, QueueInv
<1>4. TablesInv /\ WaiterAccounted /\ StillPending
  BY SetsAssumption DEF Init, TablesInv, WaiterAccounted, StillPending, Waits, Held
<1> QED BY <1>1, <1>2, <1>3, <1>4 DEF IInv

\* A step that leaves the events alone, and at most ends a loop that is in its
\* select, keeps the events accounted for.
LEMMA EventFrame ==
    ASSUME EventAccounted, UNCHANGED <<hVars, netReq>>,
           \/ net' = net
           \/ net = "select" /\ net' \in {"stuck", "dead"}
    PROVE  EventAccounted'
BY DEF EventAccounted, hVars

\* What holds when the command of a call is popped: the call was parked,
\* unanswered and in no table.
Popped(c, command) ==
    /\ c \in Calls /\ cmd[c] = command /\ net = "select"
    /\ st[c] = "sending" /\ reply[c] = "none" /\ ~Held(c)
    /\ cmdQ' \in Seq(Callers) /\ Once(cmdQ')
    /\ \A d \in Calls : InQueue(d, cmdQ') <=> st'[d] = "sending"
    /\ InQueue(Handler, cmdQ') <=> hpc' \in {"respond", "provide", "stop"}
    /\ st' \in [Calls -> CallStates]

LEMMA PopCall ==
    ASSUME IInv, NEW c, NEW command, Pop(c, command)
    PROVE  Popped(c, command)
<1>1. /\ net = "select" /\ cmdQ # <<>> /\ Head(cmdQ) = c /\ c \in Calls
      /\ cmd[c] = command /\ cmdQ' = Tail(cmdQ) /\ hpc' = hpc
      /\ st' = [st EXCEPT ![c] = IF command = "StopProviding"
                                 THEN "done" ELSE "waiting"]
  BY DEF Pop, hVars
<1>2. cmdQ \in Seq(Callers) /\ st \in [Calls -> CallStates] /\ Handler # c
  BY <1>1, SetsAssumption DEF IInv, TypeOK
<1>3. /\ Once(cmdQ)
      /\ \A d \in Calls : InQueue(d, cmdQ) <=> st[d] = "sending"
      /\ InQueue(Handler, cmdQ) <=> hpc \in {"respond", "provide", "stop"}
  BY <1>1 DEF IInv, QueueInv
<1>4. /\ cmdQ' \in Seq(Callers) /\ Once(cmdQ') /\ InQueue(c, cmdQ)
      /\ \A y : InQueue(y, cmdQ') <=> InQueue(y, cmdQ) /\ y # c
  BY <1>1, <1>2, <1>3, TailQueue
<1>5. st[c] = "sending" /\ reply[c] = "none"
  BY <1>1, <1>3, <1>4 DEF IInv, QueueInv
<1>6. ~Held(c)
  BY <1>1, <1>5 DEF IInv, WaiterAccounted, Waits
<1>7. st' \in [Calls -> CallStates]
  BY <1>1, <1>2 DEF CallStates
<1>8. \A d \in Calls : InQueue(d, cmdQ') <=> st'[d] = "sending"
  BY <1>1, <1>2, <1>3, <1>4
<1> QED BY <1>1, <1>2, <1>3, <1>4, <1>5, <1>6, <1>7, <1>8 DEF Popped

\* What holds when a command of the handler is popped: the handler was parked
\* on it, serving an event, and has no operation under way.
HandlerPopped(pc) ==
    /\ net = "select" /\ hpc = pc
    /\ pc \in {"respond", "provide", "stop"}
    /\ hcur \in Events /\ est[hcur] = "handling"
    /\ cmdQ' \in Seq(Callers) /\ Once(cmdQ')
    /\ \A d \in Calls : InQueue(d, cmdQ') <=> st[d] = "sending"
    /\ ~InQueue(Handler, cmdQ')
    /\ Handler \notin pending /\ Handler \notin inflight

LEMMA PopHandlerCommand ==
    ASSUME IInv, NEW pc, PopHandler(pc)
    PROVE  HandlerPopped(pc)
<1>1. /\ net = "select" /\ cmdQ # <<>> /\ Head(cmdQ) = Handler
      /\ hpc = pc /\ cmdQ' = Tail(cmdQ)
  BY DEF PopHandler
<1>2. /\ Once(cmdQ)
      /\ \A d \in Calls : InQueue(d, cmdQ) <=> st[d] = "sending"
      /\ InQueue(Handler, cmdQ) <=> hpc \in {"respond", "provide", "stop"}
  BY <1>1 DEF IInv, QueueInv
<1>3. cmdQ \in Seq(Callers) /\ \A d \in Calls : d # Handler
  BY SetsAssumption DEF IInv, TypeOK
<1>4. /\ cmdQ' \in Seq(Callers) /\ Once(cmdQ') /\ InQueue(Handler, cmdQ)
      /\ \A y : InQueue(y, cmdQ') <=> InQueue(y, cmdQ) /\ y # Handler
  BY <1>1, <1>2, <1>3, TailQueue
<1>5. pc \in {"respond", "provide", "stop"}
  BY <1>1, <1>2, <1>4
<1>6. hcur \in Events /\ est[hcur] = "handling"
  BY <1>1, <1>5 DEF IInv, TypeOK, EventAccounted
<1>7. Handler \notin pending /\ Handler \notin inflight
  BY <1>1, <1>5 DEF IInv, TablesInv
<1> QED BY <1>1, <1>2, <1>3, <1>4, <1>5, <1>6, <1>7 DEF HandlerPopped

-----------------------------------------------------------------------------
(* The commands of the calls, by what becomes of the popped sender.        *)

\* The sender is answered, or dropped, at once.
LEMMA AnsweredAtOnce ==
    ASSUME IInv, NEW c, NEW command, Pop(c, command),
           command # "StopProviding",
           NEW r \in {"ok", "err", "dropped"}, Answer(c, r),
           UNCHANGED <<tables, net, why>>
    PROVE  IInv'
<1>0. Popped(c, command)
  BY PopCall
<1>1. TypeOK'
  BY <1>0 DEF Popped, IInv, TypeOK, Pop, Answer, tables, hVars, Replies
<1>2. EventAccounted'
  BY <1>0, EventFrame DEF Popped, IInv, Pop
<1>3. QueueInv'
  BY <1>0 DEF Popped, IInv, TypeOK, QueueInv, Pop, Answer
<1>4. TablesInv'
  BY <1>0 DEF Popped, IInv, TablesInv, Pop, tables, hVars
<1>5. WaiterAccounted'
  BY <1>0 DEF Popped, IInv, TypeOK, WaiterAccounted, Waits, Held, Pop, Answer, tables
<1> QED BY <1>1, <1>2, <1>3, <1>4, <1>5 DEF IInv, StillPending

\* The sender goes into the table of an operation that has been started.
LEMMA Tracked ==
    ASSUME IInv, NEW c, NEW command, Pop(c, command),
           command \notin {"StopProviding", "Dial"}, Track(c)
    PROVE  IInv'
<1>0. Popped(c, command)
  BY PopCall
<1>1. TypeOK'
  BY <1>0 DEF Popped, IInv, TypeOK, Pop, Track, hVars, Callers
<1>2. EventAccounted'
  BY <1>0, EventFrame DEF Popped, IInv, Pop, Track
<1>3. QueueInv'
  BY <1>0 DEF Popped, IInv, TypeOK, QueueInv, Pop, Track
<1>4. TablesInv'
  BY <1>0, SetsAssumption DEF Popped, IInv, TablesInv, Pop, Track, hVars
<1>5. WaiterAccounted'
  BY <1>0 DEF Popped, IInv, TypeOK, WaiterAccounted, Waits, Held, Pop, Track
<1> QED BY <1>1, <1>2, <1>3, <1>4, <1>5 DEF IInv, StillPending, Track

\* The sender goes into pending_dial, in the place of no other.
LEMMA Dialled ==
    ASSUME IInv, NEW c, Pop(c, "Dial"), dialing[peer[c]] = None,
           dialing' = [dialing EXCEPT ![peer[c]] = c],
           UNCHANGED <<reply, pending, inflight, net, why>>
    PROVE  IInv'
<1>0. Popped(c, "Dial")
  BY PopCall
<1>1. TypeOK'
  BY <1>0 DEF Popped, IInv, TypeOK, Pop, hVars
<1>2. EventAccounted'
  BY <1>0, EventFrame DEF Popped, IInv, Pop
<1>3. QueueInv'
  BY <1>0 DEF Popped, IInv, TypeOK, QueueInv, Pop
<1>4. TablesInv'
  BY <1>0, SetsAssumption DEF Popped, IInv, TypeOK, TablesInv, Pop, hVars
<1>5. WaiterAccounted'
  BY <1>0, SetsAssumption DEF Popped, IInv, TypeOK, WaiterAccounted, Waits, Held, Pop
<1> QED BY <1>1, <1>2, <1>3, <1>4, <1>5 DEF IInv, StillPending

\* There is no sender to keep.
LEMMA NothingToTrack ==
    ASSUME IInv, NEW c, Pop(c, "StopProviding"),
           UNCHANGED <<reply, tables, net, why>>
    PROVE  IInv'
<1>0. Popped(c, "StopProviding")
  BY PopCall
<1>1. TypeOK'
  BY <1>0 DEF Popped, IInv, TypeOK, Pop, tables, hVars
<1>2. EventAccounted'
  BY <1>0, EventFrame DEF Popped, IInv, Pop
<1>3. QueueInv'
  BY <1>0 DEF Popped, IInv, TypeOK, QueueInv, Pop
<1>4. TablesInv'
  BY <1>0 DEF Popped, IInv, TablesInv, Pop, tables, hVars
<1>5. WaiterAccounted'
  BY <1>0 DEF Popped, IInv, TypeOK, WaiterAccounted, Waits, Held, Pop, tables
<1> QED BY <1>1, <1>2, <1>3, <1>4, <1>5 DEF IInv, StillPending

\* The command ends the loop, and what it owned is past accounting for.
LEMMA CommandPanics ==
    ASSUME IInv, NEW c, NEW command, Pop(c, command),
           NEW r \in Reasons \ {"pending"}, Panic(r),
           UNCHANGED <<reply, tables>>
    PROVE  IInv'
<1>0. Popped(c, command)
  BY PopCall
<1>1. TypeOK'
  BY <1>0 DEF Popped, IInv, TypeOK, Pop, Panic, tables, hVars, NetStates
<1>2. EventAccounted'
  BY <1>0, EventFrame DEF Popped, IInv, Pop, Panic
<1> QED BY <1>1, <1>2 DEF IInv, QueueInv, TablesInv, WaiterAccounted,
           StillPending, Panic

\* The command leaves the loop with a stream that does not open.
LEMMA CommandStalls ==
    ASSUME IInv, NEW c, Pop(c, "SendInStream"), StreamStalls,
           UNCHANGED <<reply, tables>>
    PROVE  IInv'
<1>0. Popped(c, "SendInStream")
  BY PopCall
<1>1. TypeOK'
  BY <1>0 DEF Popped, IInv, TypeOK, Pop, StreamStalls, tables, hVars, NetStates
<1>2. EventAccounted'
  BY <1>0, EventFrame DEF Popped, IInv, Pop, StreamStalls
<1>3. QueueInv'
  BY <1>0 DEF Popped, IInv, TypeOK, QueueInv, Pop, StreamStalls
<1>4. TablesInv'
  BY <1>0 DEF Popped, IInv, TablesInv, Pop, StreamStalls, tables, hVars
<1>5. WaiterAccounted'
  BY <1>0 DEF Popped, IInv, TypeOK, WaiterAccounted, Waits, Held, Pop,
     StreamStalls, tables
<1> QED BY <1>1, <1>2, <1>3, <1>4, <1>5 DEF IInv, StillPending, StreamStalls

\* Each command of a call has one of these outcomes.
LEMMA CallCommandStep ==
    ASSUME IInv, NEW c \in Calls,
           \/ CmdStartListening(c) \/ CmdDial(c)
           \/ CmdStartProviding(c) \/ CmdStopProviding(c)
           \/ CmdGetProviders(c) \/ CmdRequest(c)
           \/ CmdPutKV(c) \/ CmdGetValue(c) \/ CmdSendInStream(c)
    PROVE  IInv'
<1>1. CASE CmdStartListening(c)
  BY <1>1, AnsweredAtOnce DEF CmdStartListening
<1>2. CASE CmdDial(c)
  BY <1>2, Dialled, AnsweredAtOnce, CommandPanics DEF CmdDial, Reasons
<1>3. CASE CmdStartProviding(c) \/ CmdPutKV(c)
  BY <1>3, Tracked, CommandPanics
     DEF CmdStartProviding, CmdPutKV, CmdStoreThenTrack, Reasons
<1>4. CASE CmdStopProviding(c)
  BY <1>4, NothingToTrack DEF CmdStopProviding
<1>5. CASE CmdGetProviders(c) \/ CmdRequest(c) \/ CmdGetValue(c)
  BY <1>5, Tracked DEF CmdGetProviders, CmdRequest, CmdGetValue
<1>6. CASE CmdSendInStream(c)
  BY <1>6, Tracked, AnsweredAtOnce, CommandStalls DEF CmdSendInStream
<1> QED BY <1>1, <1>2, <1>3, <1>4, <1>5, <1>6

-----------------------------------------------------------------------------
(* The commands of the request handler.                                    *)

\* The handler is done with its event.
LEMMA HandlerDoneEvents ==
    ASSUME IInv, HandlerDone, hcur # None,
           UNCHANGED <<evQ, net, netReq>>
    PROVE  EventAccounted'
BY SetsAssumption DEF IInv, TypeOK, EventAccounted, HandlerDone, Events

LEMMA CmdRespondStep == ASSUME IInv, CmdRespond PROVE IInv'
<1>0. PopHandler("respond")
  BY DEF CmdRespond
<1>1. HandlerPopped("respond")
  BY <1>0, PopHandlerCommand
<1>2. TypeOK'
  BY <1>0, <1>1 DEF IInv, TypeOK, CmdRespond, HandlerDone, Panic, PopHandler,
     HandlerPopped, callVars, tables, NetStates, Reasons, HandlerPCs,
     EventStates
<1>3. EventAccounted'
  <2>1. /\ hcur \in Events /\ est[hcur] = "handling" /\ hpc' = "recv"
        /\ hcur' = None /\ evQ' = evQ /\ netReq' = netReq /\ net = "select"
        /\ net' \in {"select", "dead"}
    BY <1>0, <1>1 DEF CmdRespond, HandlerDone, Panic, PopHandler, HandlerPopped
  <2>2. PICK x \in {"answered", "lost"} : est' = [est EXCEPT ![hcur] = x]
    BY DEF CmdRespond, HandlerDone
  <2> QED BY <1>1, <2>1, <2>2, SetsAssumption DEF IInv, TypeOK,
             EventAccounted, HandlerPopped
<1>4. QueueInv'
  BY <1>0, <1>1 DEF IInv, QueueInv, CmdRespond, HandlerDone, Panic,
     PopHandler, HandlerPopped, callVars
<1>5. TablesInv' /\ WaiterAccounted' /\ StillPending'
  BY <1>0, <1>1 DEF IInv, TablesInv, WaiterAccounted, Waits, Held, StillPending,
     CmdRespond, HandlerDone, Panic, PopHandler, HandlerPopped, callVars,
     tables
<1> QED BY <1>2, <1>3, <1>4, <1>5 DEF IInv

LEMMA CmdHandlerProvideStep == ASSUME IInv, CmdHandlerProvide PROVE IInv'
<1>0. PopHandler("provide")
  BY DEF CmdHandlerProvide
<1>1. HandlerPopped("provide")
  BY <1>0, PopHandlerCommand
<1>2. TypeOK'
  BY <1>0, <1>1 DEF IInv, TypeOK, CmdHandlerProvide, Panic, PopHandler,
     HandlerPopped, callVars, tables, NetStates, Reasons, HandlerPCs, Callers
<1>3. EventAccounted'
  BY <1>0, <1>1 DEF IInv, TypeOK, EventAccounted, CmdHandlerProvide, Panic,
     PopHandler, HandlerPopped
<1>4. QueueInv'
  BY <1>0, <1>1 DEF IInv, QueueInv, CmdHandlerProvide, Panic, PopHandler,
     HandlerPopped, callVars
<1>5. TablesInv' /\ WaiterAccounted' /\ StillPending'
  BY <1>0, <1>1, SetsAssumption DEF IInv, TablesInv, WaiterAccounted, Waits, Held,
     StillPending, CmdHandlerProvide, Panic, PopHandler, HandlerPopped,
     callVars, tables
<1> QED BY <1>2, <1>3, <1>4, <1>5 DEF IInv

LEMMA CmdHandlerStopStep == ASSUME IInv, CmdHandlerStop PROVE IInv'
<1>0. PopHandler("stop")
  BY DEF CmdHandlerStop
<1>1. HandlerPopped("stop")
  BY <1>0, PopHandlerCommand
<1>2. TypeOK'
  BY <1>0, <1>1 DEF IInv, TypeOK, CmdHandlerStop, HandlerDone, PopHandler,
     HandlerPopped, callVars, tables, HandlerPCs, EventStates
<1>3. EventAccounted'
  BY <1>0, <1>1, HandlerDoneEvents, SetsAssumption DEF CmdHandlerStop,
     PopHandler, HandlerPopped
<1>4. QueueInv'
  BY <1>0, <1>1 DEF IInv, QueueInv, CmdHandlerStop, HandlerDone, PopHandler,
     HandlerPopped, callVars
<1>5. TablesInv' /\ WaiterAccounted' /\ StillPending'
  BY <1>0, <1>1 DEF IInv, TablesInv, WaiterAccounted, Waits, Held, StillPending,
     CmdHandlerStop, HandlerDone, PopHandler, HandlerPopped, callVars, tables
<1> QED BY <1>2, <1>3, <1>4, <1>5 DEF IInv

-----------------------------------------------------------------------------
(* The calls.                                                              *)

\* An idle call is neither queued nor held, so it may be queued.
LEMMA IssueStep == ASSUME IInv, NEW c \in Calls, Issue(c) PROVE IInv'
<1>1. TypeOK'
  <2>1. PICK o \in Ops : /\ op' = [op EXCEPT ![c] = o]
                         /\ cmd' = [cmd EXCEPT ![c] = FirstCommand[o]]
    BY DEF Issue
  <2>2. FirstCommand[o] \in Commands
    BY FirstCommandType
  <2>3. cmdQ' \in Seq(Callers)
    <3>1. cmdQ' = cmdQ \/ cmdQ' = Append(cmdQ, c)
      BY DEF Issue
    <3>2. cmdQ \in Seq(Callers) /\ c \in Callers
      BY DEF IInv, TypeOK, Callers
    <3> QED BY <3>1, <3>2, AppendQueue
  <2> QED BY <2>1, <2>2, <2>3 DEF IInv, TypeOK, Issue, netVars, tables, hVars,
             CallStates
<1>2. EventAccounted'
  BY EventFrame DEF IInv, Issue, netVars
<1>3. QueueInv'
  <2>1. CASE net = "dead"
    BY <2>1 DEF Issue, netVars, QueueInv
  <2>2. CASE net # "dead"
    <3>1. /\ cmdQ \in Seq(Callers) /\ c \in Callers /\ Once(cmdQ)
          /\ ~InQueue(c, cmdQ) /\ c # Handler
      BY <2>2, SetsAssumption DEF IInv, TypeOK, QueueInv, Issue, Callers
    <3>2. /\ cmdQ' = Append(cmdQ, c) /\ Once(cmdQ')
          /\ \A y : InQueue(y, cmdQ') <=> InQueue(y, cmdQ) \/ y = c
      <4>1. cmdQ' = Append(cmdQ, c)
        BY <2>2 DEF Issue
      <4> QED BY <3>1, <4>1, AppendQueue
    <3> QED BY <2>2, <3>1, <3>2 DEF IInv, TypeOK, QueueInv, Issue, hVars, netVars
  <2> QED BY <2>1, <2>2
<1>4. TablesInv' /\ WaiterAccounted' /\ StillPending'
  BY DEF IInv, TypeOK, TablesInv, WaiterAccounted, Waits, Held, StillPending, Issue,
     netVars, tables, hVars
<1> QED BY <1>1, <1>2, <1>3, <1>4 DEF IInv

\* A call that has been answered is held no more, so its command may change.
LEMMA SendInStreamStep ==
    ASSUME IInv, NEW c \in Calls, SendInStream(c) PROVE IInv'
<1>1. TypeOK'
  BY AppendQueue DEF IInv, TypeOK, SendInStream, netVars, tables, hVars,
     CallStates, Callers, Commands, Replies
<1>2. EventAccounted'
  BY EventFrame DEF IInv, SendInStream, netVars
<1>3. QueueInv'
  <2>1. /\ cmdQ \in Seq(Callers) /\ c \in Callers /\ Once(cmdQ)
        /\ ~InQueue(c, cmdQ) /\ c # Handler
    BY SetsAssumption DEF IInv, TypeOK, QueueInv, SendInStream, Callers
  <2>2. /\ cmdQ' = Append(cmdQ, c) /\ Once(cmdQ')
        /\ \A y : InQueue(y, cmdQ') <=> InQueue(y, cmdQ) \/ y = c
    BY <2>1, AppendQueue DEF SendInStream
  <2> QED BY <2>1, <2>2 DEF IInv, TypeOK, QueueInv, SendInStream, hVars, netVars
<1>4. ~Held(c)
  BY DEF IInv, WaiterAccounted, Waits, SendInStream, DialledForStream
<1>5. TablesInv' /\ WaiterAccounted' /\ StillPending'
  BY <1>4 DEF IInv, TypeOK, TablesInv, WaiterAccounted, Waits, Held, StillPending,
     SendInStream, netVars, tables, hVars
<1> QED BY <1>1, <1>2, <1>3, <1>5 DEF IInv

LEMMA ReturnStep ==
    ASSUME IInv, NEW c \in Calls, Return(c) \/ Abandoned(c) PROVE IInv'
<1> USE DEF Return, Abandoned
<1>1. TypeOK'
  BY DEF IInv, TypeOK, netVars, tables, hVars, CallStates
<1>2. EventAccounted'
  BY EventFrame DEF IInv, netVars
<1>3. QueueInv' /\ TablesInv' /\ WaiterAccounted' /\ StillPending'
  BY DEF IInv, TypeOK, QueueInv, TablesInv, WaiterAccounted, Waits, Held,
     StillPending, netVars, tables, hVars
<1> QED BY <1>1, <1>2, <1>3 DEF IInv

-----------------------------------------------------------------------------
(* Events on their way to the handler.                                     *)

\* A step that touches neither the calls nor the tables nor the command
\* channel, and leaves both loops where they are or ends one that is in its
\* select, keeps the rest of the invariant.
LEMMA CallFrame ==
    ASSUME IInv, UNCHANGED <<callVars, cmdQ, tables>>,
           net = "dead" => net' = "dead",
           net = "stuck" => net' \in {"stuck", "dead"},
           why' # "pending",
           \/ hpc' = hpc
           \/ hpc = "recv" /\ hpc' = "dead"
    PROVE  QueueInv' /\ TablesInv' /\ WaiterAccounted' /\ StillPending'
BY DEF IInv, QueueInv, TablesInv, WaiterAccounted, Waits, Held, StillPending,
   callVars, tables

LEMMA SendLocalStep == ASSUME IInv, NEW l \in Locals, SendLocal(l) PROVE IInv'
<1>0. l \in Events /\ l \notin Inbound
  BY SetsAssumption DEF Events
<1>1. TypeOK'
  <2>1. evQ' \in Seq(Events)
    <3>1. evQ' = evQ \/ evQ' = Append(evQ, l)
      BY DEF SendLocal
    <3>2. evQ \in Seq(Events)
      BY DEF IInv, TypeOK
    <3> QED BY <1>0, <3>1, <3>2, AppendQueue
  <2> QED BY <1>0, <2>1 DEF IInv, TypeOK, SendLocal, callVars, netVars, tables,
             EventStates
<1>2. EventAccounted'
  <2>1. CASE hpc = "dead"
    <3>1. /\ est' = [est EXCEPT ![l] = "lost"] /\ est[l] = "absent"
          /\ UNCHANGED <<evQ, hpc, hcur, net, netReq>>
      BY <2>1 DEF SendLocal, netVars
    <3>2. EventAccounted /\ est \in [Events -> EventStates]
      BY DEF IInv, TypeOK
    <3> QED BY <1>0, <2>1, <3>1, <3>2 DEF EventAccounted, Events
  <2>2. CASE hpc # "dead"
    <3>1. evQ' = Append(evQ, l) /\ evQ \in Seq(Events) /\ Once(evQ)
          /\ ~InQueue(l, evQ)
      BY <1>0, <2>2 DEF SendLocal, IInv, TypeOK, EventAccounted
    <3>2. /\ Once(evQ')
          /\ \A y : InQueue(y, evQ') <=> InQueue(y, evQ) \/ y = l
      BY <1>0, <3>1, AppendQueue
    <3>3. /\ est' = [est EXCEPT ![l] = "forwarded"] /\ est[l] = "absent"
          /\ UNCHANGED <<hpc, hcur, net, netReq>>
      BY <2>2 DEF SendLocal, netVars
    <3>4. EventAccounted /\ est \in [Events -> EventStates]
      BY DEF IInv, TypeOK
    <3> QED BY <1>0, <2>2, <3>2, <3>3, <3>4 DEF EventAccounted, Events
  <2> QED BY <2>1, <2>2
<1>3. QueueInv' /\ TablesInv' /\ WaiterAccounted' /\ StillPending'
  BY CallFrame DEF IInv, StillPending, SendLocal, netVars
<1> QED BY <1>1, <1>2, <1>3 DEF IInv

LEMMA ForwardStep == ASSUME IInv, NEW r \in Inbound, Forward(r) PROVE IInv'
<1>0. r \in Events /\ r # None
  BY SetsAssumption DEF Events
<1>1. TypeOK'
  <2>1. evQ' \in Seq(Events)
    <3>1. evQ' = evQ \/ evQ' = Append(evQ, r)
      BY DEF Forward
    <3>2. evQ \in Seq(Events)
      BY DEF IInv, TypeOK
    <3> QED BY <1>0, <3>1, <3>2, AppendQueue
  <2> QED BY <1>0, <2>1 DEF IInv, TypeOK, Forward, Panic, callVars, tables,
             EventStates, NetStates, Reasons
<1>2. EventAccounted'
  <2>1. CASE hpc = "dead"
    <3>1. /\ est' = [est EXCEPT ![r] = "lost"] /\ est[r] = "absent"
          /\ UNCHANGED <<evQ, hpc, hcur, netReq>>
          /\ net = "select" /\ net' = "dead"
      BY <2>1 DEF Forward, Panic
    <3>2. EventAccounted /\ est \in [Events -> EventStates]
      BY DEF IInv, TypeOK
    <3> QED BY <1>0, <2>1, <3>1, <3>2 DEF EventAccounted, Events
  <2>2. CASE hpc # "dead"
    <3>1. evQ' = Append(evQ, r) /\ evQ \in Seq(Events) /\ Once(evQ)
          /\ ~InQueue(r, evQ)
      BY <1>0, <2>2 DEF Forward, IInv, TypeOK, EventAccounted
    <3>2. /\ Once(evQ')
          /\ \A y : InQueue(y, evQ') <=> InQueue(y, evQ) \/ y = r
      BY <1>0, <3>1, AppendQueue
    <3> QED BY <1>0, <2>2, <3>2 DEF IInv, TypeOK, EventAccounted, Forward,
               Events
  <2> QED BY <2>1, <2>2
<1>3. QueueInv' /\ TablesInv' /\ WaiterAccounted' /\ StillPending'
  BY CallFrame DEF IInv, StillPending, Forward, Panic
<1> QED BY <1>1, <1>2, <1>3 DEF IInv

LEMMA InboundStreamUnreadableStep ==
    ASSUME IInv, NEW r \in StreamRequests, InboundStreamUnreadable(r)
    PROVE  IInv'
<1>0. r \in Events
  BY DEF Events, Inbound
<1> USE DEF InboundStreamUnreadable
<1>1. TypeOK'
  BY <1>0 DEF IInv, TypeOK, callVars, netVars, tables, EventStates
<1>2. EventAccounted'
  BY <1>0 DEF IInv, TypeOK, EventAccounted, netVars
<1>3. QueueInv' /\ TablesInv' /\ WaiterAccounted' /\ StillPending'
  BY CallFrame DEF IInv, StillPending, netVars
<1> QED BY <1>1, <1>2, <1>3 DEF IInv

LEMMA InboundStreamStallsStep ==
    ASSUME IInv, NEW r \in StreamRequests, InboundStreamStalls(r)
    PROVE  IInv'
<1> USE DEF InboundStreamStalls
<1>1. TypeOK'
  BY DEF IInv, TypeOK, callVars, tables, hVars, NetStates
<1>2. EventAccounted'
  BY EventFrame DEF IInv
<1>3. QueueInv' /\ TablesInv' /\ WaiterAccounted' /\ StillPending'
  BY CallFrame DEF IInv, StillPending, hVars
<1> QED BY <1>1, <1>2, <1>3 DEF IInv

LEMMA SendStreamResponseStep ==
    ASSUME IInv, SendStreamResponse PROVE IInv'
<1>0. netReq \in Inbound /\ netReq \in Events
  BY DEF IInv, TypeOK, SendStreamResponse, Events
<1>1. PICK x \in {"answered", "lost"} : est' = [est EXCEPT ![netReq] = x]
  BY DEF SendStreamResponse
<1>2. TypeOK'
  BY <1>0, <1>1 DEF IInv, TypeOK, SendStreamResponse, StreamStalls, callVars, tables,
     EventStates, NetStates
<1>3. EventAccounted'
  BY <1>0, <1>1 DEF IInv, TypeOK, EventAccounted, SendStreamResponse, StreamStalls,
     Events
<1>4. QueueInv' /\ TablesInv' /\ WaiterAccounted' /\ StillPending'
  BY CallFrame DEF IInv, StillPending, SendStreamResponse, StreamStalls
<1> QED BY <1>2, <1>3, <1>4 DEF IInv

LEMMA ForwardReleasedStep == ASSUME IInv, ForwardReleased PROVE IInv'
<1>0. netReq \in Inbound /\ netReq \in Events /\ netReq # None
  BY SetsAssumption DEF IInv, TypeOK, ForwardReleased, Events
<1>1. TypeOK'
  BY <1>0 DEF IInv, TypeOK, ForwardReleased, Released, callVars, tables,
     EventStates, NetStates
<1>2. EventAccounted'
  BY <1>0 DEF IInv, TypeOK, EventAccounted, ForwardReleased, Released, Events
<1>3. QueueInv' /\ TablesInv' /\ WaiterAccounted' /\ StillPending'
  BY CallFrame DEF IInv, StillPending, ForwardReleased
<1> QED BY <1>1, <1>2, <1>3 DEF IInv

LEMMA AwaitDroppedStep == ASSUME IInv, AwaitDropped PROVE IInv'
<1>1. TypeOK'
  BY DEF IInv, TypeOK, AwaitDropped, Panic, callVars, tables, hVars,
     NetStates, Reasons
<1>2. EventAccounted'
  BY DEF IInv, TypeOK, EventAccounted, AwaitDropped, Panic, hVars, Events
<1>3. QueueInv' /\ TablesInv' /\ WaiterAccounted' /\ StillPending'
  BY CallFrame DEF AwaitDropped, Panic, hVars
<1> QED BY <1>1, <1>2, <1>3 DEF IInv

LEMMA CloseChannelStep ==
    ASSUME IInv, NEW r \in RRRequests, CloseChannel(r) PROVE IInv'
<1>1. TypeOK'
  BY DEF IInv, TypeOK, CloseChannel, callVars, netVars, tables
<1>2. EventAccounted'
  BY DEF IInv, EventAccounted, CloseChannel, netVars
<1>3. QueueInv' /\ TablesInv' /\ WaiterAccounted' /\ StillPending'
  BY CallFrame DEF IInv, StillPending, CloseChannel, netVars
<1> QED BY <1>1, <1>2, <1>3 DEF IInv

-----------------------------------------------------------------------------
(* What the swarm reports.                                                 *)

\* An operation that is reported on has its sender in a table, so the report
\* answers it.
LEMMA ReportStep ==
    ASSUME IInv, NEW w \in Callers, NEW r \in {"ok", "err"},
           CommandOf(w) # "Dial", Report(w, r)
    PROVE  IInv'
<1>1. /\ net = "select" /\ w \in inflight /\ w \in pending
      /\ inflight' = inflight \ {w} /\ pending' = pending \ {w}
      /\ UNCHANGED <<st, op, peer, cmd, cmdQ, net, why, netReq, dialing, evQ,
                     closed>>
  BY DEF IInv, TablesInv, Report
<1>2. CASE w = Handler
  <2>1. HandlerDone /\ UNCHANGED reply /\ hpc = "confirm"
    BY <1>1, <1>2 DEF Report, IInv, TablesInv
  <2>2. hcur \in Events /\ hcur # None
    BY <2>1 DEF IInv, TypeOK
  <2>3. TypeOK'
    BY <1>1, <2>1, <2>2 DEF IInv, TypeOK, HandlerDone, HandlerPCs, EventStates
  <2>4. EventAccounted'
    BY <1>1, <2>1, <2>2, HandlerDoneEvents
  <2>5. QueueInv' /\ TablesInv' /\ WaiterAccounted' /\ StillPending'
    BY <1>1, <1>2, <2>1, SetsAssumption DEF IInv, QueueInv, TablesInv,
       WaiterAccounted, Waits, Held, StillPending, HandlerDone
  <2> QED BY <2>3, <2>4, <2>5 DEF IInv
<1>3. CASE w # Handler
  <2>1. /\ w \in Calls /\ cmd[w] # "Dial"
        /\ reply' = [reply EXCEPT ![w] = r] /\ UNCHANGED <<hpc, hcur, est>>
    BY <1>1, <1>3 DEF Report, Answer, CommandOf, Callers
  <2>2. TypeOK'
    BY <1>1, <2>1 DEF IInv, TypeOK, Replies
  <2>3. EventAccounted'
    BY <1>1, <2>1, EventFrame DEF IInv, hVars
  <2>4. QueueInv'
    <3>1. st[w] = "waiting"
      BY <1>1, <2>1 DEF IInv, WaiterAccounted, Waits, Held
    <3> QED BY <1>1, <2>1, <3>1 DEF IInv, TypeOK, QueueInv
  <2>5. TablesInv' /\ StillPending'
    BY <1>1, <2>1 DEF IInv, TablesInv, StillPending
  <2>6. WaiterAccounted'
    <3>1. \A p \in Peers : dialing[p] # w
      BY <1>1, <2>1, SetsAssumption DEF IInv, TablesInv
    <3> QED BY <1>1, <2>1, <3>1 DEF IInv, TypeOK, WaiterAccounted, Waits, Held
  <2> QED BY <2>2, <2>3, <2>4, <2>5, <2>6 DEF IInv
<1> QED BY <1>2, <1>3

LEMMA ReportOnStep == ASSUME IInv, NEW w \in Callers, ReportOn(w) PROVE IInv'
<1>1. PICK r \in {"ok", "err"} : CommandOf(w) # "Dial" /\ Report(w, r)
  BY DEF ReportOn, RequestOutcome, ProvidingStarted, ProvidersFound,
     RecordOutcome, StreamResponse
<1> QED BY <1>1, ReportStep

\* An operation that is ignored leaves its sender in its table.
LEMMA IgnoreStep == ASSUME IInv, NEW w, Ignore(w) PROVE IInv'
<1>1. TypeOK'
  BY DEF IInv, TypeOK, Ignore, callVars, netVars, hVars
<1>2. EventAccounted'
  BY EventFrame DEF IInv, Ignore, netVars
<1>3. QueueInv' /\ TablesInv' /\ WaiterAccounted' /\ StillPending'
  BY DEF IInv, QueueInv, TablesInv, WaiterAccounted, Waits, Held, StillPending,
     Ignore, callVars, netVars, hVars
<1> QED BY <1>1, <1>2, <1>3 DEF IInv

\* A call that is being dialled for is in no other table and in no other
\* peer's entry.
LEMMA DialOutcomeStep == ASSUME IInv, NEW p \in Peers, DialOutcome(p) PROVE IInv'
<1> DEFINE c == dialing[p]
<1>1. /\ net = "select" /\ c # None /\ c \in Calls
      /\ dialing' = [dialing EXCEPT ![p] = None]
      /\ UNCHANGED <<st, op, peer, cmd, cmdQ, netVars, pending, inflight, hVars>>
  BY DEF DialOutcome, IInv, TypeOK
<1>2. PICK r \in {"ok", "err"} : reply' = [reply EXCEPT ![c] = r]
  BY DEF DialOutcome, Answer
<1>3. c \notin pending /\ \A q \in Peers : dialing[q] = c => q = p
  BY <1>1 DEF IInv, TablesInv
<1>4. st[c] = "waiting" /\ reply[c] = "none"
  BY <1>1 DEF IInv, WaiterAccounted, Waits, Held
<1> HIDE DEF c
<1>5. TypeOK'
  BY <1>1, <1>2 DEF IInv, TypeOK, Replies, netVars, hVars
<1>6. EventAccounted'
  BY <1>1, EventFrame DEF IInv, netVars
<1>7. QueueInv'
  BY <1>1, <1>2, <1>4 DEF IInv, TypeOK, QueueInv, netVars, hVars
<1>8. TablesInv' /\ StillPending'
  BY <1>1 DEF IInv, TypeOK, TablesInv, StillPending, netVars, hVars
<1>9. WaiterAccounted'
  <2>1. c = dialing[p]
    BY DEF c
  <2> QED BY <1>1, <1>2, <1>3, <1>4, <2>1, SetsAssumption
             DEF IInv, TypeOK, WaiterAccounted, Waits, Held, netVars
<1> QED BY <1>5, <1>6, <1>7, <1>8, <1>9 DEF IInv

-----------------------------------------------------------------------------
(* The request handler.                                                    *)

\* What holds when the handler pops an event.
Taken(e) ==
    /\ hpc = "recv" /\ hcur = None /\ est[e] = "forwarded"
    /\ \A x \in Events : est[x] # "handling"
    /\ e \in Inbound => net = "forward" /\ netReq = e
    /\ Tail(evQ) \in Seq(Events) /\ Once(Tail(evQ))
    /\ \A y \in Events :
         InQueue(y, Tail(evQ)) <=> est[y] = "forwarded" /\ y # e

LEMMA TakeEvent == ASSUME IInv, NEW e \in Events, Take(e) PROVE Taken(e)
<1>1. hpc = "recv" /\ evQ # <<>> /\ Head(evQ) = e
  BY DEF Take
<1>2. /\ hcur = None /\ evQ \in Seq(Events) /\ Once(evQ)
      /\ \A y \in Events : InQueue(y, evQ) <=> est[y] = "forwarded"
      /\ \A x \in Events : est[x] = "handling" <=> hcur = x
      /\ e \in Inbound =>
           (est[e] = "forwarded" <=> net = "forward" /\ netReq = e)
  BY <1>1 DEF IInv, TypeOK, EventAccounted
<1>3. /\ Tail(evQ) \in Seq(Events) /\ Once(Tail(evQ)) /\ InQueue(e, evQ)
      /\ \A y : InQueue(y, Tail(evQ)) <=> InQueue(y, evQ) /\ y # e
  BY <1>1, <1>2, TailQueue
<1>4. \A x \in Events : x # None
  BY SetsAssumption
<1> QED BY <1>1, <1>2, <1>3, <1>4 DEF Taken

\* The handler turns to a command: it was not in the command channel.
LEMMA SendCommandQueue ==
    ASSUME IInv, net # "dead", net' # "dead", hpc = "recv",
           net = "stuck" => net' = "stuck",
           NEW pc \in {"respond", "provide", "stop"}, hpc' = pc,
           cmdQ' = Append(cmdQ, Handler),
           UNCHANGED <<callVars, tables, why>>
    PROVE  /\ cmdQ' \in Seq(Callers)
           /\ QueueInv' /\ TablesInv' /\ WaiterAccounted' /\ StillPending'
<1>1. /\ cmdQ \in Seq(Callers) /\ Handler \in Callers /\ Once(cmdQ)
      /\ ~InQueue(Handler, cmdQ)
  BY DEF IInv, TypeOK, QueueInv, Callers
<1>2. /\ cmdQ' \in Seq(Callers) /\ Once(cmdQ')
      /\ \A y : InQueue(y, cmdQ') <=> InQueue(y, cmdQ) \/ y = Handler
  BY <1>1, AppendQueue
<1>3. QueueInv'
  BY <1>2, SetsAssumption DEF IInv, QueueInv, callVars
<1>4. TablesInv' /\ WaiterAccounted' /\ StillPending'
  BY DEF IInv, TablesInv, WaiterAccounted, Waits, Held, StillPending, callVars, tables
<1> QED BY <1>2, <1>3, <1>4

LEMMA TakeRequestStep ==
    ASSUME IInv, NEW e \in Events, TakeRequest(e) PROVE IInv'
<1>0. e \in RRRequests /\ e \in Inbound /\ e \notin StreamRequests /\ e # None
  BY SetsAssumption DEF TakeRequest, Inbound
<1>1. Taken(e)
  BY TakeEvent DEF TakeRequest
<1>2. /\ net' = "select" /\ netReq' = None /\ hpc' = "respond" /\ hcur' = e
      /\ est' = [est EXCEPT ![e] = "handling"] /\ evQ' = Tail(evQ)
      /\ cmdQ' = Append(cmdQ, Handler)
      /\ UNCHANGED <<callVars, why, tables, closed>>
  BY <1>0 DEF TakeRequest, Take, Released, SendCommand
<1>3. /\ cmdQ' \in Seq(Callers)
      /\ QueueInv' /\ TablesInv' /\ WaiterAccounted' /\ StillPending'
  BY <1>0, <1>1, <1>2, SendCommandQueue DEF Taken
<1>4. TypeOK'
  BY <1>0, <1>1, <1>2, <1>3 DEF IInv, TypeOK, Taken, callVars, tables,
     NetStates, HandlerPCs, EventStates
<1>5. EventAccounted'
  BY <1>0, <1>1, <1>2 DEF IInv, TypeOK, EventAccounted, Taken, Events
<1> QED BY <1>3, <1>4, <1>5 DEF IInv

LEMMA TakeStreamRequestStep ==
    ASSUME IInv, NEW e \in Events, TakeStreamRequest(e) PROVE IInv'
<1>0. e \in StreamRequests /\ e \in Inbound /\ e # None
  BY SetsAssumption DEF TakeStreamRequest, Inbound
<1>1. Taken(e)
  BY TakeEvent DEF TakeStreamRequest
<1>2. /\ net' = "await" /\ netReq' = e
      /\ est' = [est EXCEPT ![e] = "served"] /\ evQ' = Tail(evQ)
      /\ UNCHANGED <<callVars, why, tables, closed, cmdQ, hpc, hcur>>
  BY <1>0 DEF TakeStreamRequest, Take, Released
<1>3. QueueInv' /\ TablesInv' /\ WaiterAccounted' /\ StillPending'
  BY <1>0, <1>1, <1>2, CallFrame DEF Taken, IInv, StillPending
<1>4. TypeOK'
  BY <1>0, <1>1, <1>2 DEF IInv, TypeOK, Taken, callVars, tables, NetStates,
     EventStates
<1>5. EventAccounted'
  BY <1>0, <1>1, <1>2 DEF IInv, TypeOK, EventAccounted, Taken, Events
<1> QED BY <1>3, <1>4, <1>5 DEF IInv

\* The handler dies while it serves e.  What it held is lost; the network
\* loop keeps the request it is parked on.
LEMMA DeadHandlerEvents ==
    ASSUME IInv, NEW e \in Events, HandlerDies(e),
           \A x \in Events : est[x] = "handling" => x = e,
           UNCHANGED <<callVars, cmdQ, why, tables, closed>>,
           \/ e \in Inbound /\ net = "forward" /\ netReq = e /\ Released(e)
           \/ /\ UNCHANGED <<net, netReq>>
              /\ e \in Inbound => est[e] = "handling"
    PROVE  TypeOK' /\ EventAccounted'
<1>1. /\ hpc' = "dead" /\ hcur' = None /\ evQ' = <<>>
      /\ est' = [x \in Events |->
                   IF x = e \/ (x \in Locals /\ est[x] = "forwarded")
                   THEN "lost" ELSE est[x]]
  BY DEF HandlerDies
<1>2. TypeOK'
  <2>1. est' \in [Events -> EventStates]
    BY <1>1 DEF IInv, TypeOK, EventStates
  <2>2. /\ net' \in NetStates /\ netReq' \in Inbound \cup {None}
        /\ (netReq' = None) <=> (net' \in {"select", "stuck", "dead"})
    BY SetsAssumption DEF IInv, TypeOK, Released, NetStates, Events
  <2> QED BY <1>1, <2>1, <2>2 DEF IInv, TypeOK, callVars, tables, HandlerPCs
<1>3. EventAccounted'
  <2>1. \A x \in Events : est'[x] # "handling" /\ hcur' # x
    BY <1>1, SetsAssumption
  <2>2. \A r \in Inbound :
          /\ est'[r] = "forwarded" <=> net' = "forward" /\ netReq' = r
          /\ est'[r] = "served" => net' = "await" /\ netReq' = r
    <3> TAKE r \in Inbound
    <3>1. r \in Events /\ r \notin Locals
      BY SetsAssumption DEF Events
    <3>2. /\ est[r] = "forwarded" <=> net = "forward" /\ netReq = r
          /\ est[r] = "served" => net = "await" /\ netReq = r
      BY DEF IInv, EventAccounted
    <3>3. est'[r] = IF r = e THEN "lost" ELSE est[r]
      BY <1>1, <3>1
    <3> QED BY <3>2, <3>3 DEF Released
  <2> QED BY <1>1, <2>1, <2>2, EmptyQueue DEF EventAccounted
<1> QED BY <1>2, <1>3

\* The same when it dies of an event it has just popped.
LEMMA HandlerDiesStep ==
    ASSUME IInv, NEW e \in Events, Taken(e), HandlerDies(e),
           UNCHANGED <<callVars, cmdQ, why, tables, closed>>,
           \/ e \in Inbound /\ Released(e)
           \/ e \notin Inbound /\ UNCHANGED <<net, netReq>>
    PROVE  IInv'
<1>1. TypeOK' /\ EventAccounted'
  BY DeadHandlerEvents DEF Taken
<1>2. net = "dead" => net' = "dead"
  BY DEF Taken, Released
<1>3. QueueInv' /\ TablesInv' /\ WaiterAccounted' /\ StillPending'
  BY <1>2, CallFrame DEF Taken, HandlerDies, IInv, StillPending
<1> QED BY <1>1, <1>3 DEF IInv

LEMMA TakeLocalStep ==
    ASSUME IInv, NEW e \in Events, TakeLocal(e) PROVE IInv'
<1>0. e \in Locals /\ e \notin Inbound /\ e # None
  BY SetsAssumption DEF TakeLocal
<1>1. Taken(e)
  BY TakeEvent DEF TakeLocal
<1>2. UNCHANGED <<callVars, why, tables, closed, net, netReq>>
  BY <1>0 DEF TakeLocal, Take
<1>3. CASE /\ est' = [est EXCEPT ![e] = "answered"] /\ evQ' = Tail(evQ)
           /\ UNCHANGED <<cmdQ, hpc, hcur>>
  <2>1. QueueInv' /\ TablesInv' /\ WaiterAccounted' /\ StillPending'
    BY <1>2, <1>3, CallFrame DEF IInv, StillPending
  <2>2. TypeOK'
    BY <1>1, <1>2, <1>3 DEF IInv, TypeOK, Taken, callVars, tables, EventStates
  <2>3. EventAccounted'
    BY <1>0, <1>1, <1>2, <1>3 DEF IInv, TypeOK, EventAccounted, Taken, Events
  <2> QED BY <2>1, <2>2, <2>3 DEF IInv
<1>4. ASSUME net # "dead", NEW pc \in Effects \ {"quiet"}, SendCommand(pc, e)
      PROVE  IInv'
  <2>1. /\ hpc' = pc /\ hcur' = e /\ pc \in {"respond", "provide", "stop"}
        /\ est' = [est EXCEPT ![e] = "handling"] /\ evQ' = Tail(evQ)
        /\ cmdQ' = Append(cmdQ, Handler)
    BY <1>4, EffectsAssumption DEF SendCommand, AllEffects
  <2>2. /\ cmdQ' \in Seq(Callers)
        /\ QueueInv' /\ TablesInv' /\ WaiterAccounted' /\ StillPending'
    BY <1>1, <1>2, <1>4, <2>1, SendCommandQueue DEF Taken
  <2>3. TypeOK'
    BY <1>0, <1>1, <1>2, <2>1, <2>2 DEF IInv, TypeOK, Taken, callVars, tables,
       HandlerPCs, EventStates
  <2>4. EventAccounted'
    BY <1>0, <1>1, <1>2, <2>1 DEF IInv, TypeOK, EventAccounted, Taken, Events
  <2> QED BY <2>2, <2>3, <2>4 DEF IInv
<1>5. CASE HandlerDies(e) /\ UNCHANGED cmdQ
  BY <1>0, <1>1, <1>2, <1>5, HandlerDiesStep DEF Taken, IInv, StillPending
<1> QED BY <1>3, <1>4, <1>5 DEF TakeLocal

LEMMA HandlerPanicStep ==
    ASSUME IInv, NEW e \in Events, HandlerPanic(e) PROVE IInv'
<1>1. Taken(e) /\ HandlerDies(e)
  BY TakeEvent DEF HandlerPanic
<1>2. UNCHANGED <<callVars, cmdQ, why, tables, closed>>
  BY DEF HandlerPanic, Take
<1>3. CASE e \in Inbound
  <2>1. Released(e)
    BY <1>3 DEF HandlerPanic, Take
  <2> QED BY <1>1, <1>2, <1>3, <2>1, HandlerDiesStep DEF Taken, IInv, StillPending
<1>4. CASE e \notin Inbound
  <2>1. UNCHANGED <<net, netReq>>
    BY <1>4 DEF HandlerPanic, Take
  <2> QED BY <1>1, <1>2, <1>4, <2>1, HandlerDiesStep DEF Taken, IInv, StillPending
<1> QED BY <1>3, <1>4

LEMMA HandlerAbandonedStep == ASSUME IInv, HandlerAbandoned PROVE IInv'
<1>1. /\ net = "dead" /\ hpc \notin {"recv", "dead"} /\ hcur # None
      /\ hcur \in Events /\ est[hcur] = "handling"
      /\ UNCHANGED <<callVars, cmdQ, net, netReq, why, tables, closed>>
  BY DEF IInv, TypeOK, EventAccounted, HandlerAbandoned, netVars
<1>2. QueueInv' /\ TablesInv' /\ WaiterAccounted' /\ StillPending'
  BY <1>1 DEF IInv, QueueInv, TablesInv, WaiterAccounted, StillPending
<1>3. CASE hpc \in {"respond", "stop"}
  <2>1. PICK x \in {"answered", "lost"} :
          /\ est' = [est EXCEPT ![hcur] = x]
          /\ hpc' = "recv" /\ hcur' = None /\ evQ' = evQ
    BY <1>3 DEF HandlerAbandoned
  <2>2. TypeOK'
    BY <1>1, <2>1 DEF IInv, TypeOK, callVars, tables, HandlerPCs, EventStates
  <2>3. EventAccounted'
    BY <1>1, <2>1, SetsAssumption DEF IInv, TypeOK, EventAccounted, Events
  <2> QED BY <1>2, <2>2, <2>3 DEF IInv
<1>4. CASE hpc \notin {"respond", "stop"}
  <2>1. HandlerDies(hcur)
    BY <1>4 DEF HandlerAbandoned
  <2>2. \A x \in Events : est[x] = "handling" => x = hcur
    BY DEF IInv, EventAccounted
  <2> QED BY <1>1, <1>2, <2>1, <2>2, DeadHandlerEvents DEF IInv
<1> QED BY <1>3, <1>4

-----------------------------------------------------------------------------
\* Every step preserves the inductive invariant.
LEMMA NextIInv == ASSUME IInv, [Next]_vars PROVE IInv'
<1>1. ASSUME NEW c \in Calls, Issue(c) \/ CallStep(c) PROVE IInv'
  BY <1>1, IssueStep, SendInStreamStep, ReturnStep DEF CallStep
<1>2. ASSUME NEW l \in Locals, SendLocal(l) PROVE IInv'
  BY <1>2, SendLocalStep
<1>3. ASSUME NEW r \in Inbound, InboundRequest(r) \/ InboundStream(r)
      PROVE  IInv'
  BY <1>3, ForwardStep DEF InboundRequest, InboundStream
<1>4. CASE NetStep
  <2>1. CASE HandleCommand
    BY <2>1, CallCommandStep, CmdRespondStep, CmdHandlerProvideStep,
       CmdHandlerStopStep DEF HandleCommand
  <2> QED BY <1>4, <2>1, ReportOnStep, DialOutcomeStep,
             SendStreamResponseStep, ForwardReleasedStep, AwaitDroppedStep
             DEF NetStep
<1>5. CASE NetFault
  BY <1>5, InboundStreamUnreadableStep, InboundStreamStallsStep, IgnoreStep, CloseChannelStep
     DEF NetFault, ProvidingFailed, NoProvidersFound, StreamUnanswered
<1>6. CASE HandlerStep
  BY <1>6, TakeRequestStep, TakeStreamRequestStep, TakeLocalStep,
     HandlerAbandonedStep DEF HandlerStep
<1>7. ASSUME NEW e \in Events, HandlerPanic(e) PROVE IInv'
  BY <1>7, HandlerPanicStep
<1>8. CASE UNCHANGED vars
  <2>1. UNCHANGED <<callVars, cmdQ, netVars, tables, hVars>>
    BY <1>8 DEF vars
  <2>2. TypeOK'
    BY <2>1 DEF IInv, TypeOK, callVars, netVars, tables, hVars
  <2>3. EventAccounted'
    BY <2>1, EventFrame DEF IInv, netVars
  <2>4. QueueInv' /\ TablesInv' /\ WaiterAccounted' /\ StillPending'
    BY <2>1, CallFrame DEF IInv, StillPending, netVars, hVars
  <2> QED BY <2>2, <2>3, <2>4 DEF IInv
<1> QED BY <1>1, <1>2, <1>3, <1>4, <1>5, <1>6, <1>7, <1>8 DEF Next, Inbound

\* The inductive invariant holds in every reachable state.
THEOREM InductiveInvariant == Spec => []IInv
<1>1. Init => IInv
  BY InitIInv
<1>2. IInv /\ [Next]_vars => IInv'
  BY NextIInv
<1> QED BY <1>1, <1>2, PTL DEF Spec

\* Type correctness of the two loops and their channels.
THEOREM TypeCorrect == Spec => []TypeOK
<1>1. IInv => TypeOK
  BY DEF IInv
<1> QED BY <1>1, InductiveInvariant, PTL

\* For every number of callers and peers, and under every fault: while the
\* network loop lives, the calls that wait are exactly those whose oneshot
\* sender is in a pending_* table.
THEOREM WaitersAccounted == Spec => []WaiterAccounted
<1>1. IInv => WaiterAccounted
  BY DEF IInv
<1> QED BY <1>1, InductiveInvariant, PTL

\* Every event is in exactly one place, and the network loop waits on the one
\* inbound request that is under way.
THEOREM EventsAccounted == Spec => []EventAccounted
<1>1. IInv => EventAccounted
  BY DEF IInv
<1> QED BY <1>1, InductiveInvariant, PTL

\* The expects of the event loop on its pending_* tables never fail.
THEOREM PendingExpectsHold == Spec => []StillPending
<1>1. IInv => StillPending
  BY DEF IInv
<1> QED BY <1>1, InductiveInvariant, PTL
=============================================================================
