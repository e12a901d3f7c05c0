-------------------------------- MODULE Tunnel --------------------------------
(***************************************************************************)
(* One CONNECT request through the two proxies, and the tunnel it opens.   *)
(*                                                                         *)
(*     application  <->  ProxyClient  <->  ProxyProvider  <->  origin      *)
(*          "A"             "C"               "P"               "O"        *)
(*                                                                         *)
(* Each arrow is a TCP connection: two links with a buffer of bounded      *)
(* size.  Both proxies run custom_copy_bidirectional, one loop that reads  *)
(* from either side and awaits the write to the other side inside it.      *)
(***************************************************************************)
EXTENDS Naturals, Sequences, SequencesExt

CONSTANTS
    N,       \* how many chunks each endpoint sends at most
    NFree,   \* how many an origin that does not wait for its turn sends at most
    Cap,     \* how many chunks a link buffers
    Rows,    \* what the provider's table may hold for the client's token
    Styles,  \* how the origin talks: in "turns" (an answer to each chunk) or "free"
    None

ASSUME TunnelAssumption ==
    /\ N \in Nat \ {0} /\ NFree \in 0..N /\ Cap \in Nat \ {0}
    /\ Rows \subseteq {"active", "absent", "terminatedByClient", "terminatedByServer"}
    /\ Styles \subseteq {"turns", "free"}
    /\ None \notin [to : {"A", "C", "P", "O"}, chunk : 1..N]

Hops      == {"C", "P"}
Endpoints == {"A", "O"}
Links     == {<<"A", "C">>, <<"C", "A">>, <<"C", "P">>, <<"P", "C">>,
              <<"P", "O">>, <<"O", "P">>}
Rev(l)    == <<l[2], l[1]>>
Left(h)   == IF h = "C" THEN "A" ELSE "C"
Right(h)  == IF h = "C" THEN "P" ELSE "O"
Other(h, x) == IF x = Left(h) THEN Right(h) ELSE Left(h)
Proxy(e)  == IF e = "A" THEN "C" ELSE "P"

\* The heads of the provider's responses, by their status; no chunk has such a number.
OK         == N + 200
BadRequest == N + 400
BadGateway == N + 502
Heads      == {OK, BadRequest, BadGateway}

VARIABLES
    q,       \* what each link has buffered: chunks, and the head of the provider's response
    wr,      \* the links whose writer's end is open
    rd,      \* the links whose reader's end is open
    pc,      \* where the handler of each proxy is
    hold,    \* the chunk each copy loop has read and not yet written, and where it goes
    row,     \* the status of the client's row at the provider
    style,
    answer,  \* what the application was answered
    sent,    \* how many chunks each endpoint has sent
    got      \* the chunks each endpoint has received

ends == <<row, style, sent, got>>
vars == <<q, wr, rd, pc, hold, answer, ends>>

TypeOK ==
    /\ q \in [Links -> Seq((1..N) \cup Heads)]
    /\ wr \subseteq Links /\ rd \subseteq Links
    /\ pc \in [Hops -> {"idle", "connect", "head", "serve", "upgrade", "copy",
                        "refused", "done", "dead"}]
    /\ hold \in [Hops -> [to : Endpoints \cup Hops, chunk : 1..N] \cup {None}]
    /\ row \in Rows /\ style \in Styles
    /\ answer \in {"none", "200", "502"}
    /\ sent \in [Endpoints -> 0..N]
    /\ got \in [Endpoints -> Seq(1..N)]

\* The application has connected to the client proxy and has sent its CONNECT request.
Init ==
    /\ q = [l \in Links |-> <<>>]
    /\ wr = {<<"A", "C">>, <<"C", "A">>} /\ rd = wr
    /\ pc = [h \in Hops |-> IF h = "C" THEN "connect" ELSE "idle"]
    /\ hold = [h \in Hops |-> None]
    /\ row \in Rows /\ style \in Styles
    /\ answer = "none"
    /\ sent = [e \in Endpoints |-> 0]
    /\ got = [e \in Endpoints |-> <<>>]

(***************************************************************************)
(* TCP, as the code uses it.                                               *)
(***************************************************************************)
IsChunk(x) == x \notin Heads
Room(l)    == Len(SelectSeq(q[l], IsChunk)) < Cap

\* A link whose writer has closed it and whose buffer is empty: read returns 0, or a reset.
AtEnd(l) == l \notin wr /\ q[l] = <<>>

\* A write to a connection the other side has dropped is lost; the reset it provokes may cost
\* what was still under way in the other direction.
Put(l, x) ==
    \/ /\ l \in rd /\ Room(l)
       /\ q' = [q EXCEPT ![l] = Append(@, x)]
    \/ /\ l \notin rd
       /\ \E rest \in Prefixes(q[Rev(l)]) : q' = [q EXCEPT ![Rev(l)] = rest]

Connect(l) == wr' = wr \cup {l, Rev(l)} /\ rd' = rd \cup {l, Rev(l)}

\* The sockets at the near end of the links out are dropped.  What they have not read is lost, and then
\* the connection is reset: of what they have written any prefix may still arrive.
Drop(out) ==
    /\ wr' = wr \ out
    /\ rd' = rd \ {Rev(l) : l \in out}
    /\ \E keep \in [out -> 0..(Cap + 1)] :
        /\ \A l \in out : \/ keep[l] = Len(q[l])
                          \/ keep[l] < Len(q[l]) /\ q[Rev(l)] # <<>>
        /\ q' = [l \in Links |-> IF l \in out THEN SubSeq(q[l], 1, keep[l])
                                 ELSE IF Rev(l) \in out THEN <<>> ELSE q[l]]

\* A proxy's handler or tunnel ends: both its streams go out of scope.
End(h, state) ==
    /\ pc' = [pc EXCEPT ![h] = state]
    /\ hold' = [hold EXCEPT ![h] = None]
    /\ Drop({l \in Links : l[1] = h})
    /\ UNCHANGED <<answer, ends>>

(***************************************************************************)
(* The handlers of the CONNECT request.                                    *)
(***************************************************************************)
\* ProxyClient's handle_http_connect_request answers the application, once connect_to_proxy has returned.
Answer(status) ==
    /\ answer' = status
    /\ pc' = [pc EXCEPT !["C"] = IF status = "200" THEN "upgrade" ELSE "refused"]

\* connect_to_proxy, up to the request it writes, which the provider's server takes up; or connecting or
\* writing fails.
DialProxy ==
    /\ pc["C"] = "connect"
    /\ \/ /\ pc' = [pc EXCEPT !["C"] = "head", !["P"] = "serve"]
          /\ Connect(<<"C", "P">>)
          /\ UNCHANGED answer
       \/ Answer("502") /\ UNCHANGED <<wr, rd>>
    /\ UNCHANGED <<q, hold, ends>>

Terminated == {"terminatedByClient", "terminatedByServer"}

\* A mistake: any token is let in.
ValidatedAlways == TRUE

\* validate_auth_token: the token has a row, and its status is none of the two terminated ones.
Validated == row # "absent" /\ row \notin Terminated

Respond(head) ==
    /\ Put(<<"P", "C">>, head)
    /\ pc' = [pc EXCEPT !["P"] = IF head = OK THEN "upgrade" ELSE "refused"]

\* ProxyProvider's handle_http_connect_request: the origin can be reached or it cannot.
ConnectOrigin ==
    \/ Respond(OK) /\ Connect(<<"P", "O">>)
    \/ Respond(BadGateway) /\ UNCHANGED <<wr, rd>>

\* ProxyProvider's handle_request.
Serve ==
    /\ pc["P"] = "serve"
    /\ \/ Validated /\ ConnectOrigin
       \/ ~Validated /\ Respond(BadRequest) /\ UNCHANGED <<wr, rd>>
    /\ UNCHANGED <<hold, answer, ends>>

\* A mistake: the head is looked at and left in the stream.
ReadHeadPeeks ==
    /\ pc["C"] = "head"
    /\ q[<<"P", "C">>] # <<>>
    /\ Answer(IF Head(q[<<"P", "C">>]) = OK THEN "200" ELSE "502")
    /\ UNCHANGED <<q, wr, rd, hold, ends>>

\* read_stream_to_end: one read takes the head and any number of the chunks behind it, which are dropped
\* with it.  Anything but a 200 drops the connection to the provider.
ReadHead ==
    /\ pc["C"] = "head"
    /\ q[<<"P", "C">>] # <<>>
    /\ \/ /\ Head(q[<<"P", "C">>]) = OK
          /\ \E n \in 1..Len(q[<<"P", "C">>]) :
                q' = [q EXCEPT ![<<"P", "C">>] = SubSeq(@, n + 1, Len(@))]
          /\ Answer("200")
          /\ UNCHANGED <<wr, rd>>
       \/ /\ Head(q[<<"P", "C">>]) # OK
          /\ Drop({<<"C", "P">>})
          /\ Answer("502")
    /\ UNCHANGED <<hold, ends>>

\* The read of the head fails, and its expect ends the connection of the application.  An end of stream
\* is no failure: the loop reads 0 bytes again and again, which is no step.
HeadReset ==
    /\ pc["C"] = "head"
    /\ AtEnd(<<"P", "C">>)
    /\ End("C", "dead")

\* hyper::upgrade::on: fails only when the other side has gone.
Upgrade(h) ==
    /\ pc[h] = "upgrade"
    /\ \/ /\ pc' = [pc EXCEPT ![h] = "copy"]
          /\ UNCHANGED <<q, wr, rd, hold, answer, ends>>
       \/ /\ <<h, Left(h)>> \notin rd
          /\ End(h, "done")

(***************************************************************************)
(* custom_copy_bidirectional.                                              *)
(***************************************************************************)
\* A mistake: a read is taken up while a write is still under way.
CopyReadWhileWriting(h, x) ==
    /\ pc[h] = "copy"
    /\ q[<<x, h>>] # <<>>
    /\ hold' = [hold EXCEPT ![h] = [to |-> Other(h, x), chunk |-> Head(q[<<x, h>>])]]
    /\ q' = [q EXCEPT ![<<x, h>>] = Tail(@)]
    /\ UNCHANGED <<wr, rd, pc, answer, ends>>

\* One of the two reads of the select is ready.
CopyRead(h, x) ==
    /\ pc[h] = "copy" /\ hold[h] = None
    /\ q[<<x, h>>] # <<>>
    /\ hold' = [hold EXCEPT ![h] = [to |-> Other(h, x), chunk |-> Head(q[<<x, h>>])]]
    /\ q' = [q EXCEPT ![<<x, h>>] = Tail(@)]
    /\ UNCHANGED <<wr, rd, pc, answer, ends>>

\* A mistake: the end of the remote stream is not noticed.
CopyEndOfClient(h, x) ==
    /\ pc[h] = "copy" /\ hold[h] = None
    /\ x = Left(h) /\ AtEnd(<<x, h>>)
    /\ End(h, "done")

\* A mistake: the loop ends as soon as the other side has closed, before its last words are read.
CopyEndEarly(h, x) ==
    /\ pc[h] = "copy" /\ hold[h] = None
    /\ <<x, h>> \notin wr
    /\ End(h, "done")

\* It returns 0 or an error: the loop ends.  The future of shutdown() is dropped and does nothing.
CopyEnd(h, x) ==
    /\ pc[h] = "copy" /\ hold[h] = None
    /\ AtEnd(<<x, h>>)
    /\ End(h, "done")

\* A mistake: write in place of write_all, which may leave the chunk unwritten.
CopyWriteSome(h) ==
    /\ hold[h] # None
    /\ Put(<<h, hold[h].to>>, hold[h].chunk) \/ UNCHANGED q
    /\ hold' = [hold EXCEPT ![h] = None]
    /\ UNCHANGED <<wr, rd, pc, answer, ends>>

\* write_all, awaited before the next select.
CopyWrite(h) ==
    /\ hold[h] # None
    /\ Put(<<h, hold[h].to>>, hold[h].chunk)
    /\ hold' = [hold EXCEPT ![h] = None]
    /\ UNCHANGED <<wr, rd, pc, answer, ends>>

CopyWriteFails(h) ==
    /\ hold[h] # None
    /\ <<h, hold[h].to>> \notin rd
    /\ End(h, "done")

\* The node of a proxy goes down, or its runtime drops this one handler: hyper
\* does so with the client's when the application leaves before its answer.
Dies(h) ==
    /\ pc[h] \in {"connect", "head", "serve", "upgrade", "copy"}
    /\ End(h, "dead")

(***************************************************************************)
(* The two endpoints.                                                      *)
(***************************************************************************)
\* The origin has an answer to write.
Owes == sent["O"] < Len(got["O"]) /\ <<"O", "P">> \in wr

Speaks(e) ==
    IF e = "A" THEN answer = "200"
    ELSE (style = "free" /\ sent["O"] < NFree) \/ (style = "turns" /\ Owes)

Send(e) ==
    /\ Speaks(e) /\ sent[e] < N
    /\ <<e, Proxy(e)>> \in wr
    /\ sent' = [sent EXCEPT ![e] = @ + 1]
    /\ Put(<<e, Proxy(e)>>, sent[e] + 1)
    /\ UNCHANGED <<wr, rd, pc, hold, answer, row, style, got>>

\* An origin that talks in turns writes its answer before it reads on.
Receive(e) ==
    LET l == <<Proxy(e), e>> IN
    /\ l \in rd /\ q[l] # <<>>
    /\ e = "O" /\ style = "turns" => ~Owes
    /\ got' = [got EXCEPT ![e] = Append(@, Head(q[l]))]
    /\ q' = [q EXCEPT ![l] = Tail(@)]
    /\ UNCHANGED <<wr, rd, pc, hold, answer, row, style, sent>>

\* It ends its own direction and goes on reading.
HalfClose(e) ==
    /\ <<e, Proxy(e)>> \in wr
    /\ e = "A" => answer = "200"
    /\ wr' = wr \ {<<e, Proxy(e)>>}
    /\ UNCHANGED <<q, rd, pc, hold, answer, ends>>

Leave(e) ==
    /\ <<Proxy(e), e>> \in rd
    /\ e = "A" => answer = "200"
    /\ Drop({<<e, Proxy(e)>>})
    /\ UNCHANGED <<pc, hold, answer, ends>>

(***************************************************************************)
(* The specification.                                                      *)
(***************************************************************************)
\* One branch of the select.
CopyFrom(h, x) == CopyRead(h, x) \/ CopyEnd(h, x)

CopyStep(h) ==
    \/ CopyFrom(h, Left(h)) \/ CopyFrom(h, Right(h))
    \/ CopyWrite(h) \/ CopyWriteFails(h)

Next ==
    \/ DialProxy \/ Serve \/ ReadHead \/ HeadReset
    \/ \E h \in Hops : Upgrade(h) \/ CopyStep(h) \/ Dies(h)
    \/ \E e \in Endpoints : Send(e) \/ Receive(e) \/ HalfClose(e) \/ Leave(e)

Spec == Init /\ [][Next]_vars

\* The tasks of both proxies are run; select polls its branches in random order, so neither side is
\* passed over for ever.  Both endpoints go on reading, and an origin that owes an answer writes it.
Fairness ==
    /\ WF_vars(DialProxy) /\ WF_vars(Serve) /\ WF_vars(ReadHead)
    /\ \A h \in Hops :
        /\ WF_vars(Upgrade(h)) /\ WF_vars(CopyWrite(h))
        /\ SF_vars(CopyFrom(h, Left(h))) /\ SF_vars(CopyFrom(h, Right(h)))
    /\ \A e \in Endpoints : WF_vars(Receive(e))
    /\ WF_vars(Owes /\ Send("O"))

FairSpec == Spec /\ Fairness

(***************************************************************************)
(* What holds at every moment, as the proofs need it.                      *)
(***************************************************************************)
AC == <<"A", "C">>
CA == <<"C", "A">>
CP == <<"C", "P">>
PC == <<"P", "C">>
PO == <<"P", "O">>
OP == <<"O", "P">>

\* The links that are open at both ends.
Live == rd \cap wr

Dialled   == pc["C"] \in {"head", "upgrade", "copy"}
Tunnelled == pc["P"] \in {"upgrade", "copy"}

\* Which ends of the links are open follows from where the two handlers are.
LinkInv ==
    /\ pc["C"] \notin {"idle", "serve"} /\ pc["P"] \notin {"connect", "head"}
    /\ (CA \in wr <=> pc["C"] \notin {"done", "dead"}) /\ (AC \in rd <=> CA \in wr)
    /\ (CP \in wr <=> Dialled) /\ (PC \in rd <=> Dialled)
    /\ (PC \in wr <=> pc["P"] \in {"serve", "upgrade", "copy", "refused"}) /\ (CP \in rd <=> PC \in wr)
    /\ (PO \in wr <=> Tunnelled) /\ (OP \in rd <=> Tunnelled)
    /\ (AC \in wr => CA \in rd) /\ (OP \in wr => PO \in rd)
    /\ PO \in rd => row = "active" /\ pc["P"] \notin {"idle", "serve", "refused"}

\* The provider is asked before anything is answered, and a loop that holds a chunk copies.
StageInv ==
    /\ pc["C"] = "connect" => pc["P"] = "idle"
    /\ pc["P"] = "idle" => ~Dialled
    /\ pc["C"] \in {"upgrade", "copy"} => answer = "200"
    /\ answer = "200" => pc["C"] \in {"upgrade", "copy", "done", "dead"} /\ pc["P"] \notin {"idle", "serve"}
    /\ \A h \in Hops : hold[h] # None => pc[h] = "copy" /\ hold[h].to \in {Left(h), Right(h)}

\* What the provider has sent behind the head of its response.
Body == IF pc["C"] # "head" THEN q[PC] ELSE IF q[PC] = <<>> THEN <<>> ELSE Tail(q[PC])

\* A head is only ever the first thing the provider sends, and chunks come behind it.
BufferInv ==
    /\ \A l \in Links \ {PC} : q[l] \in Seq(1..N)
    /\ Body \in Seq(1..N)
    /\ \A l \in Links : l \notin rd => q[l] = <<>>
    /\ pc["C"] = "head" /\ q[PC] # <<>> => q[PC][1] \in Heads
    /\ pc["C"] = "head" /\ Tunnelled => q[PC] # <<>>
    /\ pc["P"] \in {"idle", "serve"} => q[PC] = <<>>

\* The chunk that proxy h has in hand for y.
Fwd(h, y) == IF hold[h] # None /\ hold[h].to = y THEN <<hold[h].chunk>> ELSE <<>>

\* Nobody has spoken too early.
EarlyInv ==
    /\ answer # "200" => /\ sent["A"] = 0 /\ CA \in rd /\ AC \in wr
                         /\ \A l \in {AC, CP, PO, CA} : q[l] = <<>>
                         /\ \A e \in Endpoints : got[e] = <<>>
                         /\ Fwd("P", "O") = <<>>
    /\ pc["P"] \in {"idle", "serve", "refused"} => sent["O"] = 0
    /\ style = "turns" => sent["O"] <= Len(got["O"])
    /\ got["O"] # <<>> => row = "active"

\* s goes on from chunk b without gap or repetition.
Run(s, b) == \A i \in 1..Len(s) : s[i] = b + i

\* One direction of the tunnel, from the receiver, who has s1, back along links l2, l4 and l6 to the sender,
\* who has sent n: as far as the links are live, what is in them (s2, s4, s6) and in the hands of the
\* proxies (s3, s5) goes on without gap.
Flow(b, s1, s2, s3, s4, s5, s6, n, l2, l4, l6, live) ==
    /\ Run(s1, b) /\ Run(s2, b + Len(s1)) /\ b + Len(s1) + Len(s2) <= n
    /\ l2 \in live =>
        /\ Run(s3, b + Len(s1) + Len(s2))
        /\ Run(s4, b + Len(s1) + Len(s2) + Len(s3))
        /\ b + Len(s1) + Len(s2) + Len(s3) + Len(s4) <= n
        /\ l4 \in live =>
            /\ Run(s5, b + Len(s1) + Len(s2) + Len(s3) + Len(s4))
            /\ Run(s6, b + Len(s1) + Len(s2) + Len(s3) + Len(s4) + Len(s5))
            /\ b + Len(s1) + Len(s2) + Len(s3) + Len(s4) + Len(s5) + Len(s6) <= n
            /\ l6 \in live => b + Len(s1) + Len(s2) + Len(s3) + Len(s4) + Len(s5) + Len(s6) = n

UpInv ==
    Flow(0, got["O"], q[PO], Fwd("P", "O"), q[CP], Fwd("C", "P"), q[AC], sent["A"],
         PO, CP, AC, Live)

\* The first d chunks of the origin were read with the head.
Down(d) ==
    /\ Flow(d, got["A"], q[CA], Fwd("C", "A"), Body, Fwd("P", "C"), q[OP], sent["O"],
            CA, PC, OP, Live)
    /\ answer # "200" \/ style = "turns" => d = 0

DownInv == \E d \in 0..N : Down(d)

(***************************************************************************)
(* Properties.                                                             *)
(***************************************************************************)
Ended == {"idle", "refused", "done", "dead"}

\* Two parties in write_all towards each other, both buffers full: neither reads, for ever.
Blocked(h, y) == hold[h] # None /\ hold[h].to = y /\ <<h, y>> \in rd /\ ~Room(<<h, y>>)
WriteCycle ==
    \/ Blocked("C", "P") /\ Blocked("P", "C")
    \/ Blocked("P", "O") /\ Owes /\ style = "turns" /\ ~Room(<<"O", "P">>)

\* read_stream_to_end has met the end of the stream before any head.
Spinning == pc["C"] = "head" /\ AtEnd(<<"P", "C">>)

\* Somebody has closed a connection or gone down.
Torn ==
    \/ \E h \in Hops : pc[h] \in {"done", "dead"}
    \/ <<"A", "C">> \notin wr
    \/ pc["P"] \in {"upgrade", "copy"} /\ <<"O", "P">> \notin wr

\* A chunk is under way from the origin to the application.
AnswerUnderWay ==
    \/ \E l \in {<<"O", "P">>, <<"P", "C">>, <<"C", "A">>} : q[l] # <<>>
    \/ \E h \in Hops : hold[h] # None /\ hold[h].to = Left(h)

\* custom_copy_bidirectional: what the origin receives is, from its first chunk on, what the application has
\* sent, in order; and nothing gets there unless the provider validated the token and the application was
\* answered 200 (validate_auth_token, connect_to_proxy).
UpstreamFaithful ==
    /\ got["O"] = [i \in DOMAIN got["O"] |-> i]
    /\ Len(got["O"]) <= sent["A"]
    /\ got["O"] # <<>> => row = "active" /\ answer = "200"

\* What the application receives is without gap or repetition; its beginning is missing only when the origin
\* spoke first, and read_stream_to_end took its words with the head.
DownstreamFaithful ==
    \A i \in DOMAIN got["A"] :
        /\ got["A"][i] = got["A"][1] + i - 1
        /\ got["A"][i] <= sent["O"]
        /\ style = "turns" => got["A"][i] = i

\* While nobody closes, the origin catches up with what the application sends, and the application with what
\* the origin sends into a tunnel that is copying, unless two writers wait for each other.
BothWaysDeliver ==
    /\ TRUE ~> (Len(got["O"]) = sent["A"] \/ Torn \/ WriteCycle)
    /\ (pc["C"] = "copy" /\ AnswerUnderWay) ~>
           ((got["A"] # <<>> /\ Last(got["A"]) = sent["O"]) \/ Torn \/ WriteCycle)

\* Whoever closes or goes down, both proxies give up the tunnel, unless one is caught in a cycle of writers,
\* or spins in read_stream_to_end.
CloseEndsBoth ==
    Torn ~> ((\A h \in Hops : pc[h] \in Ended) \/ WriteCycle \/ Spinning)

\* When an origin that answers in turns closes, the application receives all its answers, unless the
\* application has closed, has more under way to the origin, or a proxy goes down.
OriginCloseDrains ==
    (style = "turns" /\ pc["P"] = "copy" /\ <<"O", "P">> \notin wr) ~>
        (\/ Len(got["A"]) = sent["O"] \/ sent["A"] > Len(got["O"])
         \/ <<"A", "C">> \notin wr \/ \E h \in Hops : pc[h] = "dead")
=============================================================================
