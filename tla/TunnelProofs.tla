---------------------------- MODULE TunnelProofs ----------------------------
(***************************************************************************)
(* What passes the tunnel is in order, for every number of chunks and      *)
(* every size of the buffers.                                              *)
(***************************************************************************)
EXTENDS Tunnel, TLAPS

IInv == TypeOK /\ LinkInv /\ StageInv /\ BufferInv /\ EarlyInv /\ UpInv /\ DownInv

-----------------------------------------------------------------------------
(***************************************************************************)
(* Runs of chunks.                                                         *)
(***************************************************************************)
\* t is what is left of s.
Rest(t, s) ==
    /\ t \in Seq(Nat) /\ Len(t) <= Len(s)
    /\ \A i \in 1..Len(t) : t[i] = s[i]

\* What a reset leaves in a link, and what a socket that is dropped leaves.
LEMMA PrefixRest ==
    ASSUME NEW S, NEW s \in Seq(S), NEW t \in Prefixes(s)
    PROVE  t \in Seq(S) /\ Len(t) <= Len(s) /\ \A i \in 1..Len(t) : t[i] = s[i]
  BY DEF Prefixes

LEMMA SubSeqRest ==
    ASSUME NEW S, NEW s \in Seq(S), NEW k \in 0..Len(s)
    PROVE  LET t == SubSeq(s, 1, k) IN
           t \in Seq(S) /\ Len(t) = k /\ \A i \in 1..k : t[i] = s[i]
  OBVIOUS

LEMMA SeqWiden == ASSUME NEW S, NEW R, S \subseteq R, NEW s \in Seq(S) PROVE s \in Seq(R)
  OBVIOUS

LEMMA SeqRead ==
    ASSUME NEW S, NEW s \in Seq(S), s # <<>>
    PROVE  Head(s) \in S /\ Tail(s) \in Seq(S)
  OBVIOUS

LEMMA SeqWrite ==
    ASSUME NEW S, NEW s \in Seq(S), NEW x \in S
    PROVE  /\ Append(s, x) \in Seq(S) /\ Append(s, x) # <<>>
           /\ Len(Append(s, x)) = Len(s) + 1
  OBVIOUS

\* A run that is empty, goes on, is read, or is cut short.
LEMMA RunEmpty == ASSUME NEW b PROVE Run(<<>>, b)
  BY DEF Run

LEMMA RunAppend ==
    ASSUME NEW s \in Seq(Nat), NEW b \in Nat, Run(s, b)
    PROVE  Run(Append(s, b + Len(s) + 1), b)
  BY DEF Run

LEMMA RunTail ==
    ASSUME NEW s \in Seq(Nat), NEW b \in Nat, Run(s, b), s # <<>>
    PROVE  Head(s) = b + 1 /\ Run(Tail(s), b + 1)
  BY DEF Run

LEMMA RunRest ==
    ASSUME NEW s \in Seq(Nat), NEW t, NEW b \in Nat, Run(s, b), Rest(t, s)
    PROVE  Run(t, b)
  BY DEF Run, Rest

LEMMA RunOne == ASSUME NEW x \in Nat, NEW b \in Nat, x = b + 1 PROVE Run(<<x>>, b)
  BY DEF Run

LEMMA OneRun == ASSUME NEW x \in Nat, NEW b \in Nat, Run(<<x>>, b) PROVE x = b + 1
<1>1. <<x>> \in Seq(Nat) /\ Len(<<x>>) = 1 /\ <<x>>[1] = x
  OBVIOUS
<1> QED BY <1>1 DEF Run

LEMMA SkipRun ==
    ASSUME NEW s \in Seq(Nat), Run(Tail(s), 0), NEW k \in 1..Len(s)
    PROVE  LET t == SubSeq(s, k + 1, Len(s)) IN
           t \in Seq(Nat) /\ Len(t) = Len(s) - k /\ Run(t, k - 1)
<1> DEFINE t == SubSeq(s, k + 1, Len(s))
<1>1. t \in Seq(Nat) /\ Len(t) = Len(s) - k /\ \A i \in 1..Len(t) : t[i] = s[k + i]
  OBVIOUS
<1>2. Len(Tail(s)) = Len(s) - 1 /\ \A j \in 1..(Len(s) - 1) : Tail(s)[j] = s[j + 1]
  OBVIOUS
<1>3. ASSUME NEW i \in 1..Len(t) PROVE t[i] = k - 1 + i
  <2>1. k - 1 + i \in 1..(Len(s) - 1) /\ k + i = (k - 1 + i) + 1
    BY <1>1
  <2>2. Tail(s)[k - 1 + i] = k - 1 + i
    BY <2>1, <1>2 DEF Run
  <2> QED BY <1>1, <1>2, <2>1, <2>2
<1> QED BY <1>1, <1>3 DEF Run

LEMMA RunBound ==
    ASSUME NEW b \in Nat, NEW k \in Nat, NEW m \in Nat, NEW n \in Nat, b + k + m <= n, NEW i \in 0..k
    PROVE  b + i <= n
  OBVIOUS

\* What is read with the head leaves a sequence of what was behind the head.
LEMMA SkipTyped ==
    ASSUME NEW S, NEW R, NEW s \in Seq(S), Tail(s) \in Seq(R), NEW k \in 1..Len(s)
    PROVE  SubSeq(s, k + 1, Len(s)) \in Seq(S) /\ SubSeq(s, k + 1, Len(s)) \in Seq(R)
<1> DEFINE t == SubSeq(s, k + 1, Len(s))
<1>1. t \in Seq(S) /\ Len(t) = Len(s) - k /\ \A i \in 1..Len(t) : t[i] = s[k + i]
  OBVIOUS
<1>2. Len(Tail(s)) = Len(s) - 1 /\ \A j \in 1..(Len(s) - 1) : Tail(s)[j] = s[j + 1]
  OBVIOUS
<1>3. ASSUME NEW i \in 1..Len(t) PROVE t[i] \in R
  <2>1. k - 1 + i \in 1..(Len(s) - 1) /\ k + i = (k - 1 + i) + 1
    BY <1>1
  <2>2. Tail(s)[k - 1 + i] \in R
    BY <2>1, <1>2
  <2> QED BY <1>1, <1>2, <2>1, <2>2
<1>4. t \in Seq(R)
  <2> HIDE DEF t
  <2> QED BY <1>1, <1>3
<1> QED BY <1>1, <1>4

-----------------------------------------------------------------------------
(***************************************************************************)
(* The steps of one direction of the tunnel, upstream or downstream.       *)
(***************************************************************************)
\* Nothing has been sent.
LEMMA FlowEmpty ==
    ASSUME NEW l2, NEW l4, NEW l6, NEW live
    PROVE  Flow(0, <<>>, <<>>, <<>>, <<>>, <<>>, <<>>, 0, l2, l4, l6, live)
  BY RunEmpty DEF Flow

\* The endpoint receives a chunk.
LEMMA FlowReceive ==
    ASSUME NEW s1 \in Seq(Nat), NEW s2 \in Seq(Nat), NEW s3 \in Seq(Nat),
           NEW s4 \in Seq(Nat), NEW s5 \in Seq(Nat), NEW s6 \in Seq(Nat),
           NEW b \in Nat, NEW n \in Nat, NEW l2, NEW l4, NEW l6, NEW live,
           Flow(b, s1, s2, s3, s4, s5, s6, n, l2, l4, l6, live),
           s2 # <<>>
    PROVE  Flow(b, Append(s1, Head(s2)), Tail(s2), s3, s4, s5, s6, n, l2, l4, l6, live)
<1>1. Len(Append(s1, Head(s2))) = Len(s1) + 1 /\ Len(Tail(s2)) = Len(s2) - 1 /\ Len(s2) >= 1
  OBVIOUS
<1>2. Run(Append(s1, Head(s2)), b) /\ Run(Tail(s2), b + Len(s1) + 1)
  BY RunAppend, RunTail DEF Flow
<1>3. /\ b + Len(Append(s1, Head(s2))) = b + Len(s1) + 1
      /\ b + Len(Append(s1, Head(s2))) + Len(Tail(s2)) = b + Len(s1) + Len(s2)
  BY <1>1
<1> QED BY <1>2, <1>3 DEF Flow

\* The proxy next to the endpoint writes the chunk it holds, and reads one.
LEMMA FlowWriteNear ==
    ASSUME NEW s1 \in Seq(Nat), NEW s2 \in Seq(Nat), NEW s3 \in Seq(Nat),
           NEW s4 \in Seq(Nat), NEW s5 \in Seq(Nat), NEW s6 \in Seq(Nat),
           NEW b \in Nat, NEW n \in Nat, NEW l2, NEW l4, NEW l6, NEW live,
           Flow(b, s1, s2, s3, s4, s5, s6, n, l2, l4, l6, live),
           l2 \in live, NEW x \in Nat, s3 = <<x>>
    PROVE  Flow(b, s1, Append(s2, x), <<>>, s4, s5, s6, n, l2, l4, l6, live)
<1>1. Len(Append(s2, x)) = Len(s2) + 1 /\ Len(<<x>>) = 1 /\ Len(<<>>) = 0
  OBVIOUS
<1>2. x = b + Len(s1) + Len(s2) + 1
  <2>1. Run(<<x>>, b + Len(s1) + Len(s2))
    BY DEF Flow
  <2>2. b + Len(s1) + Len(s2) \in Nat
    OBVIOUS
  <2> QED BY <2>1, <2>2, OneRun
<1>3. Run(Append(s2, x), b + Len(s1))
  BY <1>2, RunAppend DEF Flow
<1>4. Run(<<>>, b + Len(s1) + Len(Append(s2, x)))
  BY RunEmpty
<1> QED BY <1>1, <1>3, <1>4 DEF Flow

LEMMA FlowReadNear ==
    ASSUME NEW s1 \in Seq(Nat), NEW s2 \in Seq(Nat), NEW s3 \in Seq(Nat),
           NEW s4 \in Seq(Nat), NEW s5 \in Seq(Nat), NEW s6 \in Seq(Nat),
           NEW b \in Nat, NEW n \in Nat, NEW l2, NEW l4, NEW l6, NEW live,
           Flow(b, s1, s2, s3, s4, s5, s6, n, l2, l4, l6, live),
           s3 = <<>>, s4 # <<>>
    PROVE  Flow(b, s1, s2, <<Head(s4)>>, Tail(s4), s5, s6, n, l2, l4, l6, live)
<1>1. Len(<<Head(s4)>>) = 1 /\ Len(Tail(s4)) = Len(s4) - 1 /\ Len(s4) >= 1 /\ Len(s3) = 0
  OBVIOUS
<1>2. l2 \in live =>
        /\ Head(s4) = b + Len(s1) + Len(s2) + 1
        /\ Run(Tail(s4), b + Len(s1) + Len(s2) + 1)
  BY <1>1, RunTail DEF Flow
<1>3. l2 \in live => Run(<<Head(s4)>>, b + Len(s1) + Len(s2))
  BY <1>2, RunOne
<1>4. /\ b + Len(s1) + Len(s2) + Len(<<Head(s4)>>) = b + Len(s1) + Len(s2) + 1
      /\ b + Len(s1) + Len(s2) + Len(<<Head(s4)>>) + Len(Tail(s4))
           = b + Len(s1) + Len(s2) + Len(s3) + Len(s4)
  BY <1>1
<1> QED BY <1>2, <1>3, <1>4 DEF Flow

\* So does the other proxy.
LEMMA FlowWriteFar ==
    ASSUME NEW s1 \in Seq(Nat), NEW s2 \in Seq(Nat), NEW s3 \in Seq(Nat),
           NEW s4 \in Seq(Nat), NEW s5 \in Seq(Nat), NEW s6 \in Seq(Nat),
           NEW b \in Nat, NEW n \in Nat, NEW l2, NEW l4, NEW l6, NEW live,
           Flow(b, s1, s2, s3, s4, s5, s6, n, l2, l4, l6, live),
           l4 \in live, NEW x \in Nat, s5 = <<x>>
    PROVE  Flow(b, s1, s2, s3, Append(s4, x), <<>>, s6, n, l2, l4, l6, live)
<1>1. Len(Append(s4, x)) = Len(s4) + 1 /\ Len(<<x>>) = 1 /\ Len(<<>>) = 0
  OBVIOUS
<1>2. l2 \in live => x = b + Len(s1) + Len(s2) + Len(s3) + Len(s4) + 1
  BY OneRun DEF Flow
<1>3. l2 \in live => Run(Append(s4, x), b + Len(s1) + Len(s2) + Len(s3))
  BY <1>2, RunAppend DEF Flow
<1>4. Run(<<>>, b + Len(s1) + Len(s2) + Len(s3) + Len(Append(s4, x)))
  BY RunEmpty
<1> QED BY <1>1, <1>3, <1>4 DEF Flow

LEMMA FlowReadFar ==
    ASSUME NEW s1 \in Seq(Nat), NEW s2 \in Seq(Nat), NEW s3 \in Seq(Nat),
           NEW s4 \in Seq(Nat), NEW s5 \in Seq(Nat), NEW s6 \in Seq(Nat),
           NEW b \in Nat, NEW n \in Nat, NEW l2, NEW l4, NEW l6, NEW live,
           Flow(b, s1, s2, s3, s4, s5, s6, n, l2, l4, l6, live),
           s5 = <<>>, s6 # <<>>
    PROVE  Flow(b, s1, s2, s3, s4, <<Head(s6)>>, Tail(s6), n, l2, l4, l6, live)
<1>1. Len(<<Head(s6)>>) = 1 /\ Len(Tail(s6)) = Len(s6) - 1 /\ Len(s6) >= 1 /\ Len(s5) = 0
  OBVIOUS
<1> DEFINE c == b + Len(s1) + Len(s2) + Len(s3) + Len(s4)
<1>2. l2 \in live /\ l4 \in live => Head(s6) = c + 1 /\ Run(Tail(s6), c + 1)
  BY <1>1, RunTail DEF Flow
<1>3. l2 \in live /\ l4 \in live => Run(<<Head(s6)>>, c)
  BY <1>2, RunOne
<1>4. /\ c + Len(<<Head(s6)>>) = c + 1
      /\ c + Len(<<Head(s6)>>) + Len(Tail(s6)) = c + Len(s5) + Len(s6)
  BY <1>1
<1> QED BY <1>2, <1>3, <1>4 DEF Flow

\* The endpoint at the other end sends the next chunk.
LEMMA FlowSend ==
    ASSUME NEW s1 \in Seq(Nat), NEW s2 \in Seq(Nat), NEW s3 \in Seq(Nat),
           NEW s4 \in Seq(Nat), NEW s5 \in Seq(Nat), NEW s6 \in Seq(Nat),
           NEW b \in Nat, NEW n \in Nat, NEW l2, NEW l4, NEW l6, NEW live,
           Flow(b, s1, s2, s3, s4, s5, s6, n, l2, l4, l6, live),
           l6 \in live
    PROVE  Flow(b, s1, s2, s3, s4, s5, Append(s6, n + 1), n + 1, l2, l4, l6, live)
<1>1. Len(Append(s6, n + 1)) = Len(s6) + 1
  OBVIOUS
<1> DEFINE c == b + Len(s1) + Len(s2) + Len(s3) + Len(s4) + Len(s5)
<1>2. l2 \in live /\ l4 \in live => c + Len(s6) = n
  BY DEF Flow
<1>3. l2 \in live /\ l4 \in live => Run(Append(s6, n + 1), c)
  <2>1. l2 \in live /\ l4 \in live => Run(s6, c)
    BY DEF Flow
  <2>2. c \in Nat
    OBVIOUS
  <2> HIDE DEF c
  <2> QED BY <1>2, <2>1, <2>2, RunAppend
<1> QED BY <1>1, <1>2, <1>3 DEF Flow

\* Ends of links are closed and what is in them is lost from behind; what is still written into a
\* connection that is closed is lost too.
Cut(b, s1, s2, s3, s4, s5, s6, n, live, t2, t3, t4, t5, t6, m, live2, l2, l4, l6) ==
    /\ \A s \in {s1, s2, s3, s4, s5, s6} : s \in Seq(Nat)
    /\ b \in Nat /\ n \in Nat
    /\ Flow(b, s1, s2, s3, s4, s5, s6, n, l2, l4, l6, live)
    /\ Rest(t2, s2) /\ m \in Nat /\ n <= m
    /\ l2 \in live2 => l2 \in live /\ t2 = s2 /\ t3 = s3 /\ Rest(t4, s4)
    /\ l2 \in live2 /\ l4 \in live2 => l4 \in live /\ t4 = s4 /\ t5 = s5 /\ Rest(t6, s6)
    /\ l2 \in live2 /\ l4 \in live2 /\ l6 \in live2 => l6 \in live /\ t6 = s6 /\ m = n

LEMMA FlowCut ==
    ASSUME NEW b, NEW s1, NEW s2, NEW s3, NEW s4, NEW s5, NEW s6, NEW n, NEW live,
           NEW t2, NEW t3, NEW t4, NEW t5, NEW t6, NEW m, NEW live2, NEW l2, NEW l4, NEW l6,
           Cut(b, s1, s2, s3, s4, s5, s6, n, live, t2, t3, t4, t5, t6, m, live2, l2, l4, l6)
    PROVE  Flow(b, s1, t2, t3, t4, t5, t6, m, l2, l4, l6, live2)
<1> USE DEF Cut
<1> DEFINE c1 == b + Len(s1)
           c3 == b + Len(s1) + Len(s2) + Len(s3)
           c5 == b + Len(s1) + Len(s2) + Len(s3) + Len(s4) + Len(s5)
<1>1. c1 \in Nat /\ c3 \in Nat /\ c5 \in Nat
  OBVIOUS
<1>2. Run(s2, c1) /\ (l2 \in live2 => Run(s4, c3)) /\ (l2 \in live2 /\ l4 \in live2 => Run(s6, c5))
  BY DEF Flow
<1> HIDE DEF c1, c3, c5
<1>3. Run(t2, c1) /\ (l2 \in live2 => Run(t4, c3)) /\ (l2 \in live2 /\ l4 \in live2 => Run(t6, c5))
  BY <1>1, <1>2, RunRest
<1>4. /\ Len(t2) <= Len(s2) /\ Len(t2) \in Nat
      /\ l2 \in live2 => Len(t4) <= Len(s4) /\ Len(t4) \in Nat
      /\ l2 \in live2 /\ l4 \in live2 => Len(t6) <= Len(s6) /\ Len(t6) \in Nat
  BY DEF Rest
<1>5. CASE l2 \notin live2
  BY <1>3, <1>4, <1>5 DEF Flow, c1
<1>6. CASE l2 \in live2 /\ l4 \notin live2
  BY <1>3, <1>4, <1>6 DEF Flow, c1, c3
<1>7. CASE l2 \in live2 /\ l4 \in live2
  <2>1. t2 = s2 /\ t3 = s3 /\ t4 = s4 /\ t5 = s5 /\ l2 \in live /\ l4 \in live
    BY <1>7
  <2>2. c5 + Len(t6) <= m /\ (l6 \in live2 => c5 + Len(t6) = m)
    <3>1. c5 + Len(s6) <= n /\ (l6 \in live => c5 + Len(s6) = n)
      BY <2>1 DEF Flow, c5
    <3>2. Len(t6) <= Len(s6) /\ Len(t6) \in Nat /\ Len(s6) \in Nat
      BY <1>4, <1>7
    <3>3. l6 \in live2 => l6 \in live /\ t6 = s6 /\ m = n
      BY <1>7
    <3>4. c5 + Len(t6) <= m
      BY <1>1, <3>1, <3>2
    <3>5. l6 \in live2 => c5 + Len(t6) = m
      BY <3>1, <3>3
    <3> QED BY <3>4, <3>5
  <2>3. Flow(b, s1, s2, s3, s4, s5, t6, m, l2, l4, l6, live2)
    BY <1>3, <1>7, <2>1, <2>2 DEF Flow, c1, c3, c5
  <2> QED BY <2>1, <2>3
<1> QED BY <1>5, <1>6, <1>7

\* The first k - 1 chunks are read with the head and dropped with it.
LEMMA FlowSkip ==
    ASSUME NEW s \in Seq(Nat), NEW s5 \in Seq(Nat), NEW s6 \in Seq(Nat), NEW n \in Nat,
           NEW l2, NEW l4, NEW l6, NEW live, NEW k \in 1..Len(s), l2 \in live,
           Flow(0, <<>>, <<>>, <<>>, Tail(s), s5, s6, n, l2, l4, l6, live)
    PROVE  /\ k - 1 \in 0..n
           /\ Flow(k - 1, <<>>, <<>>, <<>>, SubSeq(s, k + 1, Len(s)), s5, s6, n, l2, l4, l6, live)
<1> DEFINE t == SubSeq(s, k + 1, Len(s))
<1>1. Len(Tail(s)) = Len(s) - 1 /\ Len(<<>>) = 0
  OBVIOUS
<1>2. Run(Tail(s), 0) /\ Len(s) - 1 <= n
  BY <1>1 DEF Flow
<1>3. t \in Seq(Nat) /\ Len(t) = Len(s) - k /\ Run(t, k - 1)
  BY <1>2, SkipRun
<1>4. Run(<<>>, k - 1)
  BY RunEmpty
<1> HIDE DEF t
<1>5. /\ 0 + Len(<<>>) = 0 /\ k - 1 + Len(<<>>) = k - 1
      /\ k - 1 + Len(t) = 0 + Len(Tail(s))
  BY <1>1, <1>3
<1>6. Flow(k - 1, <<>>, <<>>, <<>>, t, s5, s6, n, l2, l4, l6, live)
  <2>1. /\ 0 + Len(<<>>) + Len(<<>>) + Len(<<>>) = 0
        /\ k - 1 + Len(<<>>) + Len(<<>>) + Len(<<>>) = k - 1
        /\ k - 1 + Len(<<>>) + Len(<<>>) = k - 1
    BY <1>5
  <2>2. k - 1 <= n /\ k - 1 + Len(t) <= n
    BY <1>2, <1>3
  <2> DEFINE c == 0 + Len(Tail(s))
  <2>3. l4 \in live =>
          /\ Run(s5, c) /\ Run(s6, c + Len(s5)) /\ c + Len(s5) + Len(s6) <= n
          /\ l6 \in live => c + Len(s5) + Len(s6) = n
    BY <2>1 DEF Flow
  <2>4. k - 1 + Len(t) = c
    BY <1>5
  <2> HIDE DEF c
  <2> QED BY <1>3, <1>4, <1>5, <2>1, <2>2, <2>3, <2>4 DEF Flow
<1>7. k - 1 \in 0..n
  BY <1>2
<1> QED BY <1>6, <1>7 DEF t

-----------------------------------------------------------------------------
(***************************************************************************)
(* The links, and what the state holds on the way in each direction.       *)
(***************************************************************************)
LEMMA LinkNames ==
    /\ Links = {AC, CA, CP, PC, PO, OP}
    /\ Rev(AC) = CA /\ Rev(CA) = AC /\ Rev(CP) = PC /\ Rev(PC) = CP /\ Rev(PO) = OP /\ Rev(OP) = PO
    /\ AC # CA /\ AC # CP /\ AC # PC /\ AC # PO /\ AC # OP
    /\ CA # CP /\ CA # PC /\ CA # PO /\ CA # OP
    /\ CP # PC /\ CP # PO /\ CP # OP /\ PC # PO /\ PC # OP /\ PO # OP
  BY DEF Links, Rev, AC, CA, CP, PC, PO, OP

\* The sockets of a proxy, and of an endpoint.
LEMMA Sockets ==
    /\ {l \in Links : l[1] = "C"} = {CA, CP}
    /\ {l \in Links : l[1] = "P"} = {PC, PO}
    /\ <<"A", Proxy("A")>> = AC /\ <<Proxy("A"), "A">> = CA
    /\ <<"O", Proxy("O")>> = OP /\ <<Proxy("O"), "O">> = PO
  BY DEF Links, AC, CA, CP, PC, PO, OP, Proxy

LEMMA SeqNat == ASSUME NEW s \in Seq(1..N) PROVE s \in Seq(Nat)
  BY TunnelAssumption

LEMMA CutRest ==
    ASSUME NEW s \in Seq(1..N), NEW t \in Prefixes(s)
    PROVE  t \in Seq(1..N) /\ Rest(t, s)
  BY PrefixRest, SeqNat DEF Rest

LEMMA SameRest == ASSUME NEW s \in Seq(1..N) PROVE Rest(s, s)
  BY SeqNat DEF Rest

LEMMA EmptyRest == ASSUME NEW s \in Seq(1..N) PROVE Rest(<<>>, s) /\ <<>> \in Seq(1..N)
  BY SeqNat DEF Rest

LEMMA FwdTyped ==
    ASSUME TypeOK, NEW h \in Hops, NEW y
    PROVE  Fwd(h, y) \in Seq(1..N)
<1>1. CASE hold[h] # None /\ hold[h].to = y
  <2>1. hold[h].chunk \in 1..N
    BY <1>1 DEF TypeOK
  <2> QED BY <1>1, <2>1 DEF Fwd
<1>2. CASE ~(hold[h] # None /\ hold[h].to = y)
  <2>1. Fwd(h, y) = <<>>
    BY <1>2 DEF Fwd
  <2>2. <<>> \in Seq(1..N)
    OBVIOUS
  <2> QED BY <2>1, <2>2
<1> QED BY <1>1, <1>2

LEMMA StagesTyped ==
    ASSUME TypeOK, BufferInv
    PROVE  /\ \A l \in {AC, CA, CP, PO, OP} : q[l] \in Seq(1..N) /\ q[l] \in Seq(Nat)
           /\ \A h \in Hops : \A y : Fwd(h, y) \in Seq(1..N) /\ Fwd(h, y) \in Seq(Nat)
           /\ \A e \in Endpoints : got[e] \in Seq(1..N) /\ got[e] \in Seq(Nat) /\ sent[e] \in 0..N /\ sent[e] \in Nat
           /\ Body \in Seq(1..N) /\ Body \in Seq(Nat)
<1>1. \A l \in {AC, CA, CP, PO, OP} : q[l] \in Seq(1..N) /\ q[l] \in Seq(Nat)
  BY LinkNames, SeqNat DEF BufferInv
<1>2. \A h \in Hops : \A y : Fwd(h, y) \in Seq(1..N) /\ Fwd(h, y) \in Seq(Nat)
  BY SeqNat, FwdTyped
<1>3. \A e \in Endpoints : got[e] \in Seq(1..N) /\ got[e] \in Seq(Nat)
  BY SeqNat DEF TypeOK
<1>4. \A e \in Endpoints : sent[e] \in 0..N /\ sent[e] \in Nat
  BY TunnelAssumption DEF TypeOK
<1>5. Body \in Seq(1..N) /\ Body \in Seq(Nat)
  BY SeqNat DEF BufferInv
<1> QED BY <1>1, <1>2, <1>3, <1>4, <1>5

\* The sockets at one end of links are dropped.
LEMMA DropEffect ==
    ASSUME TypeOK, NEW out \in SUBSET Links, Drop(out)
    PROVE  /\ wr' = wr \ out
           /\ \A l \in Links : l \in rd' <=> l \in rd /\ Rev(l) \notin out
           /\ \A l \in out : q'[l] \in Prefixes(q[l])
           /\ \A l \in Links \ out : q'[l] = IF Rev(l) \in out THEN <<>> ELSE q[l]
           /\ q' \in [Links -> Seq((1..N) \cup Heads)]
<1> DEFINE S == (1..N) \cup Heads
<1>1. PICK keep \in [out -> 0..(Cap + 1)] :
        /\ \A l \in out : keep[l] \in 0..Len(q[l])
        /\ q' = [l \in Links |-> IF l \in out THEN SubSeq(q[l], 1, keep[l])
                                 ELSE IF Rev(l) \in out THEN <<>> ELSE q[l]]
  <2>1. \A l \in out : Len(q[l]) \in Nat
    BY DEF TypeOK
  <2>2. Cap \in Nat
    BY TunnelAssumption
  <2>3. PICK keep \in [out -> 0..(Cap + 1)] :
          /\ \A l \in out : keep[l] = Len(q[l]) \/ keep[l] < Len(q[l])
          /\ q' = [l \in Links |-> IF l \in out THEN SubSeq(q[l], 1, keep[l])
                                   ELSE IF Rev(l) \in out THEN <<>> ELSE q[l]]
    BY DEF Drop
  <2>4. ASSUME NEW l \in out PROVE keep[l] \in 0..Len(q[l])
    <3>1. keep[l] \in 0..(Cap + 1)
      OBVIOUS
    <3> QED BY <2>1, <2>2, <2>3, <3>1
  <2> QED BY <2>3, <2>4
<1>2. \A l \in out : q'[l] \in Prefixes(q[l])
  BY <1>1 DEF Prefixes
<1>3. \A l \in Links \ out : q'[l] = IF Rev(l) \in out THEN <<>> ELSE q[l]
  BY <1>1
<1>4. \A l \in Links : q'[l] \in Seq(S)
  <2>1. \A l \in Links : q[l] \in Seq(S)
    BY DEF TypeOK
  <2> HIDE DEF S
  <2>2. <<>> \in Seq(S)
    OBVIOUS
  <2> QED BY <1>2, <1>3, <2>1, <2>2, PrefixRest
<1>5. \A l \in Links : l \in rd' <=> l \in rd /\ Rev(l) \notin out
  <2>1. rd' = rd \ {Rev(l) : l \in out}
    BY DEF Drop
  <2>2. \A l \in Links : Rev(l) \in Links /\ Rev(Rev(l)) = l
    BY LinkNames
  <2> QED BY <2>1, <2>2
<1> QED BY <1>1, <1>2, <1>3, <1>4, <1>5 DEF Drop

\* FlowCut, upstream and downstream.
LEMMA UpCut ==
    ASSUME IInv, got'["O"] = got["O"], Rest(q'[PO], q[PO]),
           sent'["A"] \in Nat, sent["A"] <= sent'["A"],
           PO \in Live' => /\ PO \in Live /\ q'[PO] = q[PO] /\ Fwd("P", "O")' = Fwd("P", "O")
                           /\ Rest(q'[CP], q[CP]),
           PO \in Live' /\ CP \in Live' => /\ CP \in Live /\ q'[CP] = q[CP]
                                           /\ Fwd("C", "P")' = Fwd("C", "P") /\ Rest(q'[AC], q[AC]),
           PO \in Live' /\ CP \in Live' /\ AC \in Live' =>
               AC \in Live /\ q'[AC] = q[AC] /\ sent'["A"] = sent["A"]
    PROVE  UpInv'
<1>1. /\ got["O"] \in Seq(Nat) /\ q[PO] \in Seq(Nat) /\ Fwd("P", "O") \in Seq(Nat)
      /\ q[CP] \in Seq(Nat) /\ Fwd("C", "P") \in Seq(Nat) /\ q[AC] \in Seq(Nat)
      /\ sent["A"] \in Nat
  BY StagesTyped DEF IInv, Hops, Endpoints
<1>2. Flow(0, got["O"], q[PO], Fwd("P", "O"), q[CP], Fwd("C", "P"), q[AC], sent["A"],
           PO, CP, AC, Live)
  BY DEF IInv, UpInv
<1>3. Cut(0, got["O"], q[PO], Fwd("P", "O"), q[CP], Fwd("C", "P"), q[AC], sent["A"], Live,
          q'[PO], Fwd("P", "O")', q'[CP], Fwd("C", "P")', q'[AC], sent'["A"], Live', PO, CP, AC)
  BY <1>1, <1>2 DEF Cut
<1>4. Flow(0, got["O"], q'[PO], Fwd("P", "O")', q'[CP], Fwd("C", "P")', q'[AC], sent'["A"],
           PO, CP, AC, Live')
  BY <1>3, FlowCut
<1> QED BY <1>4 DEF UpInv

LEMMA DownCut ==
    ASSUME IInv, NEW d \in 0..N, Down(d), got'["A"] = got["A"], Rest(q'[CA], q[CA]),
           sent'["O"] \in Nat, sent["O"] <= sent'["O"],
           CA \in Live' => /\ CA \in Live /\ q'[CA] = q[CA] /\ Fwd("C", "A")' = Fwd("C", "A")
                           /\ Rest(Body', Body),
           CA \in Live' /\ PC \in Live' => /\ PC \in Live /\ Body' = Body
                                           /\ Fwd("P", "C")' = Fwd("P", "C") /\ Rest(q'[OP], q[OP]),
           CA \in Live' /\ PC \in Live' /\ OP \in Live' =>
               OP \in Live /\ q'[OP] = q[OP] /\ sent'["O"] = sent["O"],
           UNCHANGED style, answer = "200" => answer' = "200"
    PROVE  DownInv'
<1>1. /\ got["A"] \in Seq(Nat) /\ q[CA] \in Seq(Nat) /\ Fwd("C", "A") \in Seq(Nat)
      /\ Body \in Seq(Nat) /\ Fwd("P", "C") \in Seq(Nat) /\ q[OP] \in Seq(Nat)
      /\ sent["O"] \in Nat
  BY StagesTyped DEF IInv, Hops, Endpoints
<1>2. Flow(d, got["A"], q[CA], Fwd("C", "A"), Body, Fwd("P", "C"), q[OP], sent["O"],
           CA, PC, OP, Live)
  BY DEF Down
<1>3. d \in Nat
  BY TunnelAssumption
<1>4. Cut(d, got["A"], q[CA], Fwd("C", "A"), Body, Fwd("P", "C"), q[OP], sent["O"], Live,
          q'[CA], Fwd("C", "A")', Body', Fwd("P", "C")', q'[OP], sent'["O"], Live', CA, PC, OP)
  BY <1>1, <1>2, <1>3 DEF Cut
<1>5. Flow(d, got["A"], q'[CA], Fwd("C", "A")', Body', Fwd("P", "C")', q'[OP], sent'["O"],
           CA, PC, OP, Live')
  BY <1>4, FlowCut
<1>6. Down(d)'
  BY <1>5 DEF Down
<1> QED BY <1>6 DEF DownInv

-----------------------------------------------------------------------------
(***************************************************************************)
(* A proxy ends.                                                           *)
(***************************************************************************)
LEMMA EndClient ==
    ASSUME IInv, NEW state \in {"done", "dead"}, End("C", state)
    PROVE  IInv'
<1> USE DEF IInv
<1>1. /\ wr' = wr \ {CA, CP}
      /\ \A l \in Links : l \in rd' <=> l \in rd /\ l \notin {AC, PC}
      /\ q'[CA] \in Prefixes(q[CA]) /\ q'[CP] \in Prefixes(q[CP])
      /\ q'[AC] = <<>> /\ q'[PC] = <<>> /\ q'[PO] = q[PO] /\ q'[OP] = q[OP]
      /\ q' \in [Links -> Seq((1..N) \cup Heads)]
  <2>1. Drop({CA, CP})
    BY Sockets DEF End
  <2>2. {CA, CP} \in SUBSET Links
    BY LinkNames
  <2> DEFINE out == {CA, CP}
  <2> HIDE DEF out
  <2>3. /\ wr' = wr \ out
        /\ \A l \in Links : l \in rd' <=> l \in rd /\ Rev(l) \notin out
        /\ \A l \in out : q'[l] \in Prefixes(q[l])
        /\ \A l \in Links \ out : q'[l] = IF Rev(l) \in out THEN <<>> ELSE q[l]
        /\ q' \in [Links -> Seq((1..N) \cup Heads)]
    BY <2>1, <2>2, DropEffect DEF out
  <2> QED BY <2>3, LinkNames DEF out
<1>2. /\ pc' = [pc EXCEPT !["C"] = state]
      /\ hold' = [hold EXCEPT !["C"] = None]
      /\ UNCHANGED <<answer, row, style, sent, got>>
  BY DEF End, ends
<1>3. /\ pc'["C"] = state /\ pc'["P"] = pc["P"]
      /\ hold'["C"] = None /\ hold'["P"] = hold["P"]
  BY <1>2 DEF TypeOK, Hops
<1>4. /\ Rest(q'[CA], q[CA]) /\ Rest(q'[CP], q[CP])
      /\ q'[CA] \in Seq(1..N) /\ q'[CP] \in Seq(1..N)
  BY <1>1, StagesTyped, CutRest
<1>5. /\ Fwd("P", "O")' = Fwd("P", "O") /\ Fwd("P", "C")' = Fwd("P", "C")
      /\ Fwd("C", "A")' = <<>> /\ Fwd("C", "P")' = <<>>
  BY <1>3 DEF Fwd
<1>6. Body' = <<>>
  BY <1>1, <1>3 DEF Body
<1>7. TypeOK'
  <2>1. wr' \subseteq Links /\ rd' \subseteq Links
    BY <1>1 DEF TypeOK, End, Drop
  <2> QED BY <1>1, <1>2, <2>1 DEF TypeOK, Hops
<1>8. LinkInv'
  BY <1>1, <1>2, <1>3, LinkNames DEF LinkInv, Dialled, Tunnelled
<1>9. StageInv'
  BY <1>2, <1>3 DEF StageInv, Dialled, Hops
<1>10. BufferInv'
  <2>1. \A l \in Links \ {PC} : q'[l] \in Seq(1..N)
    BY <1>1, <1>4, StagesTyped, EmptyRest, LinkNames
  <2>2. \A l \in Links : l \notin rd' => q'[l] = <<>>
    <3>1. q'[CA] = <<>> \/ CA \in rd
      BY <1>4, LinkNames DEF BufferInv, Rest
    <3>2. q'[CP] = <<>> \/ CP \in rd
      BY <1>4, LinkNames DEF BufferInv, Rest
    <3> QED BY <1>1, <3>1, <3>2, LinkNames DEF BufferInv
  <2>3. <<>> \in Seq(1..N)
    OBVIOUS
  <2> QED BY <1>1, <1>3, <1>6, <2>1, <2>2, <2>3 DEF BufferInv
<1>11. EarlyInv'
  <2>1. answer # "200" => /\ q'[CA] = <<>> /\ q'[CP] = <<>>
    BY <1>4 DEF EarlyInv, Rest
  <2> QED BY <1>1, <1>2, <1>3, <1>5, <2>1, LinkNames DEF EarlyInv
<1>12. UpInv'
  <2>1. PO \in Live' <=> PO \in Live
    BY <1>1, LinkNames DEF Live
  <2>2. CP \notin Live'
    BY <1>1 DEF Live
  <2>3. Rest(q[PO], q[PO])
    BY StagesTyped, SameRest
  <2> QED BY <1>1, <1>2, <1>4, <1>5, <2>1, <2>2, <2>3, StagesTyped, UpCut DEF Endpoints
<1>13. DownInv'
  <2>1. PICK d \in 0..N : Down(d)
    BY DEF DownInv
  <2>2. CA \notin Live'
    BY <1>1 DEF Live
  <2> QED BY <1>1, <1>2, <1>4, <2>1, <2>2, StagesTyped, DownCut DEF Endpoints
<1> QED BY <1>7, <1>8, <1>9, <1>10, <1>11, <1>12, <1>13

LEMMA RestTyped ==
    ASSUME NEW S, NEW R, NEW s \in Seq(R), NEW t \in Seq(S), Len(t) <= Len(s),
           \A i \in 1..Len(t) : t[i] = s[i]
    PROVE  t \in Seq(R)
<1>1. \A i \in 1..Len(t) : t[i] \in R
  OBVIOUS
<1> QED BY <1>1

\* What is left of the provider's response is left of the chunks behind its head.
LEMMA BodyRest ==
    ASSUME IInv, q'[PC] \in Prefixes(q[PC]), pc'["C"] = pc["C"]
    PROVE  /\ Body' \in Seq(1..N) /\ Rest(Body', Body)
           /\ pc["C"] = "head" /\ q'[PC] # <<>> => q'[PC][1] \in Heads
           /\ q[PC] = <<>> => q'[PC] = <<>>
<1> DEFINE S == (1..N) \cup Heads
           s == q[PC]
           t == q'[PC]
<1>1. s \in Seq(S) /\ Body \in Seq(1..N)
  BY LinkNames DEF IInv, TypeOK, BufferInv
<1>2. t \in Seq(S) /\ Len(t) <= Len(s) /\ \A i \in 1..Len(t) : t[i] = s[i]
  <2> HIDE DEF S
  <2> QED BY <1>1, PrefixRest
<1>3. s = <<>> => t = <<>>
  BY <1>1, <1>2
<1>4. pc["C"] = "head" /\ t # <<>> => t[1] \in Heads
  <2>1. t # <<>> => s # <<>> /\ t[1] = s[1]
    BY <1>1, <1>2
  <2> QED BY <2>1 DEF IInv, BufferInv
<1>5. CASE pc["C"] # "head"
  <2>1. Body = s /\ Body' = t
    BY <1>5 DEF Body
  <2> QED BY <1>1, <1>3, <1>4, <2>1, CutRest
<1>6. CASE pc["C"] = "head" /\ t = <<>>
  <2>1. Body' = <<>>
    BY <1>6 DEF Body
  <2> QED BY <1>1, <1>3, <1>4, <2>1, EmptyRest
<1>7. CASE pc["C"] = "head" /\ t # <<>>
  <2>1. s # <<>> /\ Body = Tail(s) /\ Body' = Tail(t)
    BY <1>3, <1>7 DEF Body
  <2>2. Len(Tail(t)) <= Len(Tail(s)) /\ \A i \in 1..Len(Tail(t)) : Tail(t)[i] = Tail(s)[i]
    <3> HIDE DEF S, s, t
    <3>1. /\ Len(Tail(t)) = Len(t) - 1 /\ \A i \in 1..(Len(t) - 1) : Tail(t)[i] = t[i + 1]
          /\ Len(Tail(s)) = Len(s) - 1 /\ \A i \in 1..(Len(s) - 1) : Tail(s)[i] = s[i + 1]
          /\ Len(t) >= 1 /\ Len(s) >= 1
      BY <1>1, <1>2, <1>7, <2>1
    <3> QED BY <1>2, <3>1
  <2>3. Tail(t) \in Seq(S)
    <3> HIDE DEF S, s, t
    <3> QED BY <1>2, <1>7
  <2>4. Tail(t) \in Seq(1..N)
    <3> HIDE DEF S, s, t
    <3>1. Tail(s) \in Seq(1..N)
      BY <1>1, <2>1
    <3> QED BY <2>2, <2>3, <3>1, RestTyped
  <2> QED BY <1>3, <1>4, <2>1, <2>2, <2>4, SeqNat DEF Rest
<1> QED BY <1>5, <1>6, <1>7

LEMMA EndProvider ==
    ASSUME IInv, NEW state \in {"done", "dead"}, pc["P"] \notin {"idle", "refused"}, End("P", state)
    PROVE  IInv'
<1> USE DEF IInv
<1>1. /\ wr' = wr \ {PC, PO}
      /\ \A l \in Links : l \in rd' <=> l \in rd /\ l \notin {CP, OP}
      /\ q'[PC] \in Prefixes(q[PC]) /\ q'[PO] \in Prefixes(q[PO])
      /\ q'[CP] = <<>> /\ q'[OP] = <<>> /\ q'[AC] = q[AC] /\ q'[CA] = q[CA]
      /\ q' \in [Links -> Seq((1..N) \cup Heads)]
  <2>1. Drop({PC, PO})
    BY Sockets DEF End
  <2>2. {PC, PO} \in SUBSET Links
    BY LinkNames
  <2> DEFINE out == {PC, PO}
  <2> HIDE DEF out
  <2>3. /\ wr' = wr \ out
        /\ \A l \in Links : l \in rd' <=> l \in rd /\ Rev(l) \notin out
        /\ \A l \in out : q'[l] \in Prefixes(q[l])
        /\ \A l \in Links \ out : q'[l] = IF Rev(l) \in out THEN <<>> ELSE q[l]
        /\ q' \in [Links -> Seq((1..N) \cup Heads)]
    BY <2>1, <2>2, DropEffect DEF out
  <2> QED BY <2>3, LinkNames DEF out
<1>2. /\ pc' = [pc EXCEPT !["P"] = state]
      /\ hold' = [hold EXCEPT !["P"] = None]
      /\ UNCHANGED <<answer, row, style, sent, got>>
  BY DEF End, ends
<1>3. /\ pc'["P"] = state /\ pc'["C"] = pc["C"]
      /\ hold'["P"] = None /\ hold'["C"] = hold["C"]
  BY <1>2 DEF TypeOK, Hops
<1>4. Rest(q'[PO], q[PO]) /\ q'[PO] \in Seq(1..N)
  BY <1>1, StagesTyped, CutRest
<1>5. /\ Fwd("C", "A")' = Fwd("C", "A") /\ Fwd("C", "P")' = Fwd("C", "P")
      /\ Fwd("P", "O")' = <<>> /\ Fwd("P", "C")' = <<>>
  BY <1>3 DEF Fwd
<1>6. /\ Body' \in Seq(1..N) /\ Rest(Body', Body)
      /\ pc["C"] = "head" /\ q'[PC] # <<>> => q'[PC][1] \in Heads
      /\ q[PC] = <<>> => q'[PC] = <<>>
  BY <1>1, <1>3, BodyRest
<1>7. TypeOK'
  <2>1. wr' \subseteq Links /\ rd' \subseteq Links
    BY <1>1 DEF TypeOK, End, Drop
  <2> QED BY <1>1, <1>2, <2>1 DEF TypeOK, Hops
<1>8. LinkInv'
  BY <1>1, <1>2, <1>3, LinkNames DEF LinkInv, Dialled, Tunnelled
<1>9. StageInv'
  BY <1>2, <1>3 DEF StageInv, Dialled, Hops
<1>10. BufferInv'
  <2>1. \A l \in Links \ {PC} : q'[l] \in Seq(1..N)
    BY <1>1, <1>4, StagesTyped, EmptyRest, LinkNames
  <2>2. \A l \in Links : l \notin rd' => q'[l] = <<>>
    <3>1. q'[PO] = <<>> \/ PO \in rd
      BY <1>4, LinkNames DEF BufferInv, Rest
    <3>2. q'[PC] = <<>> \/ PC \in rd
      BY <1>6, LinkNames DEF BufferInv
    <3> QED BY <1>1, <3>1, <3>2, LinkNames DEF BufferInv
  <2> QED BY <1>1, <1>3, <1>6, <2>1, <2>2 DEF BufferInv, Tunnelled
<1>11. EarlyInv'
  <2>1. answer # "200" => q'[PO] = <<>>
    BY <1>4 DEF EarlyInv, Rest
  <2> QED BY <1>1, <1>2, <1>3, <1>5, <2>1, LinkNames DEF EarlyInv
<1>12. UpInv'
  <2>1. PO \notin Live'
    BY <1>1 DEF Live
  <2> QED BY <1>1, <1>2, <1>4, <1>5, <2>1, StagesTyped, UpCut DEF Endpoints
<1>13. DownInv'
  <2>1. PICK d \in 0..N : Down(d)
    BY DEF DownInv
  <2>2. PC \notin Live' /\ (CA \in Live' => CA \in Live)
    BY <1>1, LinkNames DEF Live
  <2>3. Rest(q[CA], q[CA])
    BY StagesTyped, SameRest
  <2> QED BY <1>1, <1>2, <1>5, <1>6, <2>1, <2>2, <2>3, StagesTyped, DownCut DEF Endpoints
<1> QED BY <1>7, <1>8, <1>9, <1>10, <1>11, <1>12, <1>13

-----------------------------------------------------------------------------
(***************************************************************************)
(* An endpoint closes.                                                     *)
(***************************************************************************)
LEMMA SameHands ==
    ASSUME UNCHANGED hold, NEW h, NEW y
    PROVE  Fwd(h, y)' = Fwd(h, y)
  BY DEF Fwd

LEMMA SameBody ==
    ASSUME q'[PC] = q[PC], pc'["C"] = pc["C"]
    PROVE  Body' = Body
  BY DEF Body

LEMMA LeaveApplication ==
    ASSUME IInv, Leave("A")
    PROVE  IInv'
<1> USE DEF IInv
<1>1. /\ wr' = wr \ {AC}
      /\ \A l \in Links : l \in rd' <=> l \in rd /\ l # CA
      /\ q'[AC] \in Prefixes(q[AC]) /\ q'[CA] = <<>>
      /\ q'[CP] = q[CP] /\ q'[PC] = q[PC] /\ q'[PO] = q[PO] /\ q'[OP] = q[OP]
      /\ q' \in [Links -> Seq((1..N) \cup Heads)]
  <2>1. Drop({AC})
    BY Sockets DEF Leave
  <2>2. {AC} \in SUBSET Links
    BY LinkNames
  <2> DEFINE out == {AC}
  <2> HIDE DEF out
  <2>3. /\ wr' = wr \ out
        /\ \A l \in Links : l \in rd' <=> l \in rd /\ Rev(l) \notin out
        /\ \A l \in out : q'[l] \in Prefixes(q[l])
        /\ \A l \in Links \ out : q'[l] = IF Rev(l) \in out THEN <<>> ELSE q[l]
        /\ q' \in [Links -> Seq((1..N) \cup Heads)]
    BY <2>1, <2>2, DropEffect DEF out
  <2> QED BY <2>3, LinkNames DEF out
<1>2. UNCHANGED <<pc, hold, answer, row, style, sent, got>> /\ answer = "200"
  BY DEF Leave, ends
<1>3. Rest(q'[AC], q[AC]) /\ q'[AC] \in Seq(1..N)
  BY <1>1, StagesTyped, CutRest
<1>4. /\ \A h, y : Fwd(h, y)' = Fwd(h, y)
      /\ Body' = Body
  BY <1>1, <1>2, SameHands, SameBody
<1>5. TypeOK'
  <2>1. wr' \subseteq Links /\ rd' \subseteq Links
    BY <1>1 DEF TypeOK, Leave, Drop
  <2> QED BY <1>1, <1>2, <2>1 DEF TypeOK
<1>6. LinkInv'
  BY <1>1, <1>2, LinkNames DEF LinkInv, Dialled, Tunnelled
<1>7. StageInv'
  BY <1>2 DEF StageInv, Dialled
<1>8. BufferInv'
  <2>1. \A l \in Links \ {PC} : q'[l] \in Seq(1..N)
    BY <1>1, <1>3, StagesTyped, EmptyRest, LinkNames
  <2>2. \A l \in Links : l \notin rd' => q'[l] = <<>>
    <3>1. q'[AC] = <<>> \/ AC \in rd
      BY <1>3, LinkNames DEF BufferInv, Rest
    <3> QED BY <1>1, <3>1, LinkNames DEF BufferInv
  <2> QED BY <1>1, <1>2, <1>4, <2>1, <2>2 DEF BufferInv, Tunnelled
<1>9. EarlyInv'
  BY <1>2 DEF EarlyInv
<1>10. UpInv'
  <2>1. AC \notin Live' /\ (PO \in Live' => PO \in Live) /\ (CP \in Live' => CP \in Live)
    BY <1>1, LinkNames DEF Live
  <2>2. Rest(q[PO], q[PO]) /\ Rest(q[CP], q[CP])
    BY StagesTyped, SameRest
  <2> QED BY <1>1, <1>2, <1>3, <1>4, <2>1, <2>2, StagesTyped, UpCut DEF Endpoints
<1>11. DownInv'
  <2>1. PICK d \in 0..N : Down(d)
    BY DEF DownInv
  <2>2. CA \notin Live'
    BY <1>1, LinkNames DEF Live
  <2>3. Rest(q'[CA], q[CA])
    BY <1>1, StagesTyped, EmptyRest
  <2> QED BY <1>1, <1>2, <1>4, <2>1, <2>2, <2>3, StagesTyped, DownCut DEF Endpoints
<1> QED BY <1>5, <1>6, <1>7, <1>8, <1>9, <1>10, <1>11

LEMMA LeaveOrigin ==
    ASSUME IInv, Leave("O")
    PROVE  IInv'
<1> USE DEF IInv
<1>1. /\ wr' = wr \ {OP}
      /\ \A l \in Links : l \in rd' <=> l \in rd /\ l # PO
      /\ q'[OP] \in Prefixes(q[OP]) /\ q'[PO] = <<>>
      /\ q'[CP] = q[CP] /\ q'[PC] = q[PC] /\ q'[AC] = q[AC] /\ q'[CA] = q[CA]
      /\ q' \in [Links -> Seq((1..N) \cup Heads)]
  <2>1. Drop({OP})
    BY Sockets DEF Leave
  <2>2. {OP} \in SUBSET Links
    BY LinkNames
  <2> DEFINE out == {OP}
  <2> HIDE DEF out
  <2>3. /\ wr' = wr \ out
        /\ \A l \in Links : l \in rd' <=> l \in rd /\ Rev(l) \notin out
        /\ \A l \in out : q'[l] \in Prefixes(q[l])
        /\ \A l \in Links \ out : q'[l] = IF Rev(l) \in out THEN <<>> ELSE q[l]
        /\ q' \in [Links -> Seq((1..N) \cup Heads)]
    BY <2>1, <2>2, DropEffect DEF out
  <2> QED BY <2>3, LinkNames DEF out
<1>2. UNCHANGED <<pc, hold, answer, row, style, sent, got>>
  BY DEF Leave, ends
<1>3. Rest(q'[OP], q[OP]) /\ q'[OP] \in Seq(1..N)
  BY <1>1, StagesTyped, CutRest
<1>4. /\ \A h, y : Fwd(h, y)' = Fwd(h, y)
      /\ Body' = Body
  BY <1>1, <1>2, SameHands, SameBody
<1>5. TypeOK'
  <2>1. wr' \subseteq Links /\ rd' \subseteq Links
    BY <1>1 DEF TypeOK, Leave, Drop
  <2> QED BY <1>1, <1>2, <2>1 DEF TypeOK
<1>6. LinkInv'
  BY <1>1, <1>2, LinkNames DEF LinkInv, Dialled, Tunnelled
<1>7. StageInv'
  BY <1>2 DEF StageInv, Dialled
<1>8. BufferInv'
  <2>1. \A l \in Links \ {PC} : q'[l] \in Seq(1..N)
    BY <1>1, <1>3, StagesTyped, EmptyRest, LinkNames
  <2>2. \A l \in Links : l \notin rd' => q'[l] = <<>>
    <3>1. q'[OP] = <<>> \/ OP \in rd
      BY <1>3, LinkNames DEF BufferInv, Rest
    <3> QED BY <1>1, <3>1, LinkNames DEF BufferInv
  <2> QED BY <1>1, <1>2, <1>4, <2>1, <2>2 DEF BufferInv, Tunnelled
<1>9. EarlyInv'
  BY <1>1, <1>2, <1>4, LinkNames DEF EarlyInv
<1>10. UpInv'
  <2>1. PO \notin Live'
    BY <1>1, LinkNames DEF Live
  <2>2. Rest(q'[PO], q[PO])
    BY <1>1, StagesTyped, EmptyRest
  <2> QED BY <1>2, <2>1, <2>2, StagesTyped, UpCut DEF Endpoints
<1>11. DownInv'
  <2>1. PICK d \in 0..N : Down(d)
    BY DEF DownInv
  <2>2. OP \notin Live' /\ (CA \in Live' => CA \in Live) /\ (PC \in Live' => PC \in Live)
    BY <1>1, LinkNames DEF Live
  <2>3. Rest(q[CA], q[CA]) /\ Rest(Body, Body)
    BY StagesTyped, SameRest
  <2> QED BY <1>1, <1>2, <1>3, <1>4, <2>1, <2>2, <2>3, StagesTyped, DownCut DEF Endpoints
<1> QED BY <1>5, <1>6, <1>7, <1>8, <1>9, <1>10, <1>11

\* A direction is closed, and nothing else changes.
LEMMA HalfCloseInv ==
    ASSUME IInv, NEW e \in Endpoints, HalfClose(e)
    PROVE  IInv'
<1> USE DEF IInv
<1>1. /\ UNCHANGED <<q, rd, pc, hold, answer, row, style, sent, got>>
      /\ \/ wr' = wr \ {AC} /\ answer = "200"
         \/ wr' = wr \ {OP}
  BY Sockets DEF HalfClose, ends, Endpoints
<1>2. /\ \A h, y : Fwd(h, y)' = Fwd(h, y)
      /\ Body' = Body
  BY <1>1, SameHands, SameBody
<1>3. TypeOK'
  BY <1>1 DEF TypeOK
<1>4. LinkInv'
  BY <1>1, LinkNames DEF LinkInv, Dialled, Tunnelled
<1>5. StageInv'
  BY <1>1 DEF StageInv, Dialled
<1>6. BufferInv'
  BY <1>1, <1>2 DEF BufferInv, Tunnelled
<1>7. EarlyInv'
  BY <1>1, <1>2, LinkNames DEF EarlyInv
<1>8. Live' \subseteq Live
  BY <1>1 DEF Live
<1>9. /\ \A l \in {AC, CA, CP, PO, OP} : Rest(q[l], q[l])
      /\ Rest(Body, Body)
  BY StagesTyped, SameRest
<1>10. UpInv'
  BY <1>1, <1>2, <1>8, <1>9, StagesTyped, UpCut DEF Endpoints
<1>11. DownInv'
  <2>1. PICK d \in 0..N : Down(d)
    BY DEF DownInv
  <2>2. sent'["O"] \in Nat /\ sent["O"] <= sent'["O"]
    BY <1>1, StagesTyped DEF Endpoints
  <2>3. /\ got'["A"] = got["A"] /\ sent'["O"] = sent["O"]
        /\ q'[CA] = q[CA] /\ q'[OP] = q[OP] /\ UNCHANGED style /\ UNCHANGED answer
        /\ Fwd("C", "A")' = Fwd("C", "A") /\ Fwd("P", "C")' = Fwd("P", "C")
        /\ Rest(q[CA], q[CA]) /\ Rest(q[OP], q[OP])
    BY <1>1, <1>2, <1>9
  <2> QED BY <1>2, <1>8, <1>9, <2>1, <2>2, <2>3, DownCut
<1> QED BY <1>3, <1>4, <1>5, <1>6, <1>7, <1>10, <1>11

-----------------------------------------------------------------------------
(***************************************************************************)
(* What is written into a connection that is closed.                       *)
(***************************************************************************)
\* The other direction is cut, and it is closed on that side.
LEMMA LostPut ==
    ASSUME IInv, NEW l \in Links, l \notin rd, NEW r \in Prefixes(q[Rev(l)]),
           q' = [q EXCEPT ![Rev(l)] = r], UNCHANGED <<wr, rd, pc>>
    PROVE  /\ q' \in [Links -> Seq((1..N) \cup Heads)]
           /\ BufferInv' /\ Live' = Live
           /\ \A k \in Links : q[k] = <<>> => q'[k] = <<>>
           /\ \A k \in {AC, CA, CP, PO, OP} : Rest(q'[k], q[k]) /\ (k \in Live => q'[k] = q[k])
           /\ Rest(Body', Body) /\ (PC \in Live => Body' = Body)
<1> USE DEF IInv
<1> DEFINE S == (1..N) \cup Heads
           k0 == Rev(l)
<1>1. k0 \in Links /\ k0 \notin wr
  BY LinkNames DEF LinkInv
<1>2. \A k \in Links : q[k] \in Seq(S)
  BY DEF TypeOK
<1>3. \A k \in Links : q'[k] = IF k = k0 THEN r ELSE q[k]
  BY DEF TypeOK
<1>4. r \in Seq(S) /\ Len(r) <= Len(q[k0])
  <2> HIDE DEF S, k0
  <2> QED BY <1>1, <1>2, PrefixRest DEF k0
<1>5. q' \in [Links -> Seq(S)]
  <2> HIDE DEF S, k0
  <2>1. q' = [q EXCEPT ![k0] = r] /\ q \in [Links -> Seq(S)]
    BY DEF k0, S, TypeOK
  <2> QED BY <1>4, <2>1
<1>6. Live' = Live /\ k0 \notin Live
  BY <1>1 DEF Live
<1>7. \A k \in Links : q[k] = <<>> => q'[k] = <<>>
  <2>1. q[k0] = <<>> => r = <<>>
    <3> HIDE DEF S, k0
    <3> QED BY <1>1, <1>2, <1>4
  <2> QED BY <1>3, <2>1
<1>8. ASSUME NEW k \in {AC, CA, CP, PO, OP}
      PROVE  q'[k] \in Seq(1..N) /\ Rest(q'[k], q[k]) /\ (k \in Live => q'[k] = q[k])
  <2>1. k \in Links /\ q[k] \in Seq(1..N)
    BY LinkNames, StagesTyped
  <2>2. CASE k = k0
    BY <1>3, <1>6, <2>1, <2>2, CutRest
  <2>3. CASE k # k0
    BY <1>3, <2>1, <2>3, SameRest
  <2> QED BY <2>2, <2>3
<1>9. /\ Body' \in Seq(1..N) /\ Rest(Body', Body)
      /\ pc["C"] = "head" /\ q'[PC] # <<>> => q'[PC][1] \in Heads
      /\ PC \in Live => Body' = Body
      /\ pc["C"] = "head" /\ Tunnelled => q'[PC] # <<>>
  <2>1. CASE PC = k0
    <3>1. ~Tunnelled
      BY <1>1, <2>1 DEF LinkInv, Tunnelled
    <3>2. q'[PC] \in Prefixes(q[PC])
      BY <1>1, <1>3, <2>1
    <3> QED BY <1>6, <2>1, <3>1, <3>2, BodyRest
  <2>2. CASE PC # k0
    <3>1. q'[PC] = q[PC]
      BY <1>3, <2>2, LinkNames
    <3>2. Body' = Body
      BY <3>1, SameBody
    <3> QED BY <3>1, <3>2, StagesTyped, SameRest DEF BufferInv
  <2> QED BY <2>1, <2>2
<1>10. BufferInv'
  <2>1. \A k \in Links \ {PC} : q'[k] \in Seq(1..N)
    BY <1>8, LinkNames
  <2>2. PC \in Links
    BY LinkNames
  <2> QED BY <1>7, <1>9, <2>1, <2>2 DEF BufferInv, Tunnelled
<1> QED BY <1>5, <1>6, <1>7, <1>8, <1>9, <1>10

-----------------------------------------------------------------------------
(***************************************************************************)
(* One open link changes.                                                  *)
(***************************************************************************)
LEMMA LinkStep ==
    ASSUME IInv, NEW l \in {AC, CA, CP, PO, OP}, l \in rd, NEW s \in Seq(1..N),
           q' = [q EXCEPT ![l] = s], UNCHANGED <<wr, rd, pc>>
    PROVE  /\ q' \in [Links -> Seq((1..N) \cup Heads)]
           /\ BufferInv' /\ Live' = Live /\ Body' = Body
           /\ q'[l] = s /\ \A k \in Links \ {l} : q'[k] = q[k]
<1> USE DEF IInv
<1>1. l \in Links /\ l # PC /\ PC \in Links
  BY LinkNames
<1>2. q'[l] = s /\ \A k \in Links \ {l} : q'[k] = q[k]
  BY <1>1 DEF TypeOK
<1>3. q' \in [Links -> Seq((1..N) \cup Heads)]
  <2> DEFINE S == (1..N) \cup Heads
  <2>1. s \in Seq(S)
    BY SeqWiden
  <2> HIDE DEF S
  <2> QED BY <1>1, <2>1 DEF TypeOK, S
<1>4. Live' = Live
  BY DEF Live
<1>5. Body' = Body
  BY <1>1, <1>2, SameBody
<1>6. BufferInv'
  <2>1. \A k \in Links \ {PC} : q'[k] \in Seq(1..N)
    BY <1>2 DEF BufferInv
  <2>2. \A k \in Links : k \notin rd' => q'[k] = <<>>
    BY <1>2 DEF BufferInv
  <2> QED BY <1>1, <1>2, <1>5, <2>1, <2>2 DEF BufferInv, Tunnelled
<1> QED BY <1>2, <1>3, <1>4, <1>5, <1>6

LEMMA ReceiveOrigin ==
    ASSUME IInv, Receive("O")
    PROVE  IInv'
<1> USE DEF IInv
<1>1. /\ PO \in rd /\ q[PO] # <<>>
      /\ got' = [got EXCEPT !["O"] = Append(@, Head(q[PO]))]
      /\ q' = [q EXCEPT ![PO] = Tail(@)]
      /\ UNCHANGED <<wr, rd, pc, hold, answer, row, style, sent>>
  BY Sockets DEF Receive
<1>2. /\ q[PO] \in Seq(1..N) /\ got["O"] \in Seq(1..N) /\ sent["O"] \in Nat
      /\ q[PO] \in Seq(Nat) /\ got["O"] \in Seq(Nat)
  BY StagesTyped DEF Endpoints
<1>3. /\ Tail(q[PO]) \in Seq(1..N) /\ Head(q[PO]) \in 1..N
  BY <1>1, <1>2, SeqRead
<1>4. q' = [q EXCEPT ![PO] = Tail(q[PO])]
  BY <1>1
<1>5. /\ q' \in [Links -> Seq((1..N) \cup Heads)]
      /\ BufferInv' /\ Live' = Live /\ Body' = Body
      /\ q'[PO] = Tail(q[PO]) /\ \A k \in Links \ {PO} : q'[k] = q[k]
  BY <1>1, <1>3, <1>4, LinkStep
<1>6. /\ got'["O"] = Append(got["O"], Head(q[PO])) /\ got'["A"] = got["A"]
      /\ got' \in [Endpoints -> Seq(1..N)]
      /\ got'["O"] # <<>> /\ Len(got'["O"]) = Len(got["O"]) + 1
  <2>1. /\ got'["O"] = Append(got["O"], Head(q[PO])) /\ got'["A"] = got["A"]
        /\ got' \in [Endpoints -> Seq(1..N)]
    BY <1>1, <1>2, <1>3 DEF TypeOK, Endpoints
  <2>2. /\ Append(got["O"], Head(q[PO])) # <<>>
        /\ Len(Append(got["O"], Head(q[PO]))) = Len(got["O"]) + 1
    BY <1>2, <1>3, SeqWrite
  <2> QED BY <2>1, <2>2
<1>7. \A h, y : Fwd(h, y)' = Fwd(h, y)
  BY <1>1, SameHands
<1>8. answer = "200"
  BY <1>1 DEF EarlyInv
<1>9. TypeOK'
  BY <1>1, <1>5, <1>6 DEF TypeOK
<1>10. LinkInv'
  BY <1>1 DEF LinkInv, Dialled, Tunnelled
<1>11. StageInv'
  BY <1>1 DEF StageInv, Dialled
<1>12. EarlyInv'
  <2>1. row' = "active"
    BY <1>1 DEF LinkInv
  <2>2. style = "turns" => sent["O"] <= Len(got["O"]) + 1
    BY <1>2 DEF EarlyInv
  <2> QED BY <1>1, <1>6, <1>8, <2>1, <2>2 DEF EarlyInv
<1>13. UpInv'
  <2>1. Flow(0, got["O"], q[PO], Fwd("P", "O"), q[CP], Fwd("C", "P"), q[AC], sent["A"],
             PO, CP, AC, Live)
    BY DEF UpInv
  <2>2. Flow(0, Append(got["O"], Head(q[PO])), Tail(q[PO]), Fwd("P", "O"), q[CP], Fwd("C", "P"), q[AC],
             sent["A"], PO, CP, AC, Live)
    BY <1>1, <2>1, StagesTyped, FlowReceive DEF Hops, Endpoints
  <2>3. q'[CP] = q[CP] /\ q'[AC] = q[AC]
    BY <1>5, LinkNames
  <2> QED BY <1>1, <1>5, <1>6, <1>7, <2>2, <2>3 DEF UpInv
<1>14. DownInv'
  <2>1. q'[CA] = q[CA] /\ q'[OP] = q[OP]
    BY <1>5, LinkNames
  <2> QED BY <1>1, <1>5, <1>6, <1>7, <2>1 DEF DownInv, Down
<1> QED BY <1>5, <1>9, <1>10, <1>11, <1>12, <1>13, <1>14

LEMMA ReceiveApplication ==
    ASSUME IInv, Receive("A")
    PROVE  IInv'
<1> USE DEF IInv
<1>1. /\ CA \in rd /\ q[CA] # <<>>
      /\ got' = [got EXCEPT !["A"] = Append(@, Head(q[CA]))]
      /\ q' = [q EXCEPT ![CA] = Tail(@)]
      /\ UNCHANGED <<wr, rd, pc, hold, answer, row, style, sent>>
  BY Sockets DEF Receive
<1>2. /\ q[CA] \in Seq(1..N) /\ got["A"] \in Seq(1..N)
      /\ q[CA] \in Seq(Nat) /\ got["A"] \in Seq(Nat)
  BY StagesTyped DEF Endpoints
<1>3. /\ Tail(q[CA]) \in Seq(1..N) /\ Head(q[CA]) \in 1..N
  BY <1>1, <1>2, SeqRead
<1>4. q' = [q EXCEPT ![CA] = Tail(q[CA])]
  BY <1>1
<1>5. /\ q' \in [Links -> Seq((1..N) \cup Heads)]
      /\ BufferInv' /\ Live' = Live /\ Body' = Body
      /\ q'[CA] = Tail(q[CA]) /\ \A k \in Links \ {CA} : q'[k] = q[k]
  BY <1>1, <1>3, <1>4, LinkStep
<1>6. /\ got'["A"] = Append(got["A"], Head(q[CA])) /\ got'["O"] = got["O"]
      /\ got' \in [Endpoints -> Seq(1..N)]
  BY <1>1, <1>2, <1>3 DEF TypeOK, Endpoints
<1>7. \A h, y : Fwd(h, y)' = Fwd(h, y)
  BY <1>1, SameHands
<1>8. answer = "200"
  BY <1>1 DEF EarlyInv
<1>9. TypeOK'
  BY <1>1, <1>5, <1>6 DEF TypeOK
<1>10. LinkInv'
  BY <1>1 DEF LinkInv, Dialled, Tunnelled
<1>11. StageInv'
  BY <1>1 DEF StageInv, Dialled
<1>12. EarlyInv'
  BY <1>1, <1>6, <1>8 DEF EarlyInv
<1>13. UpInv'
  <2>1. q'[PO] = q[PO] /\ q'[CP] = q[CP] /\ q'[AC] = q[AC]
    BY <1>5, LinkNames
  <2> QED BY <1>1, <1>5, <1>6, <1>7, <2>1 DEF UpInv
<1>14. DownInv'
  <2>1. PICK d \in 0..N : Down(d)
    BY DEF DownInv
  <2>2. Flow(d, got["A"], q[CA], Fwd("C", "A"), Body, Fwd("P", "C"), q[OP], sent["O"],
             CA, PC, OP, Live)
    BY <2>1 DEF Down
  <2>3. d \in Nat
    BY TunnelAssumption
  <2>4. Flow(d, Append(got["A"], Head(q[CA])), Tail(q[CA]), Fwd("C", "A"), Body, Fwd("P", "C"), q[OP],
             sent["O"], CA, PC, OP, Live)
    BY <1>1, <2>2, <2>3, StagesTyped, FlowReceive DEF Hops, Endpoints
  <2>5. q'[OP] = q[OP]
    BY <1>5, LinkNames
  <2>6. Down(d)'
    BY <1>1, <1>5, <1>6, <1>7, <2>1, <2>4, <2>5 DEF Down
  <2> QED BY <2>6 DEF DownInv
<1> QED BY <1>5, <1>9, <1>10, <1>11, <1>12, <1>13, <1>14

LEMMA SendApplication ==
    ASSUME IInv, Send("A")
    PROVE  IInv'
<1> USE DEF IInv
<1> DEFINE n == sent["A"]
<1>1. /\ answer = "200" /\ n < N /\ AC \in wr /\ Put(AC, n + 1)
      /\ sent' = [sent EXCEPT !["A"] = @ + 1]
      /\ UNCHANGED <<wr, rd, pc, hold, answer, row, style, got>>
  BY Sockets DEF Send, Speaks
<1>2. n \in Nat /\ n \in 0..N /\ N \in Nat /\ n + 1 \in 1..N /\ q[AC] \in Seq(1..N)
  BY <1>1, StagesTyped, TunnelAssumption DEF Endpoints
<1>3. sent'["A"] = n + 1 /\ sent'["O"] = sent["O"] /\ sent' \in [Endpoints -> 0..N]
  BY <1>1, <1>2 DEF TypeOK, Endpoints
<1>4. \A h, y : Fwd(h, y)' = Fwd(h, y)
  BY <1>1, SameHands
<1>5. LinkInv' /\ StageInv'
  BY <1>1 DEF LinkInv, StageInv, Dialled, Tunnelled
<1>6. EarlyInv'
  BY <1>1, <1>3 DEF EarlyInv
<1>7. CASE AC \in rd /\ q' = [q EXCEPT ![AC] = Append(@, n + 1)]
  <2>1. Append(q[AC], n + 1) \in Seq(1..N)
    BY <1>2, SeqWrite
  <2>2. q' = [q EXCEPT ![AC] = Append(q[AC], n + 1)]
    BY <1>7
  <2>3. /\ q' \in [Links -> Seq((1..N) \cup Heads)]
        /\ BufferInv' /\ Live' = Live /\ Body' = Body
        /\ q'[AC] = Append(q[AC], n + 1) /\ \A k \in Links \ {AC} : q'[k] = q[k]
    BY <1>1, <1>7, <2>1, <2>2, LinkStep
  <2>4. TypeOK'
    BY <1>1, <1>3, <2>3 DEF TypeOK
  <2>5. UpInv'
    <3>1. Flow(0, got["O"], q[PO], Fwd("P", "O"), q[CP], Fwd("C", "P"), q[AC], n, PO, CP, AC, Live)
      BY DEF UpInv
    <3>2. AC \in Live
      BY <1>1, <1>7 DEF Live
    <3>3. Flow(0, got["O"], q[PO], Fwd("P", "O"), q[CP], Fwd("C", "P"), Append(q[AC], n + 1), n + 1,
               PO, CP, AC, Live)
      BY <3>1, <3>2, StagesTyped, FlowSend DEF Hops, Endpoints
    <3>4. q'[PO] = q[PO] /\ q'[CP] = q[CP]
      BY <2>3, LinkNames
    <3> QED BY <1>1, <1>3, <1>4, <2>3, <3>3, <3>4 DEF UpInv
  <2>6. DownInv'
    <3>1. q'[CA] = q[CA] /\ q'[OP] = q[OP]
      BY <2>3, LinkNames
    <3> QED BY <1>1, <1>3, <1>4, <2>3, <3>1 DEF DownInv, Down
  <2> QED BY <1>5, <1>6, <2>3, <2>4, <2>5, <2>6
<1>8. CASE AC \notin rd /\ \E r \in Prefixes(q[CA]) : q' = [q EXCEPT ![CA] = r]
  <2>1. PICK r \in Prefixes(q[CA]) : q' = [q EXCEPT ![CA] = r]
    BY <1>8
  <2>2. /\ q' \in [Links -> Seq((1..N) \cup Heads)]
        /\ BufferInv' /\ Live' = Live
        /\ \A k \in {AC, CA, CP, PO, OP} : Rest(q'[k], q[k]) /\ (k \in Live => q'[k] = q[k])
        /\ Rest(Body', Body) /\ (PC \in Live => Body' = Body)
    BY <1>1, <1>8, <2>1, LostPut, LinkNames
  <2>3. TypeOK'
    BY <1>1, <1>3, <2>2 DEF TypeOK
  <2>4. AC \notin Live
    BY <1>8 DEF Live
  <2>5. UpInv'
    <3>1. sent'["A"] \in Nat /\ sent["A"] <= sent'["A"] /\ got'["O"] = got["O"]
      BY <1>1, <1>2, <1>3
    <3> QED BY <1>4, <2>2, <2>4, <3>1, UpCut
  <2>6. DownInv'
    <3>1. PICK d \in 0..N : Down(d)
      BY DEF DownInv
    <3>2. /\ sent'["O"] \in Nat /\ sent["O"] <= sent'["O"] /\ got'["A"] = got["A"]
          /\ UNCHANGED style /\ UNCHANGED answer
      BY <1>1, <1>3, StagesTyped DEF Endpoints
    <3> QED BY <1>3, <1>4, <2>2, <3>1, <3>2, DownCut
  <2> QED BY <1>5, <1>6, <2>2, <2>3, <2>5, <2>6
<1> QED BY <1>1, <1>7, <1>8, LinkNames DEF Put

LEMMA SendOrigin ==
    ASSUME IInv, Send("O")
    PROVE  IInv'
<1> USE DEF IInv
<1> DEFINE n == sent["O"]
<1>1. /\ n < N /\ OP \in wr /\ Put(OP, n + 1)
      /\ style = "turns" => n < Len(got["O"])
      /\ sent' = [sent EXCEPT !["O"] = @ + 1]
      /\ UNCHANGED <<wr, rd, pc, hold, answer, row, style, got>>
  BY Sockets DEF Send, Speaks, Owes
<1>2. n \in Nat /\ n \in 0..N /\ N \in Nat /\ n + 1 \in 1..N /\ q[OP] \in Seq(1..N) /\ Len(got["O"]) \in Nat
  <2>1. n \in Nat /\ n \in 0..N /\ q[OP] \in Seq(1..N) /\ got["O"] \in Seq(1..N)
    BY StagesTyped DEF Endpoints
  <2>2. N \in Nat
    BY TunnelAssumption
  <2>3. n + 1 \in 1..N
    BY <1>1, <2>1, <2>2
  <2>4. Len(got["O"]) \in Nat
    BY <2>1
  <2> QED BY <2>1, <2>2, <2>3, <2>4
<1>3. sent'["O"] = n + 1 /\ sent'["A"] = sent["A"] /\ sent' \in [Endpoints -> 0..N]
  BY <1>1, <1>2 DEF TypeOK, Endpoints
<1>4. \A h, y : Fwd(h, y)' = Fwd(h, y)
  BY <1>1, SameHands
<1>5. LinkInv' /\ StageInv'
  BY <1>1 DEF LinkInv, StageInv, Dialled, Tunnelled
<1>6. ASSUME \A k \in Links : k # OP /\ q[k] = <<>> => q'[k] = <<>>
      PROVE  EarlyInv'
  <2>1. pc["P"] \notin {"idle", "serve", "refused"}
    BY <1>1 DEF LinkInv
  <2>2. style = "turns" => n + 1 <= Len(got["O"])
    BY <1>1, <1>2
  <2>3. answer # "200" => \A l \in {AC, CP, PO, CA} : q'[l] = <<>>
    BY <1>6, LinkNames DEF EarlyInv
  <2> QED BY <1>1, <1>3, <1>4, <2>1, <2>2, <2>3 DEF EarlyInv
<1>7. CASE OP \in rd /\ q' = [q EXCEPT ![OP] = Append(@, n + 1)]
  <2>1. Append(q[OP], n + 1) \in Seq(1..N)
    BY <1>2, SeqWrite
  <2>2. q' = [q EXCEPT ![OP] = Append(q[OP], n + 1)]
    BY <1>7
  <2>3. /\ q' \in [Links -> Seq((1..N) \cup Heads)]
        /\ BufferInv' /\ Live' = Live /\ Body' = Body
        /\ q'[OP] = Append(q[OP], n + 1) /\ \A k \in Links \ {OP} : q'[k] = q[k]
    BY <1>1, <1>7, <2>1, <2>2, LinkStep
  <2>4. TypeOK'
    BY <1>1, <1>3, <2>3 DEF TypeOK
  <2>5. UpInv'
    <3>1. q'[PO] = q[PO] /\ q'[CP] = q[CP] /\ q'[AC] = q[AC]
      BY <2>3, LinkNames
    <3> QED BY <1>1, <1>3, <1>4, <2>3, <3>1 DEF UpInv
  <2>6. DownInv'
    <3>1. PICK d \in 0..N : Down(d)
      BY DEF DownInv
    <3>2. Flow(d, got["A"], q[CA], Fwd("C", "A"), Body, Fwd("P", "C"), q[OP], n, CA, PC, OP, Live)
      BY <3>1 DEF Down
    <3>3. OP \in Live /\ d \in Nat
      BY <1>1, <1>7, TunnelAssumption DEF Live
    <3>4. Flow(d, got["A"], q[CA], Fwd("C", "A"), Body, Fwd("P", "C"), Append(q[OP], n + 1), n + 1,
               CA, PC, OP, Live)
      BY <3>2, <3>3, StagesTyped, FlowSend DEF Hops, Endpoints
    <3>5. q'[CA] = q[CA]
      BY <2>3, LinkNames
    <3>6. Down(d)'
      BY <1>1, <1>3, <1>4, <2>3, <3>1, <3>4, <3>5 DEF Down
    <3> QED BY <3>6 DEF DownInv
  <2>7. EarlyInv'
    BY <1>6, <2>3
  <2> QED BY <1>5, <2>3, <2>4, <2>5, <2>6, <2>7
<1>8. CASE OP \notin rd /\ \E r \in Prefixes(q[PO]) : q' = [q EXCEPT ![PO] = r]
  <2>1. PICK r \in Prefixes(q[PO]) : q' = [q EXCEPT ![PO] = r]
    BY <1>8
  <2>2. /\ q' \in [Links -> Seq((1..N) \cup Heads)]
        /\ BufferInv' /\ Live' = Live
        /\ \A k \in Links : q[k] = <<>> => q'[k] = <<>>
        /\ \A k \in {AC, CA, CP, PO, OP} : Rest(q'[k], q[k]) /\ (k \in Live => q'[k] = q[k])
        /\ Rest(Body', Body) /\ (PC \in Live => Body' = Body)
    BY <1>1, <1>8, <2>1, LostPut, LinkNames
  <2>3. TypeOK'
    BY <1>1, <1>3, <2>2 DEF TypeOK
  <2>4. OP \notin Live
    BY <1>8 DEF Live
  <2>5. UpInv'
    <3>1. sent'["A"] \in Nat /\ sent["A"] <= sent'["A"] /\ got'["O"] = got["O"]
      BY <1>1, <1>3, StagesTyped DEF Endpoints
    <3> QED BY <1>3, <1>4, <2>2, <3>1, UpCut
  <2>6. DownInv'
    <3>1. PICK d \in 0..N : Down(d)
      BY DEF DownInv
    <3>2. /\ sent'["O"] \in Nat /\ sent["O"] <= sent'["O"] /\ got'["A"] = got["A"]
          /\ UNCHANGED style /\ UNCHANGED answer
      BY <1>1, <1>2, <1>3
    <3> QED BY <1>4, <2>2, <2>4, <3>1, <3>2, DownCut
  <2>7. EarlyInv'
    BY <1>6, <2>2
  <2> QED BY <1>5, <2>2, <2>3, <2>5, <2>6, <2>7
<1> QED BY <1>1, <1>7, <1>8, LinkNames DEF Put

-----------------------------------------------------------------------------
(***************************************************************************)
(* The copy loops read.                                                    *)
(***************************************************************************)
\* The link from the provider to the client changes, behind the head if that is still there.
LEMMA ResponseStep ==
    ASSUME IInv, PC \in rd, NEW s \in Seq((1..N) \cup Heads),
           q' = [q EXCEPT ![PC] = s], UNCHANGED <<wr, rd, pc>>,
           Body' \in Seq(1..N), pc["C"] = "head" => s # <<>> /\ s[1] \in Heads,
           pc["P"] \notin {"idle", "serve"}
    PROVE  /\ q' \in [Links -> Seq((1..N) \cup Heads)]
           /\ BufferInv' /\ Live' = Live
           /\ q'[PC] = s /\ \A k \in Links \ {PC} : q'[k] = q[k]
<1> USE DEF IInv
<1>1. PC \in Links
  BY LinkNames
<1>2. q'[PC] = s /\ \A k \in Links \ {PC} : q'[k] = q[k]
  BY <1>1 DEF TypeOK
<1>3. q' \in [Links -> Seq((1..N) \cup Heads)]
  <2> DEFINE S == (1..N) \cup Heads
  <2> HIDE DEF S
  <2>1. s \in Seq(S)
    BY DEF S
  <2> QED BY <1>1, <2>1 DEF TypeOK, S
<1>4. Live' = Live
  BY DEF Live
<1>5. BufferInv'
  <2>1. \A k \in Links \ {PC} : q'[k] \in Seq(1..N)
    BY <1>2 DEF BufferInv
  <2>2. \A k \in Links : k \notin rd' => q'[k] = <<>>
    BY <1>2 DEF BufferInv
  <2> QED BY <1>2, <2>1, <2>2 DEF BufferInv
<1> QED BY <1>2, <1>3, <1>4, <1>5

\* A loop takes up a chunk.
LEMMA Take ==
    ASSUME IInv, NEW h \in Hops, hold[h] = None, pc[h] = "copy", NEW y \in {Left(h), Right(h)},
           NEW x \in 1..N, hold' = [hold EXCEPT ![h] = [to |-> y, chunk |-> x]], UNCHANGED <<pc, answer>>
    PROVE  /\ hold' \in [Hops -> [to : Endpoints \cup Hops, chunk : 1..N] \cup {None}]
           /\ StageInv'
           /\ Fwd(h, y) = <<>> /\ Fwd(h, y)' = <<x>>
           /\ \A g \in Hops : \A z : g # h \/ z # y => Fwd(g, z)' = Fwd(g, z)
<1> USE DEF IInv
<1> DEFINE m == [to |-> y, chunk |-> x]
<1>1. /\ m \in [to : Endpoints \cup Hops, chunk : 1..N] /\ m.to = y /\ m.chunk = x
      /\ m \in [to : {"A", "C", "P", "O"}, chunk : 1..N]
  BY DEF Left, Right, Endpoints, Hops
<1>2. m # None
  BY <1>1, TunnelAssumption
<1>3. hold'[h] = m /\ \A g \in Hops \ {h} : hold'[g] = hold[g]
  BY DEF TypeOK
<1> HIDE DEF m
<1>4. hold' \in [Hops -> [to : Endpoints \cup Hops, chunk : 1..N] \cup {None}]
  BY <1>1 DEF TypeOK, m
<1>5. StageInv'
  BY <1>1, <1>3 DEF StageInv, Dialled
<1>6. Fwd(h, y) = <<>> /\ Fwd(h, y)' = <<x>>
  BY <1>1, <1>2, <1>3 DEF Fwd
<1>7. \A g \in Hops : \A z : g # h \/ z # y => Fwd(g, z)' = Fwd(g, z)
  BY <1>1, <1>2, <1>3 DEF Fwd
<1> QED BY <1>4, <1>5, <1>6, <1>7

LEMMA ReadFromApplication ==
    ASSUME IInv, CopyRead("C", "A")
    PROVE  IInv'
<1> USE DEF IInv
<1> DEFINE x == Head(q[AC])
<1>1. /\ pc["C"] = "copy" /\ hold["C"] = None /\ q[AC] # <<>>
      /\ hold' = [hold EXCEPT !["C"] = [to |-> "P", chunk |-> x]]
      /\ q' = [q EXCEPT ![AC] = Tail(q[AC])]
      /\ UNCHANGED <<wr, rd, pc, answer, row, style, sent, got>>
  BY DEF CopyRead, AC, Other, Left, Right, ends
<1>2. q[AC] \in Seq(1..N) /\ x \in 1..N /\ Tail(q[AC]) \in Seq(1..N) /\ AC \in rd
  BY <1>1, StagesTyped, SeqRead, LinkNames DEF BufferInv
<1>3. /\ hold' \in [Hops -> [to : Endpoints \cup Hops, chunk : 1..N] \cup {None}]
      /\ StageInv'
      /\ Fwd("C", "P") = <<>> /\ Fwd("C", "P")' = <<x>>
      /\ \A g \in Hops : \A z : g # "C" \/ z # "P" => Fwd(g, z)' = Fwd(g, z)
  <2>1. "C" \in Hops /\ "P" \in {Left("C"), Right("C")}
    BY DEF Hops, Right
  <2> HIDE DEF x
  <2> QED BY <1>1, <1>2, <2>1, Take
<1>4. /\ q' \in [Links -> Seq((1..N) \cup Heads)]
      /\ BufferInv' /\ Live' = Live /\ Body' = Body
      /\ q'[AC] = Tail(q[AC]) /\ \A k \in Links \ {AC} : q'[k] = q[k]
  BY <1>1, <1>2, LinkStep
<1>5. answer = "200"
  BY <1>1 DEF EarlyInv
<1>6. TypeOK'
  BY <1>1, <1>3, <1>4 DEF TypeOK
<1>7. LinkInv'
  BY <1>1 DEF LinkInv, Dialled, Tunnelled
<1>8. EarlyInv'
  BY <1>1, <1>5 DEF EarlyInv
<1>9. UpInv'
  <2>1. Flow(0, got["O"], q[PO], Fwd("P", "O"), q[CP], Fwd("C", "P"), q[AC], sent["A"],
             PO, CP, AC, Live)
    BY DEF UpInv
  <2>2. Flow(0, got["O"], q[PO], Fwd("P", "O"), q[CP], <<x>>, Tail(q[AC]), sent["A"],
             PO, CP, AC, Live)
    BY <1>1, <1>3, <2>1, StagesTyped, FlowReadFar DEF Hops, Endpoints
  <2>3. q'[PO] = q[PO] /\ q'[CP] = q[CP] /\ Fwd("P", "O")' = Fwd("P", "O")
    BY <1>3, <1>4, LinkNames DEF Hops
  <2> QED BY <1>1, <1>3, <1>4, <2>2, <2>3 DEF UpInv
<1>10. DownInv'
  <2>1. /\ q'[CA] = q[CA] /\ q'[OP] = q[OP]
        /\ Fwd("C", "A")' = Fwd("C", "A") /\ Fwd("P", "C")' = Fwd("P", "C")
    BY <1>3, <1>4, LinkNames DEF Hops
  <2> QED BY <1>1, <1>4, <2>1 DEF DownInv, Down
<1> QED BY <1>3, <1>4, <1>6, <1>7, <1>8, <1>9, <1>10

LEMMA ReadFromClient ==
    ASSUME IInv, CopyRead("P", "C")
    PROVE  IInv'
<1> USE DEF IInv
<1> DEFINE x == Head(q[CP])
<1>1. /\ pc["P"] = "copy" /\ hold["P"] = None /\ q[CP] # <<>>
      /\ hold' = [hold EXCEPT !["P"] = [to |-> "O", chunk |-> x]]
      /\ q' = [q EXCEPT ![CP] = Tail(q[CP])]
      /\ UNCHANGED <<wr, rd, pc, answer, row, style, sent, got>>
  BY DEF CopyRead, CP, Other, Left, Right, ends
<1>2. q[CP] \in Seq(1..N) /\ x \in 1..N /\ Tail(q[CP]) \in Seq(1..N) /\ CP \in rd
  BY <1>1, StagesTyped, SeqRead, LinkNames DEF BufferInv
<1>3. /\ hold' \in [Hops -> [to : Endpoints \cup Hops, chunk : 1..N] \cup {None}]
      /\ StageInv'
      /\ Fwd("P", "O") = <<>> /\ Fwd("P", "O")' = <<x>>
      /\ \A g \in Hops : \A z : g # "P" \/ z # "O" => Fwd(g, z)' = Fwd(g, z)
  <2>1. "P" \in Hops /\ "O" \in {Left("P"), Right("P")}
    BY DEF Hops, Right
  <2> HIDE DEF x
  <2> QED BY <1>1, <1>2, <2>1, Take
<1>4. /\ q' \in [Links -> Seq((1..N) \cup Heads)]
      /\ BufferInv' /\ Live' = Live /\ Body' = Body
      /\ q'[CP] = Tail(q[CP]) /\ \A k \in Links \ {CP} : q'[k] = q[k]
  BY <1>1, <1>2, LinkStep
<1>5. answer = "200"
  BY <1>1 DEF EarlyInv
<1>6. TypeOK'
  BY <1>1, <1>3, <1>4 DEF TypeOK
<1>7. LinkInv'
  BY <1>1 DEF LinkInv, Dialled, Tunnelled
<1>8. EarlyInv'
  BY <1>1, <1>5 DEF EarlyInv
<1>9. UpInv'
  <2>1. Flow(0, got["O"], q[PO], Fwd("P", "O"), q[CP], Fwd("C", "P"), q[AC], sent["A"],
             PO, CP, AC, Live)
    BY DEF UpInv
  <2>2. Flow(0, got["O"], q[PO], <<x>>, Tail(q[CP]), Fwd("C", "P"), q[AC], sent["A"],
             PO, CP, AC, Live)
    BY <1>1, <1>3, <2>1, StagesTyped, FlowReadNear DEF Hops, Endpoints
  <2>3. q'[PO] = q[PO] /\ q'[AC] = q[AC] /\ Fwd("C", "P")' = Fwd("C", "P")
    BY <1>3, <1>4, LinkNames DEF Hops
  <2> QED BY <1>1, <1>3, <1>4, <2>2, <2>3 DEF UpInv
<1>10. DownInv'
  <2>1. /\ q'[CA] = q[CA] /\ q'[OP] = q[OP]
        /\ Fwd("C", "A")' = Fwd("C", "A") /\ Fwd("P", "C")' = Fwd("P", "C")
    BY <1>3, <1>4, LinkNames DEF Hops
  <2> QED BY <1>1, <1>4, <2>1 DEF DownInv, Down
<1> QED BY <1>3, <1>4, <1>6, <1>7, <1>8, <1>9, <1>10

LEMMA ReadFromOrigin ==
    ASSUME IInv, CopyRead("P", "O")
    PROVE  IInv'
<1> USE DEF IInv
<1> DEFINE x == Head(q[OP])
<1>1. /\ pc["P"] = "copy" /\ hold["P"] = None /\ q[OP] # <<>>
      /\ hold' = [hold EXCEPT !["P"] = [to |-> "C", chunk |-> x]]
      /\ q' = [q EXCEPT ![OP] = Tail(q[OP])]
      /\ UNCHANGED <<wr, rd, pc, answer, row, style, sent, got>>
  BY DEF CopyRead, OP, Other, Left, Right, ends
<1>2. q[OP] \in Seq(1..N) /\ x \in 1..N /\ Tail(q[OP]) \in Seq(1..N) /\ OP \in rd
  BY <1>1, StagesTyped, SeqRead, LinkNames DEF BufferInv
<1>3. /\ hold' \in [Hops -> [to : Endpoints \cup Hops, chunk : 1..N] \cup {None}]
      /\ StageInv'
      /\ Fwd("P", "C") = <<>> /\ Fwd("P", "C")' = <<x>>
      /\ \A g \in Hops : \A z : g # "P" \/ z # "C" => Fwd(g, z)' = Fwd(g, z)
  <2>1. "P" \in Hops /\ "C" \in {Left("P"), Right("P")}
    BY DEF Hops, Left
  <2> HIDE DEF x
  <2> QED BY <1>1, <1>2, <2>1, Take
<1>4. /\ q' \in [Links -> Seq((1..N) \cup Heads)]
      /\ BufferInv' /\ Live' = Live /\ Body' = Body
      /\ q'[OP] = Tail(q[OP]) /\ \A k \in Links \ {OP} : q'[k] = q[k]
  BY <1>1, <1>2, LinkStep
<1>5. TypeOK'
  BY <1>1, <1>3, <1>4 DEF TypeOK
<1>6. LinkInv'
  BY <1>1 DEF LinkInv, Dialled, Tunnelled
<1>7. EarlyInv'
  <2>1. Fwd("P", "O")' = Fwd("P", "O")
    BY <1>3 DEF Hops
  <2>2. \A l \in {AC, CP, PO, CA} : q'[l] = q[l]
    BY <1>4, LinkNames
  <2> QED BY <1>1, <2>1, <2>2 DEF EarlyInv
<1>8. UpInv'
  <2>1. /\ q'[PO] = q[PO] /\ q'[CP] = q[CP] /\ q'[AC] = q[AC]
        /\ Fwd("C", "P")' = Fwd("C", "P") /\ Fwd("P", "O")' = Fwd("P", "O")
    BY <1>3, <1>4, LinkNames DEF Hops
  <2> QED BY <1>1, <1>4, <2>1 DEF UpInv
<1>9. DownInv'
  <2>1. PICK d \in 0..N : Down(d)
    BY DEF DownInv
  <2>2. Flow(d, got["A"], q[CA], Fwd("C", "A"), Body, Fwd("P", "C"), q[OP], sent["O"],
             CA, PC, OP, Live)
    BY <2>1 DEF Down
  <2>3. d \in Nat
    BY TunnelAssumption
  <2>4. Flow(d, got["A"], q[CA], Fwd("C", "A"), Body, <<x>>, Tail(q[OP]), sent["O"],
             CA, PC, OP, Live)
    BY <1>1, <1>3, <2>2, <2>3, StagesTyped, FlowReadFar DEF Hops, Endpoints
  <2>5. q'[CA] = q[CA] /\ Fwd("C", "A")' = Fwd("C", "A")
    BY <1>3, <1>4, LinkNames DEF Hops
  <2>6. Down(d)'
    BY <1>1, <1>3, <1>4, <2>1, <2>4, <2>5 DEF Down
  <2> QED BY <2>6 DEF DownInv
<1> QED BY <1>3, <1>4, <1>5, <1>6, <1>7, <1>8, <1>9

LEMMA ReadFromProvider ==
    ASSUME IInv, CopyRead("C", "P")
    PROVE  IInv'
<1> USE DEF IInv
<1> DEFINE x == Head(q[PC])
<1>1. /\ pc["C"] = "copy" /\ hold["C"] = None /\ q[PC] # <<>>
      /\ hold' = [hold EXCEPT !["C"] = [to |-> "A", chunk |-> x]]
      /\ q' = [q EXCEPT ![PC] = Tail(q[PC])]
      /\ UNCHANGED <<wr, rd, pc, answer, row, style, sent, got>>
  BY DEF CopyRead, PC, Other, Left, Right, ends
<1>2. Body = q[PC] /\ Body' = q'[PC]
  BY <1>1 DEF Body
<1>3. /\ q[PC] \in Seq(1..N) /\ x \in 1..N /\ Tail(q[PC]) \in Seq(1..N) /\ PC \in rd
      /\ Tail(q[PC]) \in Seq((1..N) \cup Heads) /\ answer = "200"
  <2>1. /\ q[PC] \in Seq(1..N) /\ x \in 1..N /\ Tail(q[PC]) \in Seq(1..N) /\ PC \in rd
    BY <1>1, <1>2, StagesTyped, SeqRead, LinkNames DEF BufferInv
  <2>2. 1..N \subseteq (1..N) \cup Heads
    OBVIOUS
  <2>3. Tail(q[PC]) \in Seq((1..N) \cup Heads)
    BY <2>1, <2>2, SeqWiden
  <2>4. answer = "200"
    BY <1>1 DEF StageInv
  <2> QED BY <2>1, <2>3, <2>4
<1>4. /\ hold' \in [Hops -> [to : Endpoints \cup Hops, chunk : 1..N] \cup {None}]
      /\ StageInv'
      /\ Fwd("C", "A") = <<>> /\ Fwd("C", "A")' = <<x>>
      /\ \A g \in Hops : \A z : g # "C" \/ z # "A" => Fwd(g, z)' = Fwd(g, z)
  <2>1. "C" \in Hops /\ "A" \in {Left("C"), Right("C")}
    BY DEF Hops, Left
  <2> HIDE DEF x
  <2> QED BY <1>1, <1>3, <2>1, Take
<1>5. /\ q' \in [Links -> Seq((1..N) \cup Heads)]
      /\ BufferInv' /\ Live' = Live
      /\ q'[PC] = Tail(q[PC]) /\ \A k \in Links \ {PC} : q'[k] = q[k]
  <2>1. q'[PC] = Tail(q[PC])
    BY <1>1, LinkNames DEF TypeOK
  <2>2. pc["P"] \notin {"idle", "serve"}
    BY <1>1 DEF BufferInv
  <2> QED BY <1>1, <1>2, <1>3, <2>1, <2>2, ResponseStep
<1>6. TypeOK'
  BY <1>1, <1>4, <1>5 DEF TypeOK
<1>7. LinkInv'
  BY <1>1 DEF LinkInv, Dialled, Tunnelled
<1>8. EarlyInv'
  BY <1>1, <1>3 DEF EarlyInv
<1>9. UpInv'
  <2>1. /\ q'[PO] = q[PO] /\ q'[CP] = q[CP] /\ q'[AC] = q[AC]
        /\ Fwd("C", "P")' = Fwd("C", "P") /\ Fwd("P", "O")' = Fwd("P", "O")
    BY <1>4, <1>5, LinkNames DEF Hops
  <2> QED BY <1>1, <1>5, <2>1 DEF UpInv
<1>10. DownInv'
  <2>1. PICK d \in 0..N : Down(d)
    BY DEF DownInv
  <2>2. Flow(d, got["A"], q[CA], Fwd("C", "A"), Body, Fwd("P", "C"), q[OP], sent["O"],
             CA, PC, OP, Live)
    BY <2>1 DEF Down
  <2>3. d \in Nat
    BY TunnelAssumption
  <2>4. Flow(d, got["A"], q[CA], <<x>>, Tail(Body), Fwd("P", "C"), q[OP], sent["O"],
             CA, PC, OP, Live)
    BY <1>1, <1>2, <1>4, <2>2, <2>3, StagesTyped, FlowReadNear DEF Hops, Endpoints
  <2>5. q'[CA] = q[CA] /\ q'[OP] = q[OP] /\ Fwd("P", "C")' = Fwd("P", "C") /\ Body' = Tail(Body)
    BY <1>2, <1>4, <1>5, LinkNames DEF Hops
  <2>6. Down(d)'
    BY <1>1, <1>4, <1>5, <2>1, <2>4, <2>5 DEF Down
  <2> QED BY <2>6 DEF DownInv
<1> QED BY <1>4, <1>5, <1>6, <1>7, <1>8, <1>9, <1>10

-----------------------------------------------------------------------------
(***************************************************************************)
(* The copy loops write.                                                   *)
(***************************************************************************)
\* A loop has done with its chunk.
LEMMA Release ==
    ASSUME IInv, NEW h \in Hops, hold[h] # None, hold' = [hold EXCEPT ![h] = None], UNCHANGED <<pc, answer>>
    PROVE  /\ hold' \in [Hops -> [to : Endpoints \cup Hops, chunk : 1..N] \cup {None}]
           /\ StageInv' /\ pc[h] = "copy"
           /\ hold[h].chunk \in 1..N /\ hold[h].to \in {Left(h), Right(h)}
           /\ \A y : Fwd(h, y)' = <<>>
           /\ Fwd(h, hold[h].to) = <<hold[h].chunk>>
           /\ \A g \in Hops : \A z : g # h \/ z # hold[h].to => Fwd(g, z)' = Fwd(g, z)
<1> USE DEF IInv
<1>1. hold'[h] = None /\ \A g \in Hops \ {h} : hold'[g] = hold[g]
  BY DEF TypeOK
<1>2. hold' \in [Hops -> [to : Endpoints \cup Hops, chunk : 1..N] \cup {None}]
  BY DEF TypeOK
<1>3. StageInv'
  BY <1>1 DEF StageInv, Dialled
<1>4. hold[h].chunk \in 1..N /\ hold[h].to \in {Left(h), Right(h)} /\ pc[h] = "copy"
  BY DEF TypeOK, StageInv
<1>5. (\A y : Fwd(h, y)' = <<>>) /\ Fwd(h, hold[h].to) = <<hold[h].chunk>>
  BY <1>1 DEF Fwd
<1>6. \A g \in Hops : \A z : g # h \/ z # hold[h].to => Fwd(g, z)' = Fwd(g, z)
  BY <1>1 DEF Fwd
<1> QED BY <1>2, <1>3, <1>4, <1>5, <1>6

\* The links a loop writes to.
LEMMA Outward ==
    /\ <<"C", "A">> = CA /\ <<"C", "P">> = CP /\ <<"P", "C">> = PC /\ <<"P", "O">> = PO
    /\ Left("C") = "A" /\ Right("C") = "P" /\ Left("P") = "C" /\ Right("P") = "O"
  BY DEF CA, CP, PC, PO, Left, Right

\* The write is lost: the connection is closed.
LEMMA WriteLost ==
    ASSUME IInv, NEW h \in Hops, hold[h] # None, hold' = [hold EXCEPT ![h] = None],
           NEW l \in Links, l = <<h, hold[h].to>>, l \notin rd,
           NEW r \in Prefixes(q[Rev(l)]), q' = [q EXCEPT ![Rev(l)] = r],
           UNCHANGED <<wr, rd, pc, answer, row, style, sent, got>>
    PROVE  IInv'
<1> USE DEF IInv
<1>1. /\ hold' \in [Hops -> [to : Endpoints \cup Hops, chunk : 1..N] \cup {None}]
      /\ StageInv' /\ hold[h].to \in {Left(h), Right(h)}
      /\ \A y : Fwd(h, y)' = <<>>
      /\ \A g \in Hops : \A z : g # h \/ z # hold[h].to => Fwd(g, z)' = Fwd(g, z)
  BY Release
<1>2. /\ q' \in [Links -> Seq((1..N) \cup Heads)]
      /\ BufferInv' /\ Live' = Live
      /\ \A k \in Links : q[k] = <<>> => q'[k] = <<>>
      /\ \A k \in {AC, CA, CP, PO, OP} : Rest(q'[k], q[k]) /\ (k \in Live => q'[k] = q[k])
      /\ Rest(Body', Body) /\ (PC \in Live => Body' = Body)
  BY LostPut
<1>3. l \notin Live
  BY DEF Live
<1>4. /\ PO \in Live => Fwd("P", "O")' = Fwd("P", "O")
      /\ CP \in Live => Fwd("C", "P")' = Fwd("C", "P")
      /\ CA \in Live => Fwd("C", "A")' = Fwd("C", "A")
      /\ PC \in Live => Fwd("P", "C")' = Fwd("P", "C")
  BY <1>1, <1>3, Outward DEF Hops
<1>5. TypeOK'
  BY <1>1, <1>2 DEF TypeOK
<1>6. LinkInv'
  BY DEF LinkInv, Dialled, Tunnelled
<1>7. EarlyInv'
  <2>1. Fwd("P", "O") = <<>> => Fwd("P", "O")' = <<>>
    BY <1>1 DEF Hops
  <2>2. answer # "200" => \A k \in {AC, CP, PO, CA} : q'[k] = <<>>
    BY <1>2, LinkNames DEF EarlyInv
  <2> QED BY <2>1, <2>2 DEF EarlyInv
<1>8. UpInv'
  <2>1. sent'["A"] \in Nat /\ sent["A"] <= sent'["A"] /\ sent'["A"] = sent["A"] /\ got'["O"] = got["O"]
    BY StagesTyped DEF Endpoints
  <2> QED BY <1>2, <1>4, <2>1, UpCut
<1>9. DownInv'
  <2>1. PICK d \in 0..N : Down(d)
    BY DEF DownInv
  <2>2. sent'["O"] \in Nat /\ sent["O"] <= sent'["O"] /\ sent'["O"] = sent["O"] /\ got'["A"] = got["A"]
    BY StagesTyped DEF Endpoints
  <2> QED BY <1>2, <1>4, <2>1, <2>2, DownCut
<1> QED BY <1>1, <1>2, <1>5, <1>6, <1>7, <1>8, <1>9

\* The client proxy writes to the provider.
LEMMA WriteToProvider ==
    ASSUME IInv, hold["C"] # None, hold["C"].to = "P", hold' = [hold EXCEPT !["C"] = None],
           CP \in rd, q' = [q EXCEPT ![CP] = Append(@, hold["C"].chunk)],
           UNCHANGED <<wr, rd, pc, answer, row, style, sent, got>>
    PROVE  IInv'
<1> USE DEF IInv
<1> DEFINE x == hold["C"].chunk
<1>1. /\ hold' \in [Hops -> [to : Endpoints \cup Hops, chunk : 1..N] \cup {None}]
      /\ StageInv' /\ pc["C"] = "copy" /\ x \in 1..N
      /\ Fwd("C", "P")' = <<>> /\ Fwd("C", "P") = <<x>>
      /\ \A g \in Hops : \A z : g # "C" \/ z # "P" => Fwd(g, z)' = Fwd(g, z)
  BY Release DEF Hops
<1> HIDE DEF x
<1>2. Append(q[CP], x) \in Seq(1..N) /\ x \in Nat
  BY <1>1, StagesTyped, SeqWrite
<1>3. /\ q' \in [Links -> Seq((1..N) \cup Heads)]
      /\ BufferInv' /\ Live' = Live /\ Body' = Body
      /\ q'[CP] = Append(q[CP], x) /\ \A k \in Links \ {CP} : q'[k] = q[k]
  <2>1. q' = [q EXCEPT ![CP] = Append(q[CP], x)]
    BY DEF x
  <2> QED BY <1>2, <2>1, LinkStep
<1>4. TypeOK'
  BY <1>1, <1>3 DEF TypeOK
<1>5. LinkInv'
  BY DEF LinkInv, Dialled, Tunnelled
<1>6. answer = "200" /\ CP \in Live
  BY <1>1 DEF StageInv, LinkInv, Dialled, Live
<1>7. EarlyInv'
  BY <1>6 DEF EarlyInv
<1>8. UpInv'
  <2>1. Flow(0, got["O"], q[PO], Fwd("P", "O"), q[CP], Fwd("C", "P"), q[AC], sent["A"],
             PO, CP, AC, Live)
    BY DEF UpInv
  <2>2. Flow(0, got["O"], q[PO], Fwd("P", "O"), Append(q[CP], x), <<>>, q[AC], sent["A"],
             PO, CP, AC, Live)
    BY <1>1, <1>2, <1>6, <2>1, StagesTyped, FlowWriteFar DEF Hops, Endpoints
  <2>3. q'[PO] = q[PO] /\ q'[AC] = q[AC] /\ Fwd("P", "O")' = Fwd("P", "O")
    BY <1>1, <1>3, LinkNames DEF Hops
  <2> QED BY <1>1, <1>3, <2>2, <2>3 DEF UpInv
<1>9. DownInv'
  <2>1. /\ q'[CA] = q[CA] /\ q'[OP] = q[OP]
        /\ Fwd("C", "A")' = Fwd("C", "A") /\ Fwd("P", "C")' = Fwd("P", "C")
    BY <1>1, <1>3, LinkNames DEF Hops
  <2> QED BY <1>3, <2>1 DEF DownInv, Down
<1> QED BY <1>1, <1>3, <1>4, <1>5, <1>7, <1>8, <1>9

\* The provider proxy writes to the origin.
LEMMA WriteToOrigin ==
    ASSUME IInv, hold["P"] # None, hold["P"].to = "O", hold' = [hold EXCEPT !["P"] = None],
           PO \in rd, q' = [q EXCEPT ![PO] = Append(@, hold["P"].chunk)],
           UNCHANGED <<wr, rd, pc, answer, row, style, sent, got>>
    PROVE  IInv'
<1> USE DEF IInv
<1> DEFINE x == hold["P"].chunk
<1>1. /\ hold' \in [Hops -> [to : Endpoints \cup Hops, chunk : 1..N] \cup {None}]
      /\ StageInv' /\ pc["P"] = "copy" /\ x \in 1..N
      /\ Fwd("P", "O")' = <<>> /\ Fwd("P", "O") = <<x>>
      /\ \A g \in Hops : \A z : g # "P" \/ z # "O" => Fwd(g, z)' = Fwd(g, z)
  BY Release DEF Hops
<1> HIDE DEF x
<1>2. Append(q[PO], x) \in Seq(1..N) /\ x \in Nat
  BY <1>1, StagesTyped, SeqWrite
<1>3. /\ q' \in [Links -> Seq((1..N) \cup Heads)]
      /\ BufferInv' /\ Live' = Live /\ Body' = Body
      /\ q'[PO] = Append(q[PO], x) /\ \A k \in Links \ {PO} : q'[k] = q[k]
  <2>1. q' = [q EXCEPT ![PO] = Append(q[PO], x)]
    BY DEF x
  <2> QED BY <1>2, <2>1, LinkStep
<1>4. TypeOK'
  BY <1>1, <1>3 DEF TypeOK
<1>5. LinkInv'
  BY DEF LinkInv, Dialled, Tunnelled
<1>6. answer = "200" /\ PO \in Live
  <2>1. <<x>> # <<>>
    OBVIOUS
  <2> QED BY <1>1, <2>1 DEF EarlyInv, LinkInv, Tunnelled, Live
<1>7. EarlyInv'
  BY <1>6 DEF EarlyInv
<1>8. UpInv'
  <2>1. Flow(0, got["O"], q[PO], Fwd("P", "O"), q[CP], Fwd("C", "P"), q[AC], sent["A"],
             PO, CP, AC, Live)
    BY DEF UpInv
  <2>2. Flow(0, got["O"], Append(q[PO], x), <<>>, q[CP], Fwd("C", "P"), q[AC], sent["A"],
             PO, CP, AC, Live)
    BY <1>1, <1>2, <1>6, <2>1, StagesTyped, FlowWriteNear DEF Hops, Endpoints
  <2>3. q'[CP] = q[CP] /\ q'[AC] = q[AC] /\ Fwd("C", "P")' = Fwd("C", "P")
    BY <1>1, <1>3, LinkNames DEF Hops
  <2> QED BY <1>1, <1>3, <2>2, <2>3 DEF UpInv
<1>9. DownInv'
  <2>1. /\ q'[CA] = q[CA] /\ q'[OP] = q[OP]
        /\ Fwd("C", "A")' = Fwd("C", "A") /\ Fwd("P", "C")' = Fwd("P", "C")
    BY <1>1, <1>3, LinkNames DEF Hops
  <2> QED BY <1>3, <2>1 DEF DownInv, Down
<1> QED BY <1>1, <1>3, <1>4, <1>5, <1>7, <1>8, <1>9

\* The client proxy writes to the application.
LEMMA WriteToApplication ==
    ASSUME IInv, hold["C"] # None, hold["C"].to = "A", hold' = [hold EXCEPT !["C"] = None],
           CA \in rd, q' = [q EXCEPT ![CA] = Append(@, hold["C"].chunk)],
           UNCHANGED <<wr, rd, pc, answer, row, style, sent, got>>
    PROVE  IInv'
<1> USE DEF IInv
<1> DEFINE x == hold["C"].chunk
<1>1. /\ hold' \in [Hops -> [to : Endpoints \cup Hops, chunk : 1..N] \cup {None}]
      /\ StageInv' /\ pc["C"] = "copy" /\ x \in 1..N
      /\ Fwd("C", "A")' = <<>> /\ Fwd("C", "A") = <<x>>
      /\ \A g \in Hops : \A z : g # "C" \/ z # "A" => Fwd(g, z)' = Fwd(g, z)
  BY Release DEF Hops
<1> HIDE DEF x
<1>2. Append(q[CA], x) \in Seq(1..N) /\ x \in Nat
  BY <1>1, StagesTyped, SeqWrite
<1>3. /\ q' \in [Links -> Seq((1..N) \cup Heads)]
      /\ BufferInv' /\ Live' = Live /\ Body' = Body
      /\ q'[CA] = Append(q[CA], x) /\ \A k \in Links \ {CA} : q'[k] = q[k]
  <2>1. q' = [q EXCEPT ![CA] = Append(q[CA], x)]
    BY DEF x
  <2> QED BY <1>2, <2>1, LinkStep
<1>4. TypeOK'
  BY <1>1, <1>3 DEF TypeOK
<1>5. LinkInv'
  BY DEF LinkInv, Dialled, Tunnelled
<1>6. answer = "200" /\ CA \in Live
  BY <1>1 DEF StageInv, LinkInv, Live
<1>7. EarlyInv'
  BY <1>6 DEF EarlyInv
<1>8. UpInv'
  <2>1. /\ q'[PO] = q[PO] /\ q'[CP] = q[CP] /\ q'[AC] = q[AC]
        /\ Fwd("C", "P")' = Fwd("C", "P") /\ Fwd("P", "O")' = Fwd("P", "O")
    BY <1>1, <1>3, LinkNames DEF Hops
  <2> QED BY <1>3, <2>1 DEF UpInv
<1>9. DownInv'
  <2>1. PICK d \in 0..N : Down(d)
    BY DEF DownInv
  <2>2. Flow(d, got["A"], q[CA], Fwd("C", "A"), Body, Fwd("P", "C"), q[OP], sent["O"],
             CA, PC, OP, Live)
    BY <2>1 DEF Down
  <2>3. d \in Nat
    BY TunnelAssumption
  <2>4. Flow(d, got["A"], Append(q[CA], x), <<>>, Body, Fwd("P", "C"), q[OP], sent["O"],
             CA, PC, OP, Live)
    BY <1>1, <1>2, <1>6, <2>2, <2>3, StagesTyped, FlowWriteNear DEF Hops, Endpoints
  <2>5. q'[OP] = q[OP] /\ Fwd("P", "C")' = Fwd("P", "C")
    BY <1>1, <1>3, LinkNames DEF Hops
  <2>6. Down(d)'
    BY <1>1, <1>3, <2>1, <2>4, <2>5 DEF Down
  <2> QED BY <2>6 DEF DownInv
<1> QED BY <1>1, <1>3, <1>4, <1>5, <1>7, <1>8, <1>9

\* The provider proxy writes to the client proxy, which may not have read the head yet.
LEMMA WriteToClient ==
    ASSUME IInv, hold["P"] # None, hold["P"].to = "C", hold' = [hold EXCEPT !["P"] = None],
           PC \in rd, q' = [q EXCEPT ![PC] = Append(@, hold["P"].chunk)],
           UNCHANGED <<wr, rd, pc, answer, row, style, sent, got>>
    PROVE  IInv'
<1> USE DEF IInv
<1> DEFINE x == hold["P"].chunk
<1>1. /\ hold' \in [Hops -> [to : Endpoints \cup Hops, chunk : 1..N] \cup {None}]
      /\ StageInv' /\ pc["P"] = "copy" /\ x \in 1..N
      /\ Fwd("P", "C")' = <<>> /\ Fwd("P", "C") = <<x>>
      /\ \A g \in Hops : \A z : g # "P" \/ z # "C" => Fwd(g, z)' = Fwd(g, z)
  BY Release DEF Hops
<1> HIDE DEF x
<1> DEFINE S == (1..N) \cup Heads
           s == Append(q[PC], x)
<1>2. q[PC] \in Seq(S) /\ x \in S /\ x \in Nat
  BY <1>1, LinkNames DEF TypeOK
<1>3. /\ s \in Seq(S) /\ s # <<>>
      /\ q[PC] # <<>> => s[1] = q[PC][1] /\ Tail(s) = Append(Tail(q[PC]), x)
  <2> HIDE DEF S
  <2>1. s \in Seq(S) /\ s # <<>>
    BY <1>2, SeqWrite
  <2>2. q[PC] # <<>> => s[1] = q[PC][1]
    BY <1>2
  <2>3. q[PC] # <<>> => Tail(s) = Append(Tail(q[PC]), x)
    BY <1>2
  <2> QED BY <2>1, <2>2, <2>3
<1>4. q'[PC] = s
  BY LinkNames DEF TypeOK, x
<1>5. pc["C"] = "head" => q[PC] # <<>>
  BY <1>1 DEF BufferInv, Tunnelled
<1>6. Body' = Append(Body, x)
  BY <1>3, <1>4, <1>5 DEF Body
<1>7. Body' \in Seq(1..N)
  BY <1>1, <1>6, StagesTyped, SeqWrite
<1>8. /\ q' \in [Links -> Seq(S)]
      /\ BufferInv' /\ Live' = Live
      /\ \A k \in Links \ {PC} : q'[k] = q[k]
  <2>1. q' = [q EXCEPT ![PC] = s]
    BY DEF x
  <2>2. pc["C"] = "head" => s # <<>> /\ s[1] \in Heads
    BY <1>3, <1>5 DEF BufferInv
  <2> HIDE DEF s
  <2> QED BY <1>1, <1>3, <1>7, <2>1, <2>2, ResponseStep
<1>9. TypeOK'
  BY <1>1, <1>8 DEF TypeOK
<1>10. LinkInv'
  BY DEF LinkInv, Dialled, Tunnelled
<1>11. PC \in Live
  BY <1>1 DEF LinkInv, Live
<1>12. EarlyInv'
  <2>1. Fwd("P", "O")' = Fwd("P", "O")
    BY <1>1 DEF Hops
  <2>2. \A l \in {AC, CP, PO, CA} : q'[l] = q[l]
    BY <1>8, LinkNames
  <2> QED BY <2>1, <2>2 DEF EarlyInv
<1>13. UpInv'
  <2>1. /\ q'[PO] = q[PO] /\ q'[CP] = q[CP] /\ q'[AC] = q[AC]
        /\ Fwd("C", "P")' = Fwd("C", "P") /\ Fwd("P", "O")' = Fwd("P", "O")
    BY <1>1, <1>8, LinkNames DEF Hops
  <2> QED BY <1>8, <2>1 DEF UpInv
<1>14. DownInv'
  <2>1. PICK d \in 0..N : Down(d)
    BY DEF DownInv
  <2>2. Flow(d, got["A"], q[CA], Fwd("C", "A"), Body, Fwd("P", "C"), q[OP], sent["O"],
             CA, PC, OP, Live)
    BY <2>1 DEF Down
  <2>3. d \in Nat
    BY TunnelAssumption
  <2>4. Flow(d, got["A"], q[CA], Fwd("C", "A"), Append(Body, x), <<>>, q[OP], sent["O"],
             CA, PC, OP, Live)
    BY <1>1, <1>2, <1>11, <2>2, <2>3, StagesTyped, FlowWriteFar DEF Hops, Endpoints
  <2>5. q'[CA] = q[CA] /\ q'[OP] = q[OP] /\ Fwd("C", "A")' = Fwd("C", "A")
    BY <1>1, <1>8, LinkNames DEF Hops
  <2>6. Down(d)'
    BY <1>1, <1>6, <1>8, <2>1, <2>4, <2>5 DEF Down
  <2> QED BY <2>6 DEF DownInv
<1> QED BY <1>1, <1>8, <1>9, <1>10, <1>12, <1>13, <1>14

LEMMA CopyWriteInv ==
    ASSUME IInv, NEW h \in Hops, CopyWrite(h)
    PROVE  IInv'
<1> DEFINE l == <<h, hold[h].to>>
           x == hold[h].chunk
<1>1. /\ hold[h] # None /\ Put(l, x) /\ hold' = [hold EXCEPT ![h] = None]
      /\ UNCHANGED <<wr, rd, pc, answer, row, style, sent, got>>
  BY DEF CopyWrite, ends
<1>2. hold[h].to \in {Left(h), Right(h)}
  BY <1>1 DEF IInv, StageInv
<1>3. l \in Links
  BY <1>2, Outward, LinkNames DEF Hops
<1>4. CASE l \in rd /\ q' = [q EXCEPT ![l] = Append(@, x)]
  BY <1>1, <1>2, <1>4, Outward, WriteToApplication, WriteToProvider, WriteToClient, WriteToOrigin DEF Hops
<1>5. CASE l \notin rd /\ \E r \in Prefixes(q[Rev(l)]) : q' = [q EXCEPT ![Rev(l)] = r]
  <2>1. PICK r \in Prefixes(q[Rev(l)]) : q' = [q EXCEPT ![Rev(l)] = r]
    BY <1>5
  <2> DEFINE k == l
  <2>2. k \in Links /\ k = <<h, hold[h].to>> /\ k \notin rd /\ r \in Prefixes(q[Rev(k)])
        /\ q' = [q EXCEPT ![Rev(k)] = r]
    BY <1>3, <1>5, <2>1
  <2> HIDE DEF k
  <2> QED BY <1>1, <2>2, WriteLost
<1> QED BY <1>1, <1>4, <1>5 DEF Put

-----------------------------------------------------------------------------
(***************************************************************************)
(* The handlers of the CONNECT request.                                    *)
(***************************************************************************)
\* A proxy that does not copy has nothing in hand.
LEMMA EmptyHands ==
    ASSUME IInv, NEW h \in Hops, pc[h] # "copy"
    PROVE  hold[h] = None /\ \A y : Fwd(h, y) = <<>>
  BY DEF IInv, StageInv, Fwd

LEMMA DialProxyInv ==
    ASSUME IInv, DialProxy
    PROVE  IInv'
<1> USE DEF IInv
<1>1. /\ pc["C"] = "connect" /\ pc["P"] = "idle" /\ answer # "200"
      /\ UNCHANGED <<q, hold, row, style, sent, got>>
  BY DEF DialProxy, ends, StageInv
<1>2. /\ CP \notin rd /\ PC \notin rd /\ OP \notin rd /\ PO \notin rd
      /\ CP \notin wr /\ PC \notin wr /\ OP \notin wr /\ PO \notin wr
  BY <1>1 DEF LinkInv, Dialled, Tunnelled
<1>3. \A h, y : Fwd(h, y)' = Fwd(h, y)
  BY <1>1, SameHands
<1>4. CASE /\ pc' = [pc EXCEPT !["C"] = "head", !["P"] = "serve"]
           /\ Connect(CP) /\ UNCHANGED answer
  <2>1. pc'["C"] = "head" /\ pc'["P"] = "serve"
    BY <1>4 DEF TypeOK, Hops
  <2>2. wr' = wr \cup {CP, PC} /\ rd' = rd \cup {CP, PC}
    BY <1>4, LinkNames DEF Connect
  <2>3. /\ \A l \in Links \ {AC, CA} : q[l] = <<>>
        /\ q[AC] = <<>> /\ q[CA] = <<>> /\ sent["A"] = 0 /\ sent["O"] = 0
        /\ got["A"] = <<>> /\ got["O"] = <<>>
    BY <1>1, <1>2, LinkNames DEF BufferInv, EarlyInv, Endpoints
  <2>4. \A h \in Hops : \A y : Fwd(h, y)' = <<>>
    BY <1>1, <1>3, EmptyHands DEF Hops
  <2>5. Body' = <<>>
    BY <1>1, <2>1, <2>3, LinkNames DEF Body
  <2>6. TypeOK'
    BY <1>1, <1>4, <2>2, LinkNames DEF TypeOK, Hops
  <2>7. LinkInv'
    BY <1>1, <1>2, <2>1, <2>2, LinkNames DEF LinkInv, Dialled, Tunnelled
  <2>8. StageInv'
    BY <1>1, <1>4, <2>1, EmptyHands DEF StageInv, Dialled, Hops
  <2>9. BufferInv'
    <3>1. <<>> \in Seq(1..N)
      OBVIOUS
    <3> QED BY <1>1, <2>1, <2>3, <2>5, <3>1, LinkNames DEF BufferInv, Tunnelled
  <2>10. EarlyInv'
    BY <1>1, <1>3, <1>4, <2>2, <2>3 DEF EarlyInv
  <2>11. q[PO] = <<>> /\ q[CP] = <<>> /\ q[OP] = <<>>
    BY <2>3, LinkNames
  <2>12. UpInv'
    BY <1>1, <2>3, <2>4, <2>11, FlowEmpty DEF UpInv, Hops
  <2>13. Down(0)'
    BY <1>1, <2>3, <2>4, <2>5, <2>11, FlowEmpty DEF Down, Hops
  <2>14. 0 \in 0..N
    BY TunnelAssumption
  <2> QED BY <2>6, <2>7, <2>8, <2>9, <2>10, <2>12, <2>13, <2>14 DEF DownInv
<1>5. CASE Answer("502") /\ UNCHANGED <<wr, rd>>
  <2>1. answer' = "502" /\ pc' = [pc EXCEPT !["C"] = "refused"]
    BY <1>5 DEF Answer
  <2>2. pc'["C"] = "refused" /\ pc'["P"] = pc["P"]
    BY <2>1 DEF TypeOK, Hops
  <2>3. Body' = Body
    BY <1>1, <2>2 DEF Body
  <2>4. TypeOK'
    BY <1>1, <1>5, <2>1 DEF TypeOK, Hops
  <2>5. LinkInv'
    BY <1>1, <1>5, <2>2 DEF LinkInv, Dialled, Tunnelled
  <2>6. StageInv'
    BY <1>1, <2>1, <2>2, EmptyHands DEF StageInv, Dialled, Hops
  <2>7. BufferInv'
    BY <1>1, <1>5, <2>2, <2>3 DEF BufferInv, Tunnelled
  <2>8. EarlyInv'
    BY <1>1, <1>3, <1>5, <2>1, <2>2 DEF EarlyInv
  <2>9. Live' = Live
    BY <1>5 DEF Live
  <2>10. UpInv'
    BY <1>1, <1>3, <2>9 DEF UpInv
  <2>11. DownInv'
    BY <1>1, <1>3, <2>1, <2>3, <2>9 DEF DownInv, Down
  <2> QED BY <2>4, <2>5, <2>6, <2>7, <2>8, <2>10, <2>11
<1> QED BY <1>4, <1>5 DEF DialProxy, CP

LEMMA ServeInv ==
    ASSUME IInv, Serve
    PROVE  IInv'
<1> USE DEF IInv
<1> DEFINE S == (1..N) \cup Heads
<1>1. /\ pc["P"] = "serve" /\ answer # "200"
      /\ UNCHANGED <<hold, answer, row, style, sent, got>>
  BY DEF Serve, ends, StageInv
<1>2. PICK head \in Heads :
        /\ Put(PC, head)
        /\ pc' = [pc EXCEPT !["P"] = IF head = OK THEN "upgrade" ELSE "refused"]
        /\ \/ head = OK /\ Validated /\ Connect(PO)
           \/ head # OK /\ UNCHANGED <<wr, rd>>
  BY TunnelAssumption DEF Serve, ConnectOrigin, Respond, Heads, OK, BadRequest, BadGateway, PC, PO
<1>3. /\ pc'["C"] = pc["C"] /\ pc["C"] \notin {"upgrade", "copy"}
      /\ head = OK => pc'["P"] = "upgrade"
      /\ head # OK => pc'["P"] = "refused"
  BY <1>1, <1>2 DEF TypeOK, Hops, StageInv
<1>4. /\ PO \notin rd /\ OP \notin rd /\ PO \notin wr /\ OP \notin wr
      /\ PC \in wr /\ CP \in rd /\ (PC \in rd <=> pc["C"] = "head")
  BY <1>1, <1>3 DEF LinkInv, Dialled, Tunnelled
<1>5. /\ \A l \in Links : q[l] = <<>>
      /\ sent["A"] = 0 /\ sent["O"] = 0 /\ got["A"] = <<>> /\ got["O"] = <<>>
      /\ CA \in rd /\ AC \in wr
  BY <1>1, <1>4, LinkNames DEF BufferInv, EarlyInv, Endpoints
<1>6. \A h \in Hops : \A y : Fwd(h, y)' = <<>>
  <2>1. \A h, y : Fwd(h, y)' = Fwd(h, y)
    BY <1>1, SameHands
  <2> QED BY <1>1, <1>3, <2>1, EmptyHands DEF Hops
<1>7. /\ \A l \in Links \ {PC} : q'[l] = <<>>
      /\ q'[PC] = IF PC \in rd THEN <<head>> ELSE <<>>
      /\ q' \in [Links -> Seq(S)]
  <2>1. CASE PC \in rd /\ q' = [q EXCEPT ![PC] = Append(@, head)]
    <3>1. Append(<<>>, head) = <<head>>
      OBVIOUS
    <3>2. <<head>> \in Seq(S)
      OBVIOUS
    <3>3. q' = [q EXCEPT ![PC] = <<head>>]
      BY <1>5, <2>1, <3>1, LinkNames
    <3> HIDE DEF S
    <3>4. q \in [Links -> Seq(S)]
      BY DEF TypeOK, S
    <3>5. PC \in Links
      BY LinkNames
    <3> DEFINE t == <<head>>
    <3> HIDE DEF t
    <3>6. t \in Seq(S) /\ q' = [q EXCEPT ![PC] = t]
      BY <3>2, <3>3 DEF t
    <3>7. q' \in [Links -> Seq(S)] /\ q'[PC] = t /\ \A l \in Links \ {PC} : q'[l] = q[l]
      BY <3>4, <3>5, <3>6
    <3> QED BY <1>5, <2>1, <3>7 DEF t
  <2>2. CASE PC \notin rd /\ \E r \in Prefixes(q[CP]) : q' = [q EXCEPT ![CP] = r]
    <3>1. PICK r \in Prefixes(q[CP]) : q' = [q EXCEPT ![CP] = r]
      BY <2>2
    <3>2. q[CP] = <<>> /\ <<>> \in Seq(Nat)
      BY <1>5, LinkNames
    <3>3. r = <<>>
      <4>1. r \in Seq(Nat) /\ Len(r) <= Len(q[CP])
        BY <3>2, PrefixRest
      <4> QED BY <3>2, <4>1
    <3>4. q' = q
      BY <1>5, <3>1, <3>3, LinkNames DEF TypeOK
    <3> QED BY <1>5, <2>2, <3>4, LinkNames DEF TypeOK
  <2> QED BY <1>2, <2>1, <2>2, LinkNames DEF Put
<1>8. Body' = <<>>
  <2>1. Tail(<<head>>) = <<>>
    OBVIOUS
  <2> QED BY <1>3, <1>4, <1>7, <2>1 DEF Body
<1>9. /\ wr' \subseteq Links /\ rd' \subseteq Links
      /\ head = OK => wr' = wr \cup {PO, OP} /\ rd' = rd \cup {PO, OP} /\ row = "active"
      /\ head # OK => wr' = wr /\ rd' = rd
  <2>1. head = OK => wr' = wr \cup {PO, OP} /\ rd' = rd \cup {PO, OP}
    BY <1>2, LinkNames DEF Connect
  <2>2. head = OK => row = "active"
    BY <1>2, TunnelAssumption DEF Validated, Terminated, TypeOK
  <2>3. head # OK => wr' = wr /\ rd' = rd
    BY <1>2
  <2> QED BY <2>1, <2>2, <2>3, LinkNames DEF TypeOK
<1>10. TypeOK'
  BY <1>1, <1>2, <1>7, <1>9 DEF TypeOK, Hops
<1>11. LinkInv'
  BY <1>1, <1>3, <1>4, <1>9, LinkNames DEF LinkInv, Dialled, Tunnelled
<1>12. StageInv'
  BY <1>1, <1>3, EmptyHands DEF StageInv, Dialled, Hops
<1>13. BufferInv'
  <2>1. <<>> \in Seq(1..N) /\ <<head>>[1] = head /\ <<head>> # <<>>
    OBVIOUS
  <2>2. \A l \in Links : l \notin rd' => q'[l] = <<>>
    BY <1>7, <1>9
  <2> QED BY <1>3, <1>4, <1>7, <1>8, <2>1, <2>2 DEF BufferInv
<1>14. EarlyInv'
  <2>1. CA \in rd' /\ AC \in wr'
    BY <1>5, <1>9
  <2>2. \A l \in {AC, CP, PO, CA} : q'[l] = <<>>
    BY <1>7, LinkNames
  <2>3. Fwd("P", "O")' = <<>>
    BY <1>6 DEF Hops
  <2>4. Len(<<>>) = 0
    OBVIOUS
  <2> QED BY <1>1, <1>5, <2>1, <2>2, <2>3, <2>4 DEF EarlyInv, Endpoints
<1>15. q'[PO] = <<>> /\ q'[CP] = <<>> /\ q'[AC] = <<>> /\ q'[CA] = <<>> /\ q'[OP] = <<>>
  BY <1>7, LinkNames
<1>16. UpInv'
  BY <1>1, <1>5, <1>6, <1>15, FlowEmpty DEF UpInv, Hops
<1>17. Down(0)' /\ 0 \in 0..N
  BY <1>1, <1>5, <1>6, <1>8, <1>15, FlowEmpty, TunnelAssumption DEF Down, Hops
<1> QED BY <1>10, <1>11, <1>12, <1>13, <1>14, <1>16, <1>17 DEF DownInv

\* The head is read, and with it some of the chunks behind it.
LEMMA ReadHeadInv ==
    ASSUME IInv, ReadHead
    PROVE  IInv'
<1> USE DEF IInv
<1> DEFINE S == (1..N) \cup Heads
           s == q[PC]
<1>1. /\ pc["C"] = "head" /\ s # <<>> /\ answer # "200"
      /\ UNCHANGED <<hold, row, style, sent, got>>
  BY DEF ReadHead, ends, StageInv, PC
<1>2. pc["P"] \notin {"idle", "serve"} /\ Dialled
  BY <1>1 DEF BufferInv, Dialled
<1>3. s \in Seq(S) /\ s \in Seq(Nat) /\ Body = Tail(s) /\ Tail(s) \in Seq(1..N)
  <2>1. s \in Seq(S) /\ PC \in Links
    BY LinkNames DEF TypeOK
  <2>2. S \subseteq Nat
    BY TunnelAssumption DEF Heads, OK, BadRequest, BadGateway
  <2>3. Body = Tail(s)
    BY <1>1 DEF Body
  <2> HIDE DEF S, s
  <2> QED BY <2>1, <2>2, <2>3, SeqWiden, StagesTyped
<1>4. \A h, y : Fwd(h, y)' = Fwd(h, y)
  BY <1>1, SameHands
<1>5. \A y : Fwd("C", y) = <<>>
  BY <1>1, EmptyHands DEF Hops
<1>6. CASE /\ \E n \in 1..Len(s) : q' = [q EXCEPT ![PC] = SubSeq(@, n + 1, Len(@))]
           /\ Answer("200") /\ UNCHANGED <<wr, rd>>
  <2>1. PICK n \in 1..Len(s) : q' = [q EXCEPT ![PC] = SubSeq(s, n + 1, Len(s))]
    BY <1>6
  <2> DEFINE t == SubSeq(s, n + 1, Len(s))
  <2>2. answer' = "200" /\ pc' = [pc EXCEPT !["C"] = "upgrade"]
    BY <1>6 DEF Answer
  <2>3. pc'["C"] = "upgrade" /\ pc'["P"] = pc["P"]
    BY <2>2 DEF TypeOK, Hops
  <2>4. t \in Seq(S) /\ t \in Seq(1..N)
    <3> HIDE DEF S, s
    <3> QED BY <1>3, SkipTyped
  <2>5. /\ q'[PC] = t /\ \A l \in Links \ {PC} : q'[l] = q[l]
        /\ q' \in [Links -> Seq(S)]
    <3> HIDE DEF S, t
    <3>1. PC \in Links /\ q \in [Links -> Seq(S)] /\ q' = [q EXCEPT ![PC] = t]
      BY <2>1, LinkNames DEF TypeOK, S, t
    <3> QED BY <2>4, <3>1
  <2>6. Body' = t
    BY <2>3, <2>5 DEF Body
  <2> HIDE DEF t
  <2>7. TypeOK'
    BY <1>1, <1>6, <2>2, <2>5 DEF TypeOK, Hops
  <2>8. LinkInv'
    BY <1>1, <1>2, <1>6, <2>3 DEF LinkInv, Dialled, Tunnelled
  <2>9. StageInv'
    BY <1>1, <1>2, <2>2, <2>3, EmptyHands DEF StageInv, Dialled, Hops
  <2>10. BufferInv'
    <3>1. \A l \in Links \ {PC} : q'[l] \in Seq(1..N)
      BY <2>5 DEF BufferInv
    <3>2. PC \in rd
      BY <1>1 DEF LinkInv, Dialled
    <3>3. \A l \in Links : l \notin rd' => q'[l] = <<>>
      BY <1>6, <2>5, <3>2 DEF BufferInv
    <3> QED BY <1>2, <2>3, <2>4, <2>6, <3>1, <3>3 DEF BufferInv
  <2>11. EarlyInv'
    BY <1>1, <2>2, <2>3 DEF EarlyInv
  <2>12. Live' = Live
    BY <1>6 DEF Live
  <2>13. \A l \in {AC, CA, CP, PO, OP} : q'[l] = q[l]
    BY <2>5, LinkNames
  <2>14. UpInv'
    BY <1>1, <1>4, <2>12, <2>13 DEF UpInv
  <2>15. DownInv'
    <3>1. Down(0)
      <4>1. PICK d \in 0..N : Down(d)
        BY DEF DownInv
      <4> QED BY <1>1, <4>1 DEF Down
    <3>2. got["A"] = <<>> /\ q[CA] = <<>> /\ CA \in Live /\ got["O"] = <<>>
      BY <1>1 DEF EarlyInv, LinkInv, Live, Endpoints
    <3>3. Flow(0, <<>>, <<>>, <<>>, Tail(s), Fwd("P", "C"), q[OP], sent["O"], CA, PC, OP, Live)
      BY <1>3, <1>5, <3>1, <3>2 DEF Down
    <3>4. /\ n - 1 \in 0..sent["O"]
          /\ Flow(n - 1, <<>>, <<>>, <<>>, t, Fwd("P", "C"), q[OP], sent["O"], CA, PC, OP, Live)
      <4> HIDE DEF s
      <4> QED BY <1>3, <3>2, <3>3, StagesTyped, FlowSkip DEF t, Hops, Endpoints
    <3>5. n - 1 \in 0..N
      BY <3>4, StagesTyped, TunnelAssumption DEF Endpoints
    <3>6. style = "turns" => n - 1 = 0
      <4>1. Len(<<>>) = 0
        OBVIOUS
      <4>2. style = "turns" => sent["O"] <= 0
        BY <3>2, <4>1 DEF EarlyInv
      <4> QED BY <3>4, <4>2, StagesTyped DEF Endpoints
    <3>7. Down(n - 1)'
      BY <1>1, <1>4, <1>5, <2>2, <2>6, <2>12, <2>13, <3>2, <3>4, <3>6 DEF Down
    <3> QED BY <3>5, <3>7 DEF DownInv
  <2> QED BY <2>7, <2>8, <2>9, <2>10, <2>11, <2>14, <2>15
<1>7. CASE Drop({CP}) /\ Answer("502")
  <2>1. /\ wr' = wr \ {CP}
        /\ \A l \in Links : l \in rd' <=> l \in rd /\ l # PC
        /\ q'[CP] \in Prefixes(q[CP]) /\ q'[PC] = <<>>
        /\ q'[AC] = q[AC] /\ q'[CA] = q[CA] /\ q'[PO] = q[PO] /\ q'[OP] = q[OP]
        /\ q' \in [Links -> Seq(S)]
    <3>1. {CP} \in SUBSET Links
      BY LinkNames
    <3> DEFINE out == {CP}
    <3> HIDE DEF out
    <3>2. /\ wr' = wr \ out
          /\ \A l \in Links : l \in rd' <=> l \in rd /\ Rev(l) \notin out
          /\ \A l \in out : q'[l] \in Prefixes(q[l])
          /\ \A l \in Links \ out : q'[l] = IF Rev(l) \in out THEN <<>> ELSE q[l]
          /\ q' \in [Links -> Seq(S)]
      BY <1>7, <3>1, DropEffect DEF out
    <3> QED BY <3>2, LinkNames DEF out
  <2>2. answer' = "502" /\ pc' = [pc EXCEPT !["C"] = "refused"]
    BY <1>7 DEF Answer
  <2>3. pc'["C"] = "refused" /\ pc'["P"] = pc["P"]
    BY <2>2 DEF TypeOK, Hops
  <2>4. Rest(q'[CP], q[CP]) /\ q'[CP] \in Seq(1..N)
    BY <2>1, StagesTyped, CutRest
  <2>5. Body' = <<>>
    BY <2>1, <2>3 DEF Body
  <2>6. TypeOK'
    <3>1. wr' \subseteq Links /\ rd' \subseteq Links
      BY <1>7, <2>1 DEF TypeOK, Drop
    <3> QED BY <1>1, <2>1, <2>2, <3>1 DEF TypeOK, Hops
  <2>7. LinkInv'
    BY <1>1, <2>1, <2>3, LinkNames DEF LinkInv, Dialled, Tunnelled
  <2>8. StageInv'
    BY <1>1, <2>2, <2>3, EmptyHands DEF StageInv, Dialled, Hops
  <2>9. BufferInv'
    <3>1. \A l \in Links \ {PC} : q'[l] \in Seq(1..N)
      BY <2>1, <2>4, StagesTyped, LinkNames
    <3>2. \A l \in Links : l \notin rd' => q'[l] = <<>>
      <4>1. q'[CP] = <<>> \/ CP \in rd
        BY <2>4, LinkNames DEF BufferInv, Rest
      <4> QED BY <2>1, <4>1, LinkNames DEF BufferInv
    <3>3. <<>> \in Seq(1..N)
      OBVIOUS
    <3> QED BY <2>1, <2>3, <2>5, <3>1, <3>2, <3>3 DEF BufferInv
  <2>10. EarlyInv'
    <3>1. q'[CP] = <<>>
      BY <1>1, <2>4 DEF EarlyInv, Rest
    <3> QED BY <1>1, <1>4, <2>1, <2>3, <3>1, LinkNames DEF EarlyInv
  <2>11. UpInv'
    <3>1. CP \notin Live' /\ (PO \in Live' => PO \in Live)
      BY <2>1, LinkNames DEF Live
    <3>2. Rest(q[PO], q[PO])
      BY StagesTyped, SameRest
    <3> QED BY <1>1, <1>4, <2>1, <2>4, <3>1, <3>2, StagesTyped, UpCut DEF Endpoints
  <2>12. DownInv'
    <3>1. PICK d \in 0..N : Down(d)
      BY DEF DownInv
    <3>2. PC \notin Live' /\ (CA \in Live' => CA \in Live)
      BY <2>1, LinkNames DEF Live
    <3>3. Rest(q[CA], q[CA]) /\ Rest(Body', Body)
      BY <2>5, StagesTyped, SameRest, EmptyRest
    <3> QED BY <1>1, <1>4, <2>1, <3>1, <3>2, <3>3, StagesTyped, DownCut DEF Endpoints
  <2> QED BY <2>6, <2>7, <2>8, <2>9, <2>10, <2>11, <2>12
<1> QED BY <1>6, <1>7 DEF ReadHead, PC, CP

LEMMA UpgradeInv ==
    ASSUME IInv, NEW h \in Hops, pc[h] = "upgrade", pc' = [pc EXCEPT ![h] = "copy"],
           UNCHANGED <<q, wr, rd, hold, answer, ends>>
    PROVE  IInv'
<1> USE DEF IInv
<1>1. UNCHANGED <<q, wr, rd, hold, answer, row, style, sent, got>>
  BY DEF ends
<1>2. /\ pc'["C"] = pc["C"] \/ (pc["C"] = "upgrade" /\ pc'["C"] = "copy")
      /\ pc'["P"] = pc["P"] \/ (pc["P"] = "upgrade" /\ pc'["P"] = "copy")
  BY DEF TypeOK, Hops
<1>3. (\A g, y : Fwd(g, y)' = Fwd(g, y)) /\ Live' = Live /\ Body' = Body
  BY <1>1, <1>2, SameHands DEF Live, Body
<1>4. TypeOK'
  BY <1>1 DEF TypeOK, Hops
<1>5. LinkInv'
  BY <1>1, <1>2 DEF LinkInv, Dialled, Tunnelled
<1>6. StageInv'
  <2>1. \A g \in Hops : hold[g] # None => pc'[g] = "copy"
    BY DEF StageInv, TypeOK
  <2> QED BY <1>1, <1>2, <2>1 DEF StageInv, Dialled
<1>7. BufferInv'
  BY <1>1, <1>2, <1>3 DEF BufferInv, Tunnelled
<1>8. EarlyInv'
  BY <1>1, <1>2, <1>3 DEF EarlyInv
<1>9. UpInv' /\ DownInv'
  BY <1>1, <1>3 DEF UpInv, DownInv, Down
<1> QED BY <1>4, <1>5, <1>6, <1>7, <1>8, <1>9

-----------------------------------------------------------------------------
(***************************************************************************)
(* The invariant is inductive.                                             *)
(***************************************************************************)
LEMMA InitInv == Init => IInv
<1> SUFFICES ASSUME Init PROVE IInv
  OBVIOUS
<1>1. /\ \A l \in Links : q[l] = <<>>
      /\ wr = {AC, CA} /\ rd = {AC, CA}
      /\ pc["C"] = "connect" /\ pc["P"] = "idle"
      /\ \A h \in Hops : hold[h] = None
      /\ answer = "none" /\ \A e \in Endpoints : sent[e] = 0 /\ got[e] = <<>>
  BY DEF Init, AC, CA, Hops
<1>2. TypeOK
  <2>1. <<>> \in Seq((1..N) \cup Heads) /\ <<>> \in Seq(1..N) /\ 0 \in 0..N
    BY TunnelAssumption
  <2>2. wr \subseteq Links /\ rd \subseteq Links
    BY <1>1, LinkNames
  <2> QED BY <2>1, <2>2 DEF Init, TypeOK, Hops
<1>3. LinkInv
  BY <1>1, LinkNames DEF LinkInv, Dialled, Tunnelled
<1>4. StageInv
  BY <1>1 DEF StageInv, Dialled
<1>5. Body = <<>> /\ \A h \in Hops : \A y : Fwd(h, y) = <<>>
  BY <1>1, LinkNames DEF Body, Fwd
<1>6. BufferInv
  <2>1. <<>> \in Seq(1..N)
    OBVIOUS
  <2> QED BY <1>1, <1>5, <2>1, LinkNames DEF BufferInv, Tunnelled
<1>7. EarlyInv
  <2>1. Len(<<>>) = 0
    OBVIOUS
  <2> QED BY <1>1, <1>5, <2>1, LinkNames DEF EarlyInv, Endpoints, Hops
<1>8. /\ q[PO] = <<>> /\ q[CP] = <<>> /\ q[AC] = <<>> /\ q[CA] = <<>> /\ q[OP] = <<>>
      /\ sent["A"] = 0 /\ sent["O"] = 0 /\ got["A"] = <<>> /\ got["O"] = <<>>
  BY <1>1, LinkNames DEF Endpoints
<1>9. UpInv
  BY <1>5, <1>8, FlowEmpty DEF UpInv, Hops
<1>10. Down(0) /\ 0 \in 0..N
  BY <1>5, <1>8, FlowEmpty, TunnelAssumption DEF Down, Hops
<1> QED BY <1>2, <1>3, <1>4, <1>6, <1>7, <1>9, <1>10 DEF IInv, DownInv

\* A proxy ends, in whatever way.
LEMMA EndInv ==
    ASSUME IInv, NEW h \in Hops, NEW state \in {"done", "dead"}, End(h, state),
           pc[h] \notin {"idle", "refused"}
    PROVE  IInv'
  BY EndClient, EndProvider DEF Hops

LEMMA CopyReadInv ==
    ASSUME IInv, NEW h \in Hops, NEW x \in {Left(h), Right(h)}, CopyRead(h, x)
    PROVE  IInv'
  BY Outward, ReadFromApplication, ReadFromProvider, ReadFromClient, ReadFromOrigin DEF Hops

LEMMA NextInv == IInv /\ [Next]_vars => IInv'
<1> SUFFICES ASSUME IInv, [Next]_vars PROVE IInv'
  OBVIOUS
<1>1. CASE DialProxy
  BY <1>1, DialProxyInv
<1>2. CASE Serve
  BY <1>2, ServeInv
<1>3. CASE ReadHead
  BY <1>3, ReadHeadInv
<1>4. CASE HeadReset
  BY <1>4, EndInv DEF HeadReset, Hops
<1>5. ASSUME NEW h \in Hops, Upgrade(h) PROVE IInv'
  BY <1>5, UpgradeInv, EndInv DEF Upgrade
<1>6. ASSUME NEW h \in Hops, CopyStep(h) PROVE IInv'
  <2>1. ASSUME NEW x \in {Left(h), Right(h)}, CopyFrom(h, x) PROVE IInv'
    <3>1. CASE CopyRead(h, x)
      BY <3>1, CopyReadInv
    <3>2. CASE CopyEnd(h, x)
      BY <3>2, EndInv DEF CopyEnd
    <3> QED BY <2>1, <3>1, <3>2 DEF CopyFrom
  <2>2. CASE CopyWrite(h)
    BY <2>2, CopyWriteInv
  <2>3. CASE CopyWriteFails(h)
    <3>1. pc[h] = "copy"
      BY <2>3 DEF CopyWriteFails, IInv, StageInv
    <3> QED BY <2>3, <3>1, EndInv DEF CopyWriteFails
  <2> QED BY <1>6, <2>1, <2>2, <2>3 DEF CopyStep
<1>7. ASSUME NEW h \in Hops, Dies(h) PROVE IInv'
  BY <1>7, EndInv DEF Dies
<1>8. ASSUME NEW e \in Endpoints, Send(e) PROVE IInv'
  BY <1>8, SendApplication, SendOrigin DEF Endpoints
<1>9. ASSUME NEW e \in Endpoints, Receive(e) PROVE IInv'
  BY <1>9, ReceiveApplication, ReceiveOrigin DEF Endpoints
<1>10. ASSUME NEW e \in Endpoints, HalfClose(e) PROVE IInv'
  BY <1>10, HalfCloseInv
<1>11. ASSUME NEW e \in Endpoints, Leave(e) PROVE IInv'
  BY <1>11, LeaveApplication, LeaveOrigin DEF Endpoints
<1>12. CASE UNCHANGED vars
  <2> USE DEF IInv
  <2>1. UNCHANGED <<q, wr, rd, pc, hold, answer, row, style, sent, got>>
    BY <1>12 DEF vars, ends
  <2>2. (\A h, y : Fwd(h, y)' = Fwd(h, y)) /\ Live' = Live /\ Body' = Body
    BY <2>1, SameHands, SameBody DEF Live
  <2>3. TypeOK'
    BY <2>1 DEF TypeOK
  <2>4. LinkInv' /\ StageInv'
    BY <2>1 DEF LinkInv, StageInv, Dialled, Tunnelled
  <2>5. BufferInv'
    BY <2>1, <2>2 DEF BufferInv, Tunnelled
  <2>6. EarlyInv'
    BY <2>1, <2>2 DEF EarlyInv
  <2>7. UpInv' /\ DownInv'
    BY <2>1, <2>2 DEF UpInv, DownInv, Down
  <2> QED BY <2>3, <2>4, <2>5, <2>6, <2>7
<1> QED BY <1>1, <1>2, <1>3, <1>4, <1>5, <1>6, <1>7, <1>8, <1>9, <1>10, <1>11, <1>12 DEF Next

LEMMA InductiveInvariant == Spec => []IInv
<1>1. Init => IInv
  BY InitInv
<1>2. IInv /\ [Next]_vars => IInv'
  BY NextInv
<1> QED BY <1>1, <1>2, PTL DEF Spec

\* Buffers, sockets, handlers and endpoints of the tunnel keep their types: no head of a response
\* is ever copied on as a chunk.
THEOREM TunnelTypeCorrect == Spec => []TypeOK
<1>1. IInv => TypeOK
  BY DEF IInv
<1> QED BY <1>1, InductiveInvariant, PTL

\* UpstreamFaithful: what the origin receives through both copy loops is what the application has
\* sent, from its first chunk on and in order, whoever closes or dies, and only behind a valid token.
THEOREM UpstreamInOrder == Spec => []UpstreamFaithful
<1>1. ASSUME IInv PROVE UpstreamFaithful
  <2>1. got["O"] \in Seq(1..N) /\ sent["A"] \in Nat
    BY <1>1, StagesTyped DEF IInv, Endpoints
  <2>2. Run(got["O"], 0) /\ 0 + Len(got["O"]) + Len(q[PO]) <= sent["A"]
    <3>1. UpInv
      BY <1>1 DEF IInv
    <3> QED BY <3>1 DEF UpInv, Flow
  <2>3. got["O"] = [i \in DOMAIN got["O"] |-> i]
    BY <2>1, <2>2 DEF Run
  <2>4. Len(got["O"]) <= sent["A"]
    <3>1. q[PO] \in Seq(1..N)
      BY <1>1, StagesTyped DEF IInv
    <3>2. Len(q[PO]) \in Nat /\ Len(got["O"]) \in Nat /\ Len(got["O"]) \in 0..Len(got["O"])
      BY <2>1, <3>1
    <3>3. 0 + Len(got["O"]) <= sent["A"]
      BY <2>1, <2>2, <3>2, RunBound
    <3> QED BY <3>2, <3>3
  <2>5. got["O"] # <<>> => row = "active" /\ answer = "200"
    BY <1>1 DEF IInv, EarlyInv, Endpoints
  <2> QED BY <2>3, <2>4, <2>5 DEF UpstreamFaithful
<1>2. IInv => UpstreamFaithful
  BY <1>1
<1> QED BY <1>2, InductiveInvariant, PTL

\* DownstreamFaithful: what the application receives has no gap and no repetition, and nothing is
\* missing at its beginning when the origin waits for its turn.
THEOREM DownstreamInOrder == Spec => []DownstreamFaithful
<1>1. ASSUME IInv PROVE DownstreamFaithful
  <2>1. PICK d \in 0..N : Down(d)
    BY <1>1 DEF IInv, DownInv
  <2>2. got["A"] \in Seq(1..N) /\ sent["O"] \in Nat /\ d \in Nat /\ Len(q[CA]) \in Nat
    BY <1>1, StagesTyped, TunnelAssumption DEF IInv, Endpoints
  <2>3. /\ Run(got["A"], d) /\ d + Len(got["A"]) + Len(q[CA]) <= sent["O"]
        /\ style = "turns" => d = 0
    BY <2>1 DEF Down, Flow
  <2>4. ASSUME NEW i \in DOMAIN got["A"]
        PROVE  /\ got["A"][i] = got["A"][1] + i - 1
               /\ got["A"][i] <= sent["O"]
               /\ style = "turns" => got["A"][i] = i
    <3>1. i \in 1..Len(got["A"]) /\ 1 \in 1..Len(got["A"]) /\ Len(got["A"]) \in Nat
      BY <2>2
    <3>2. got["A"][i] = d + i /\ got["A"][1] = d + 1
      BY <2>3, <3>1 DEF Run
    <3>3. got["A"][i] = got["A"][1] + i - 1
      BY <2>2, <3>1, <3>2
    <3>4. i \in 0..Len(got["A"])
      BY <3>1
    <3>5. d + i <= sent["O"]
      BY <2>2, <2>3, <3>1, <3>4, RunBound
    <3>6. got["A"][i] <= sent["O"]
      BY <3>2, <3>5
    <3>7. style = "turns" => got["A"][i] = i
      BY <2>3, <3>1, <3>2
    <3> QED BY <3>3, <3>6, <3>7
  <2> QED BY <2>4 DEF DownstreamFaithful
<1>2. IInv => DownstreamFaithful
  BY <1>1
<1> QED BY <1>2, InductiveInvariant, PTL
=============================================================================
