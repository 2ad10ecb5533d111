--------------------------- MODULE TcpInputProofs ---------------------------
(***************************************************************************)
(* Lemmas about the functions of TcpTcb and TcpInput: arithmetic around    *)
(* the circle of sequence numbers, and what each function keeps, changes   *)
(* and sends, with its types.  TcpConnProofs rests on them.                *)
(***************************************************************************)
EXTENDS TcpTypes, SequenceTheorems, TLAPS

(* Arithmetic *)

LEMMA DivMod ==
    ASSUME NEW a \in Int, NEW n \in Nat, n > 0
    PROVE  /\ a \div n \in Int /\ a % n \in 0 .. n - 1
           /\ a = n * (a \div n) + (a % n)
  OBVIOUS

LEMMA DivAtLeastOne ==
    ASSUME NEW m \in Nat, m > 0, NEW n \in Nat, n >= 1
    PROVE  ((n + m - 1) \div m) >= 1 /\ ((n + m - 1) \div m) \in Nat
  OBVIOUS

\* Products with m.
LEMMA Multiples ==
    ASSUME NEW m \in Nat, m > 0, NEW k \in Nat, NEW q \in Nat, k <= q
    PROVE  k * m \in Nat /\ q * m \in Nat /\ k * m <= q * m
  <1>1. PICK d \in Nat : q = k + d
    <2>1. q - k \in Nat /\ q = k + (q - k)
        OBVIOUS
    <2> QED  BY <2>1
  <1>2. (k + d) * m = k * m + d * m /\ d * m \in Nat /\ k * m \in Nat
      OBVIOUS
  <1> QED  BY <1>1, <1>2

LEMMA OneLess ==
    ASSUME NEW m \in Nat, m > 0, NEW k \in Nat, k >= 1
    PROVE  (k - 1) * m = k * m - m /\ (k - 1) * m \in Nat
  OBVIOUS

\* The pieces of length m that n bytes are cut into begin before the end.
LEMMA WholePieces ==
    ASSUME NEW m \in Nat, m > 0, NEW n \in Nat, NEW k \in Nat, k >= 1,
           k <= (n + m - 1) \div m
    PROVE  (k - 1) * m \in Nat /\ (k - 1) * m < n
  <1> DEFINE a == n + m - 1
             q == a \div m
             r == a % m
  <1>1. a \in Nat /\ a = n + m - 1
      OBVIOUS
  <1> HIDE DEF a
  <1>2. q \in Int /\ r \in 0 .. m - 1 /\ a = m * q + r
      BY <1>1, DivMod
  <1>3. k <= q
      BY <1>1
  <1> HIDE DEF q, r
  <1>4. q \in Nat
      BY <1>2, <1>3
  <1>5. k * m \in Nat /\ q * m \in Nat /\ k * m <= q * m
      BY <1>3, <1>4, Multiples
  <1>6. m * q = q * m
      BY <1>4
  <1>7. (k - 1) * m = k * m - m /\ (k - 1) * m \in Nat
      BY OneLess
  <1> DEFINE x == k * m  y == q * m  z == (k - 1) * m
  <1>8. x \in Nat /\ y \in Nat /\ x <= y /\ z = x - m /\ z \in Nat /\ a = y + r
      BY <1>2, <1>5, <1>6, <1>7
  <1> HIDE DEF x, y, z
  <1>9. z < n
      BY <1>1, <1>2, <1>8
  <1> QED  BY <1>8, <1>9 DEF z

LEMMA Sizes == /\ SeqSize \in Nat /\ BufSize \in Nat /\ Mtu \in Nat /\ Cwnd \in Nat
               /\ SeqSize > 2 * (BufSize + 2) /\ BufSize > 0 /\ Mtu > 0 /\ SeqSize > 0
  BY SeqSizeAssumption, SizesAssumption

-----------------------------------------------------------------------------
(* Types *)

LEMMA PlusType == ASSUME NEW a \in Int, NEW n \in Int PROVE Plus(a, n) \in SeqNum
  BY Sizes DEF SeqNum, Plus

LEMMA DiffType == ASSUME NEW a \in Int, NEW b \in Int PROVE Diff(a, b) \in Int
  BY Sizes DEF Diff

LEMMA LeastOfTwo ==
    ASSUME NEW a \in Int, NEW b \in Int
    PROVE  /\ Least(a, b) \in Int /\ Least(a, b) <= a /\ Least(a, b) <= b
           /\ Least(a, b) \in {a, b}
  BY DEF Least

LEMMA NoBytes == <<>> \in Buffers /\ <<>> \in Loads /\ <<>> \in Seq(Bytes) /\ Len(<<>>) = 0
  <1> DEFINE e == <<>>
  <1>1. e \in Seq(Bytes) /\ Len(e) = 0
      OBVIOUS
  <1> HIDE DEF e
  <1>2. e \in Buffers /\ e \in Loads
      BY <1>1, Sizes DEF Buffers, Loads
  <1> QED  BY <1>1, <1>2 DEF e

LEMMA BufferFacts ==
    ASSUME NEW s \in Buffers
    PROVE  s \in Seq(Bytes) /\ Len(s) \in Nat /\ Len(s) <= BufSize
  BY DEF Buffers

LEMMA WindowType == ASSUME NEW t \in Tcbs PROVE Window(t) \in 0..BufSize
  <1>1. t.rxbuf \in Buffers
      BY DEF Tcbs
  <1> QED  BY <1>1, Sizes, BufferFacts DEF Window

LEMMA SegmentFacts ==
    ASSUME NEW t \in Tcbs, NEW f \in SUBSET HeaderFlags, NEW n \in SeqNum, NEW d \in Loads
    PROVE  /\ Segment(t, f, n, d) \in Segments
           /\ Segment(t, f, n, d).flags = f /\ Segment(t, f, n, d).seq = n
           /\ Segment(t, f, n, d).ack = t.rcvnext /\ Segment(t, f, n, d).data = d
  <1> DEFINE w == Window(t)
  <1>1. w \in 0..BufSize /\ t.rcvnext \in SeqNum
      BY WindowType DEF Tcbs
  <1> HIDE DEF w
  <1> QED  BY <1>1 DEF Segment, Segments, w

-----------------------------------------------------------------------------
(* What the functions of a control block do, each with its types.           *)

\* Everything a transmission leaves as it is.
Kept(t, u) ==
    /\ u.state = t.state /\ u.sock = t.sock /\ u.peer = t.peer /\ u.bound = t.bound
    /\ u.sendunack = t.sendunack /\ u.rcvnext = t.rcvnext
    /\ u.txbuf = t.txbuf /\ u.rxbuf = t.rxbuf

LEMMA SetstateFacts ==
    ASSUME NEW h \in Handlers, NEW s \in States
    PROVE  LET g == Setstate(h, s) IN
           /\ g \in Handlers /\ g.ebuf = h.ebuf /\ g.out = h.out
           /\ g.t = [h.t EXCEPT !.state = s]
  BY DEF Handlers, Tcbs, Setstate

LEMMA CanceltimersFacts ==
    ASSUME NEW h \in Handlers
    PROVE  LET g == Canceltimers(h) IN
           /\ g \in Handlers /\ g.ebuf = h.ebuf /\ g.out = h.out
           /\ Kept(h.t, g.t) /\ g.t.txflags = h.t.txflags /\ g.t.flags = h.t.flags
           /\ g.t.sendnext = h.t.sendnext /\ g.t.rcvack = h.t.rcvack
           /\ g.t.retx = FALSE
  BY DEF Handlers, Tcbs, Canceltimers, Kept

LEMMA PreparectlmsgFacts ==
    ASSUME NEW h \in Handlers, NEW f \in SUBSET HeaderFlags
    PROVE  LET g == Preparectlmsg(h, f) IN
           /\ g \in Handlers /\ g.ebuf = h.ebuf /\ g.out = h.out
           /\ Kept(h.t, g.t) /\ g.t.txflags = f /\ g.t.flags = h.t.flags \cup {"SENDMSG"}
           /\ g.t.sendnext = h.t.sendnext /\ g.t.rcvack = h.t.rcvack
           /\ g.t.retx = h.t.retx
  <1> DEFINE m == h.t.flags \cup {"SENDMSG"}
             g == [h EXCEPT !.t.txflags = f, !.t.flags = m]
  <1>1. m \in SUBSET TcbFlags
      BY DEF Handlers, Tcbs, TcbFlags
  <1>2. Preparectlmsg(h, f) = g
      BY DEF Preparectlmsg, Handlers, Tcbs
  <1> HIDE DEF m
  <1>3. g \in Handlers
      BY <1>1 DEF Handlers, Tcbs
  <1>4. /\ g.ebuf = h.ebuf /\ g.out = h.out
        /\ Kept(h.t, g.t) /\ g.t.txflags = f
        /\ g.t.flags = m
        /\ g.t.sendnext = h.t.sendnext
        /\ g.t.rcvack = h.t.rcvack
        /\ g.t.retx = h.t.retx
      BY DEF Handlers, Tcbs, Kept
  <1> QED  BY <1>2, <1>3, <1>4 DEF m

LEMMA ClosetcbFacts ==
    ASSUME NEW h \in Handlers
    PROVE  LET g == Closetcb(h) IN
           /\ g \in Handlers /\ g.ebuf = h.ebuf /\ g.out = h.out
           /\ g.t.state = "CLOSED" /\ g.t.txbuf = <<>> /\ g.t.rxbuf = <<>> /\ g.t.flags = {}
           /\ g.t.sock = h.t.sock /\ g.t.peer = h.t.peer /\ g.t.bound = h.t.bound
           /\ g.t.sendunack = h.t.sendunack /\ g.t.sendnext = h.t.sendnext
           /\ g.t.rcvnext = h.t.rcvnext /\ g.t.rcvack = h.t.rcvack
           /\ g.t.txflags = h.t.txflags
  <1> DEFINE s == "CLOSED"  e == <<>>  f == {}
             m == [h EXCEPT !.t.state = s, !.t.flags = f, !.t.txbuf = e, !.t.rxbuf = e]
             g == Canceltimers(m)
  <1>1. s \in States /\ e \in Buffers /\ f \in SUBSET TcbFlags
      BY NoBytes DEF States
  <1>2. Closetcb(h) = g
      BY DEF Closetcb
  <1> HIDE DEF s, e, f
  <1>3. m \in Handlers
      BY <1>1 DEF Handlers, Tcbs
  <1>4. /\ m.ebuf = h.ebuf /\ m.out = h.out
        /\ m.t.state = s /\ m.t.txbuf = e /\ m.t.rxbuf = e /\ m.t.flags = f
        /\ m.t.sock = h.t.sock /\ m.t.peer = h.t.peer /\ m.t.bound = h.t.bound
        /\ m.t.sendunack = h.t.sendunack /\ m.t.sendnext = h.t.sendnext
        /\ m.t.rcvnext = h.t.rcvnext /\ m.t.rcvack = h.t.rcvack
        /\ m.t.txflags = h.t.txflags
      BY <1>1 DEF Handlers, Tcbs
  <1> HIDE DEF m
  <1>5. /\ g \in Handlers /\ g.ebuf = h.ebuf /\ g.out = h.out
        /\ g.t.state = s /\ g.t.txbuf = e /\ g.t.rxbuf = e /\ g.t.flags = f
        /\ g.t.sock = h.t.sock /\ g.t.peer = h.t.peer /\ g.t.bound = h.t.bound
        /\ g.t.sendunack = h.t.sendunack /\ g.t.sendnext = h.t.sendnext
        /\ g.t.rcvnext = h.t.rcvnext /\ g.t.rcvack = h.t.rcvack
        /\ g.t.txflags = h.t.txflags
      BY <1>3, <1>4, CanceltimersFacts DEF Kept
  <1> QED  BY <1>2, <1>5 DEF s, e, f

LEMMA NewTcbTyped == NewTcb \in Tcbs
  <1> DEFINE e == <<>>  z == 0  n == {}  s == "CLOSED"
  <1>1. e \in Buffers /\ z \in SeqNum /\ z \in 0..BufSize /\ s \in States
    <2>1. 0 \in SeqNum /\ 0 \in 0..BufSize
        BY Sizes DEF SeqNum
    <2>2. s \in States
        BY DEF States
    <2> QED  BY <2>1, <2>2, NoBytes
  <1>2. n \in SUBSET HeaderFlags /\ n \in SUBSET TcbFlags
      OBVIOUS
  <1>3. NewTcb = [state |-> s, sock |-> TRUE, peer |-> FALSE, bound |-> FALSE,
           sendunack |-> z, sendnext |-> z, sendwindow |-> z,
           rcvnext |-> z, rcvack |-> z, txflags |-> n, flags |-> n,
           txbuf |-> e, rxbuf |-> e,
           retx |-> FALSE, keep |-> FALSE, msl |-> FALSE]
      BY DEF NewTcb
  <1> HIDE DEF e, z, n, s
  <1> QED  BY <1>1, <1>2, <1>3 DEF Tcbs

LEMMA FreetcbFacts ==
    ASSUME NEW h \in Handlers
    PROVE  LET g == Freetcb(h) IN
           /\ g \in Handlers /\ g.ebuf = h.ebuf /\ g.out = h.out
           /\ g.t.state = "FREE" /\ g.t.sock = FALSE /\ g.t.peer = FALSE
           /\ g.t.txbuf = <<>> /\ g.t.rxbuf = <<>> /\ g.t.flags = {}
  <1> DEFINE s == "FREE"
             u == [NewTcb EXCEPT !.state = s, !.sock = FALSE]
             g == [h EXCEPT !.t = u]
  <1>1. s \in States
      BY DEF States
  <1>2. Freetcb(h) = g
      BY DEF Freetcb
  <1>3. u.state = "FREE" /\ u.sock = FALSE /\ u.peer = FALSE /\ u.txbuf = <<>>
        /\ u.rxbuf = <<>> /\ u.flags = {}
      BY DEF NewTcb
  <1> HIDE DEF s
  <1>4. u \in Tcbs
      BY <1>1, NewTcbTyped DEF Tcbs
  <1> HIDE DEF u
  <1>5. g \in Handlers /\ g.ebuf = h.ebuf /\ g.out = h.out /\ g.t = u
      BY <1>4 DEF Handlers
  <1> QED  BY <1>2, <1>3, <1>5

\* The number of the next control segment is used up by a SYN or a FIN.
Counts(f) == f \cap {"SYN", "FIN"} # {}

LEMMA ProtosendFacts ==
    ASSUME NEW h \in Handlers
    PROVE  LET g == Protosend(h)
               seg == Segment(h.t, h.t.txflags, h.t.sendnext, <<>>) IN
           /\ g \in Handlers /\ g.ebuf = h.ebuf /\ Kept(h.t, g.t)
           /\ g.t.txflags = h.t.txflags /\ g.t.retx = h.t.retx
           /\ ~h.ebuf => g = h
           /\ h.ebuf => /\ seg \in Segments /\ g.out = Append(h.out, seg)
                        /\ g.t.flags = h.t.flags \ {"SENDMSG", "DLYACK"}
                        /\ g.t.rcvack = h.t.rcvnext
                        /\ Counts(h.t.txflags) => g.t.sendnext = Plus(h.t.sendnext, 1)
                        /\ ~Counts(h.t.txflags) => g.t.sendnext = h.t.sendnext
  <1> DEFINE e == <<>>
             s == Segment(h.t, h.t.txflags, h.t.sendnext, e)
             n == IF h.t.txflags \cap {"SYN", "FIN"} = {} THEN h.t.sendnext
                                                          ELSE Plus(h.t.sendnext, 1)
             f == h.t.flags \ {"SENDMSG", "DLYACK"}
             o == Append(h.out, s)
             r == h.t.rcvnext
             g == [h EXCEPT !.out = o, !.t.flags = f, !.t.rcvack = r, !.t.sendnext = n]
  <1>0. h \in Handlers /\ h.t \in Tcbs /\ h.out \in Seq(Segments) /\ h.ebuf \in BOOLEAN
      BY DEF Handlers
  <1>1. s \in Segments
    <2>1. e \in Loads /\ h.t.txflags \in SUBSET HeaderFlags /\ h.t.sendnext \in SeqNum
        BY NoBytes, <1>0 DEF Tcbs
    <2> HIDE DEF e
    <2> QED  BY <2>1, <1>0, SegmentFacts
  <1>2. n \in SeqNum /\ r \in SeqNum
    <2>1. h.t.sendnext \in SeqNum /\ h.t.sendnext \in Int /\ r \in SeqNum
        BY <1>0 DEF Tcbs, SeqNum
    <2>2. Plus(h.t.sendnext, 1) \in SeqNum
        BY <2>1, PlusType
    <2> QED  BY <2>1, <2>2
  <1>3. f \in SUBSET TcbFlags
      BY <1>0 DEF Tcbs
  <1>4. Protosend(h) = IF ~h.ebuf THEN h ELSE g
      BY DEF Protosend
  <1>5. (Counts(h.t.txflags) => n = Plus(h.t.sendnext, 1))
        /\ (~Counts(h.t.txflags) => n = h.t.sendnext)
      BY DEF Counts
  <1> HIDE DEF s, n, f, r
  <1>6. o \in Seq(Segments)
      BY <1>0, <1>1
  <1> HIDE DEF o
  <1>7. g \in Handlers
      BY <1>2, <1>3, <1>6 DEF Handlers, Tcbs
  <1>8. /\ g.ebuf = h.ebuf /\ Kept(h.t, g.t)
        /\ g.t.txflags = h.t.txflags /\ g.t.retx = h.t.retx
        /\ g.out = o /\ g.t.flags = f /\ g.t.rcvack = r /\ g.t.sendnext = n
      BY <1>2, <1>3, <1>6 DEF Handlers, Tcbs, Kept
  <1> HIDE DEF g
  <1>9. CASE ~h.ebuf
    <2>1. Protosend(h) = h
        BY <1>4, <1>9
    <2> QED  BY <2>1, <1>0, <1>9 DEF Kept
  <1>10. CASE h.ebuf
    <2>1. Protosend(h) = g
        BY <1>4, <1>10
    <2> QED  BY <2>1, <1>1, <1>5, <1>7, <1>8, <1>10 DEF o, f, r, s
  <1> QED  BY <1>0, <1>9, <1>10

\* A control segment with flags f.
Controls(h, g, f) ==
    /\ g \in Handlers /\ g.ebuf = h.ebuf /\ Kept(h.t, g.t) /\ g.t.txflags = f
    /\ ~h.ebuf => /\ g.out = h.out /\ g.t.flags = h.t.flags
                  /\ g.t.rcvack = h.t.rcvack /\ g.t.sendnext = h.t.sendnext
    /\ h.ebuf => /\ \E seg \in Segments :
                       /\ g.out = Append(h.out, seg)
                       /\ seg.flags = f /\ seg.seq = h.t.sendnext
                       /\ seg.ack = h.t.rcvnext /\ seg.data = <<>>
                 /\ g.t.flags = h.t.flags \ {"SENDMSG", "DLYACK"}
                 /\ g.t.rcvack = h.t.rcvnext
                 /\ Counts(f) => g.t.sendnext = Plus(h.t.sendnext, 1)
                 /\ ~Counts(f) => g.t.sendnext = h.t.sendnext

\* A control segment: txflags and the timer are set first.
LEMMA SendctlmsgFacts ==
    ASSUME NEW h \in Handlers, NEW f \in SUBSET HeaderFlags,
           NEW timer \in {"set", "clear", "leave"}
    PROVE  /\ Controls(h, Sendctlmsg(h, f, timer), f)
           /\ Sendctlmsg(h, f, timer).t.retx = IF timer = "leave" THEN h.t.retx ELSE timer = "set"
  <1> DEFINE b == IF timer = "leave" THEN h.t.retx ELSE timer = "set"
             m == [h EXCEPT !.t.txflags = f, !.t.retx = b]
             g == Protosend(m)
             seg == Segment(m.t, m.t.txflags, m.t.sendnext, <<>>)
  <1>1. b \in BOOLEAN
      BY DEF Handlers, Tcbs
  <1>2. Sendctlmsg(h, f, timer) = g
      BY DEF Sendctlmsg, Handlers, Tcbs
  <1>a. b = IF timer = "leave" THEN h.t.retx ELSE timer = "set"
      OBVIOUS
  <1> HIDE DEF b
  <1>3. m \in Handlers
      BY <1>1 DEF Handlers, Tcbs
  <1>4. /\ m.ebuf = h.ebuf /\ m.out = h.out /\ Kept(h.t, m.t)
        /\ m.t.txflags = f /\ m.t.retx = b /\ m.t.flags = h.t.flags
        /\ m.t.sendnext = h.t.sendnext /\ m.t.rcvack = h.t.rcvack
      BY <1>1 DEF Handlers, Tcbs, Kept
  <1>5. m.t \in Tcbs /\ m.t.sendnext \in SeqNum
      BY <1>3 DEF Handlers, Tcbs
  <1> HIDE DEF m
  <1>6. /\ g \in Handlers /\ g.ebuf = m.ebuf /\ Kept(m.t, g.t)
        /\ g.t.txflags = m.t.txflags /\ g.t.retx = m.t.retx
        /\ ~m.ebuf => g = m
        /\ m.ebuf => /\ seg \in Segments /\ g.out = Append(m.out, seg)
                     /\ g.t.flags = m.t.flags \ {"SENDMSG", "DLYACK"}
                     /\ g.t.rcvack = m.t.rcvnext
                     /\ Counts(m.t.txflags) => g.t.sendnext = Plus(m.t.sendnext, 1)
                     /\ ~Counts(m.t.txflags) => g.t.sendnext = m.t.sendnext
      BY <1>3, ProtosendFacts
  <1>7. /\ seg.flags = f /\ seg.seq = h.t.sendnext
        /\ seg.ack = h.t.rcvnext /\ seg.data = <<>>
      BY <1>4 DEF Segment, Kept
  <1> HIDE DEF g, seg
  <1>8. Kept(h.t, g.t)
      BY <1>4, <1>6 DEF Kept
  <1>9. ~h.ebuf => /\ g.out = h.out /\ g.t.flags = h.t.flags
                   /\ g.t.rcvack = h.t.rcvack /\ g.t.sendnext = h.t.sendnext
      BY <1>4, <1>6
  <1>10. h.ebuf => /\ \E s \in Segments :
                              /\ g.out = Append(h.out, s)
                              /\ s.flags = f /\ s.seq = h.t.sendnext
                              /\ s.ack = h.t.rcvnext /\ s.data = <<>>
                   /\ g.t.flags = h.t.flags \ {"SENDMSG", "DLYACK"}
                   /\ g.t.rcvack = h.t.rcvnext
                   /\ Counts(f) => g.t.sendnext = Plus(h.t.sendnext, 1)
                   /\ ~Counts(f) => g.t.sendnext = h.t.sendnext
      BY <1>4, <1>6, <1>7 DEF Kept
  <1>11. Controls(h, g, f)
      BY <1>4, <1>6, <1>8, <1>9, <1>10 DEF Controls
  <1>12. g.t.retx = IF timer = "leave" THEN h.t.retx ELSE timer = "set"
      BY <1>4, <1>6, <1>a
  <1> QED  BY <1>2, <1>11, <1>12

\* The parts of _tcp_output: where it begins, how far it may go, in how many segments.
OutFirst(t) == Diff(t.sendnext, t.sendunack)
OutAllowed(t) == Least(Unacked(t), Least(t.sendwindow, Cwnd))
OutCount(t) == IF OutFirst(t) < OutAllowed(t)
               THEN (OutAllowed(t) - OutFirst(t) + Mtu - 1) \div Mtu ELSE 0
OutAt(t, k) == OutFirst(t) + (k - 1) * Mtu
OutPiece(t, k) == [i \in 1 .. Least(Mtu, Unacked(t) - OutAt(t, k)) |->
                     IF OutAt(t, k) + i < 1 THEN Junk ELSE t.txbuf[OutAt(t, k) + i]]
OutSegment(t, k) == Segment(t, {"ACK"}, Plus(t.sendunack, OutAt(t, k)), OutPiece(t, k))

LEMMA OutputNumbers ==
    ASSUME NEW t \in Tcbs
    PROVE  /\ OutFirst(t) \in Int /\ Unacked(t) \in 0..BufSize /\ OutAllowed(t) \in Int
           /\ OutAllowed(t) <= Unacked(t)
           /\ OutCount(t) \in Nat
           /\ OutCount(t) > 0 <=> OutFirst(t) < OutAllowed(t)
  <1>1. OutFirst(t) \in Int
      BY DiffType DEF OutFirst, Tcbs, SeqNum
  <1>2. Unacked(t) \in 0..BufSize
      BY BufferFacts DEF Unacked, Tcbs
  <1>3. t.sendwindow \in Int /\ Cwnd \in Int
      BY Sizes DEF Tcbs
  <1>4. Least(t.sendwindow, Cwnd) \in Int
      BY <1>3, LeastOfTwo
  <1>5. OutAllowed(t) \in Int /\ OutAllowed(t) <= Unacked(t)
      BY <1>2, <1>4, LeastOfTwo DEF OutAllowed
  <1>6. CASE OutFirst(t) < OutAllowed(t)
    <2> DEFINE n == OutAllowed(t) - OutFirst(t)
    <2>1. n \in Nat /\ n >= 1
        BY <1>1, <1>5, <1>6
    <2>2. OutCount(t) = (n + Mtu - 1) \div Mtu
        BY <1>1, <1>5, <1>6 DEF OutCount
    <2> HIDE DEF n
    <2>3. ((n + Mtu - 1) \div Mtu) >= 1 /\ ((n + Mtu - 1) \div Mtu) \in Nat
        BY <2>1, Sizes, DivAtLeastOne
    <2> QED  BY <1>1, <1>2, <1>5, <1>6, <2>2, <2>3
  <1>7. CASE ~(OutFirst(t) < OutAllowed(t))
      BY <1>1, <1>2, <1>5, <1>7 DEF OutCount
  <1> QED  BY <1>6, <1>7

LEMMA PieceFacts ==
    ASSUME NEW t \in Tcbs, NEW k \in 1..OutCount(t)
    PROVE  /\ OutAt(t, k) \in Int /\ OutAt(t, k) < Unacked(t) /\ OutFirst(t) <= OutAt(t, k)
           /\ OutPiece(t, k) \in Loads
           /\ Len(OutPiece(t, k)) = Least(Mtu, Unacked(t) - OutAt(t, k))
           /\ Len(OutPiece(t, k)) > 0 /\ Len(OutPiece(t, k)) <= Unacked(t) - OutAt(t, k)
           /\ \A i \in 1..Len(OutPiece(t, k)) :
                 OutPiece(t, k)[i] = IF OutAt(t, k) + i < 1 THEN Junk ELSE t.txbuf[OutAt(t, k) + i]
  <1>1. /\ OutFirst(t) \in Int /\ Unacked(t) \in 0..BufSize /\ OutAllowed(t) \in Int
        /\ OutAllowed(t) <= Unacked(t)
        /\ OutCount(t) \in Nat /\ OutFirst(t) < OutAllowed(t)
      BY OutputNumbers
  <1>2. t.txbuf \in Seq(Bytes) /\ Len(t.txbuf) = Unacked(t)
      BY BufferFacts DEF Unacked, Tcbs
  <1> DEFINE n == OutAllowed(t) - OutFirst(t)
             j == (k - 1) * Mtu
  <1>3. n \in Nat /\ OutCount(t) = (n + Mtu - 1) \div Mtu
      BY <1>1 DEF OutCount
  <1>4. j \in Nat /\ j < n
    <2> HIDE DEF n
    <2>1. k \in Nat /\ k >= 1 /\ k <= (n + Mtu - 1) \div Mtu
        BY <1>1, <1>3
    <2> QED  BY <1>3, <2>1, WholePieces, Sizes
  <1>5. OutAt(t, k) = OutFirst(t) + j
      BY DEF OutAt
  <1> HIDE DEF j
  <1> DEFINE at == OutAt(t, k)
             m == Least(Mtu, Unacked(t) - at)
  <1>6. at \in Int /\ at < Unacked(t) /\ OutFirst(t) <= at
      BY <1>1, <1>4, <1>5
  <1>7. OutPiece(t, k) = [i \in 1..m |-> IF at + i < 1 THEN Junk ELSE t.txbuf[at + i]]
      BY DEF OutPiece
  <1> HIDE DEF at
  <1>8. m \in Nat /\ m > 0 /\ m <= Unacked(t) - at /\ m <= Mtu
      BY <1>1, <1>6, Sizes DEF Least
  <1>a. m = Least(Mtu, Unacked(t) - at)
      OBVIOUS
  <1> HIDE DEF m
  <1>9. \A i \in 1..m : (IF at + i < 1 THEN Junk ELSE t.txbuf[at + i]) \in Bytes
    <2> TAKE i \in 1..m
    <2>1. CASE at + i < 1
        BY <2>1 DEF Bytes
    <2>2. CASE ~(at + i < 1)
      <3>1. at + i \in 1..Len(t.txbuf)
          BY <1>1, <1>2, <1>6, <1>8, <2>2
      <3>2. t.txbuf[at + i] \in Bytes
          BY <1>2, <3>1
      <3> QED  BY <2>2, <3>2
    <2> QED  BY <2>1, <2>2
  <1> DEFINE p == [i \in 1..m |-> IF at + i < 1 THEN Junk ELSE t.txbuf[at + i]]
  <1>10. p \in Seq(Bytes) /\ Len(p) = m
      BY <1>8, <1>9
  <1>11. \A i \in 1..m : p[i] = IF at + i < 1 THEN Junk ELSE t.txbuf[at + i]
      OBVIOUS
  <1> HIDE DEF p
  <1>12. OutPiece(t, k) = p
      BY <1>7 DEF p
  <1>13. Len(OutPiece(t, k)) = m
      BY <1>10, <1>12
  <1>14. OutPiece(t, k) \in Loads
      BY <1>8, <1>10, <1>12 DEF Loads
  <1> QED  BY <1>6, <1>8, <1>a, <1>10, <1>11, <1>12, <1>13, <1>14 DEF at

LEMMA OutputFacts ==
    ASSUME NEW h \in Handlers
    PROVE  LET g == Output(h) IN
           /\ g \in Handlers /\ g.ebuf = h.ebuf /\ Kept(h.t, g.t)
           /\ g.t.txflags = h.t.txflags
           /\ OutCount(h.t) = 0 \/ ~h.ebuf => g = h
           /\ OutCount(h.t) > 0 /\ h.ebuf =>
                 /\ \E s \in Seq(Segments) :
                       /\ g.out = h.out \o s /\ Len(s) = OutCount(h.t)
                       /\ \A k \in 1..OutCount(h.t) : s[k] = OutSegment(h.t, k)
                 /\ g.t.sendnext = Plus(h.t.sendunack,
                                        Least(Unacked(h.t), OutAt(h.t, OutCount(h.t) + 1)))
                 /\ g.t.rcvack = h.t.rcvnext /\ g.t.retx
                 /\ g.t.flags = h.t.flags \ {"DLYACK"}
  <1> DEFINE t == h.t
             c == OutCount(t)
             s == [k \in 1..c |-> OutSegment(t, k)]
             o == h.out \o s
             n == Plus(t.sendunack, Least(Unacked(t), OutAt(t, c + 1)))
             r == t.rcvnext
             yes == TRUE
             f == t.flags \ {"DLYACK"}
             g == [h EXCEPT !.out = o, !.t.sendnext = n, !.t.rcvack = r, !.t.retx = yes, !.t.flags = f]
  <1>1. Output(h) = IF c = 0 \/ ~h.ebuf THEN h ELSE g
      BY DEF Output, OutCount, OutSegment, OutPiece, OutAt, OutAllowed, OutFirst
  <1>2. h \in Handlers /\ t \in Tcbs /\ h.out \in Seq(Segments) /\ c \in Nat
      BY OutputNumbers DEF Handlers
  <1>3. s \in Seq(Segments)
    <2> HIDE DEF t
    <2>1. ASSUME NEW k \in 1..c
          PROVE  OutSegment(t, k) \in Segments
      <3>1. OutPiece(t, k) \in Loads /\ OutAt(t, k) \in Int
          BY <1>2, <2>1, PieceFacts
      <3>2. t.sendunack \in Int
          BY <1>2 DEF Tcbs, SeqNum
      <3>3. Plus(t.sendunack, OutAt(t, k)) \in SeqNum
          BY <3>1, <3>2, PlusType
      <3>4. {"ACK"} \in SUBSET HeaderFlags
          BY DEF HeaderFlags
      <3> QED  BY <1>2, <3>1, <3>3, <3>4, SegmentFacts DEF OutSegment
    <2> HIDE DEF c
    <2> QED  BY <1>2, <2>1
  <1>4. n \in SeqNum
    <2> HIDE DEF t
    <2>1. OutFirst(t) \in Int /\ Unacked(t) \in Int
        BY <1>2, OutputNumbers
    <2>2. c * Mtu \in Int
        BY <1>2, Sizes
    <2>3. (c + 1) - 1 = c
        BY <1>2
    <2>4. OutAt(t, c + 1) \in Int
        BY <2>1, <2>2, <2>3 DEF OutAt
    <2>5. Least(Unacked(t), OutAt(t, c + 1)) \in Int
        BY <2>1, <2>4, LeastOfTwo
    <2>6. t.sendunack \in Int
        BY <1>2 DEF Tcbs, SeqNum
    <2> QED  BY <2>5, <2>6, PlusType
  <1>5. r \in SeqNum /\ yes \in BOOLEAN /\ f \in SUBSET TcbFlags
      BY <1>2 DEF Tcbs
  <1>6. o \in Seq(Segments)
    <2> HIDE DEF s
    <2> QED  BY <1>2, <1>3
  <1>7. Len(s) = c /\ \A k \in 1..c : s[k] = OutSegment(t, k)
      BY <1>2
  <1>8. o = h.out \o s
      OBVIOUS
  <1> HIDE DEF o, n, r, yes, f
  <1>9. g \in Handlers
      BY <1>4, <1>5, <1>6 DEF Handlers, Tcbs
  <1>10. /\ g.ebuf = h.ebuf /\ Kept(h.t, g.t) /\ g.t.txflags = h.t.txflags
         /\ g.out = o /\ g.t.sendnext = n /\ g.t.rcvack = r /\ g.t.retx = yes /\ g.t.flags = f
      BY <1>4, <1>5, <1>6 DEF Handlers, Tcbs, Kept
  <1> HIDE DEF g, s
  <1>11. CASE c = 0 \/ ~h.ebuf
    <2>1. Output(h) = h
        BY <1>1, <1>11
    <2> QED  BY <1>2, <1>11, <2>1 DEF Kept
  <1>12. CASE ~(c = 0 \/ ~h.ebuf)
    <2>1. Output(h) = g
        BY <1>1, <1>12
    <2>2. \E q \in Seq(Segments) :
             /\ g.out = h.out \o q /\ Len(q) = OutCount(h.t)
             /\ \A k \in 1..OutCount(h.t) : q[k] = OutSegment(h.t, k)
        BY <1>3, <1>7, <1>8, <1>10
    <2> QED  BY <1>9, <1>10, <1>12, <2>1, <2>2 DEF n, r, yes, f
  <1> QED  BY <1>11, <1>12

LEMMA DropFront ==
    ASSUME NEW q \in Buffers, NEW n \in 0 .. Len(q)
    PROVE  /\ SubSeq(q, n + 1, Len(q)) \in Buffers
           /\ Len(SubSeq(q, n + 1, Len(q))) = Len(q) - n
           /\ \A j \in 1 .. Len(q) - n : SubSeq(q, n + 1, Len(q))[j] = q[n + j]
  <1> DEFINE r == SubSeq(q, n + 1, Len(q))
             l == Len(q)
  <1>1. q \in Seq(Bytes) /\ l \in Nat /\ l <= BufSize
      BY BufferFacts
  <1>2. n \in Nat /\ n <= l
      BY <1>1
  <1>3. /\ r \in Seq(Bytes) /\ Len(r) = l - n
        /\ \A j \in 1 .. l - n : r[j] = q[n + j]
    <2>1. n + 1 \in 1 .. l + 1 /\ l \in n .. l
        BY <1>1, <1>2
    <2>2. CASE n = l
      <3>1. r = <<>>
          BY <1>1, <1>2, <2>2
      <3> QED  BY <3>1, <1>1, <1>2, <2>2
    <2>3. CASE n < l
      <3>1. /\ r \in Seq(Bytes) /\ Len(r) = l - (n + 1) + 1
            /\ \A j \in 1 .. l - (n + 1) + 1 : r[j] = q[n + 1 + j - 1]
          BY <1>1, <1>2, <2>3, SubSeqProperties
      <3>2. l - (n + 1) + 1 = l - n
          BY <1>1, <1>2
      <3>3. \A j \in 1 .. l - n : n + 1 + j - 1 = n + j
          BY <1>1, <1>2
      <3> QED  BY <3>1, <3>2, <3>3
    <2> QED  BY <1>1, <1>2, <2>2, <2>3
  <1>4. r \in Buffers
    <2> HIDE DEF r
    <2>1. Len(r) <= BufSize
        BY <1>1, <1>2, <1>3, Sizes
    <2> QED  BY <1>3, <2>1 DEF Buffers
  <1> QED  BY <1>3, <1>4

-----------------------------------------------------------------------------
(* What holds of every call, whatever the state of the connection           *)

\* What AckIsOwed says of a control block.
Owed(t) == t.state \in RECV_OK /\ t.rcvack # t.rcvnext => "DLYACK" \in t.flags
Fits(h, g) == /\ g \in Handlers /\ g.ebuf = h.ebuf
              /\ Calm(h.t) => Calm(g.t)
              /\ h.ebuf /\ Owed(h.t) => Owed(g.t)

LEMMA FitsAgain ==
    ASSUME NEW h, NEW g, NEW f, Fits(h, g), Fits(g, f)
    PROVE  Fits(h, f)
  BY DEF Fits

\* Only what nothing depends on has changed: sendwindow, and the timers but retx.
Same(t, x) == /\ Kept(t, x) /\ x.sendnext = t.sendnext /\ x.rcvack = t.rcvack
              /\ x.txflags = t.txflags /\ x.flags = t.flags /\ x.retx = t.retx
Renew(h, g) == g \in Handlers /\ g.ebuf = h.ebuf /\ g.out = h.out

LEMMA SameFits ==
    ASSUME NEW h, NEW g, Renew(h, g), Same(h.t, g.t)
    PROVE  Fits(h, g)
  BY DEF Fits, Same, Renew, Kept, Calm, Owed

LEMMA ProtosendControls ==
    ASSUME NEW h \in Handlers
    PROVE  Controls(h, Protosend(h), h.t.txflags) /\ Protosend(h).t.retx = h.t.retx
  <1> DEFINE g == Protosend(h)
             seg == Segment(h.t, h.t.txflags, h.t.sendnext, <<>>)
  <1>1. /\ g \in Handlers /\ g.ebuf = h.ebuf /\ Kept(h.t, g.t)
        /\ g.t.txflags = h.t.txflags /\ g.t.retx = h.t.retx
        /\ ~h.ebuf => g = h
        /\ h.ebuf => /\ seg \in Segments /\ g.out = Append(h.out, seg)
                     /\ g.t.flags = h.t.flags \ {"SENDMSG", "DLYACK"}
                     /\ g.t.rcvack = h.t.rcvnext
                     /\ Counts(h.t.txflags) => g.t.sendnext = Plus(h.t.sendnext, 1)
                     /\ ~Counts(h.t.txflags) => g.t.sendnext = h.t.sendnext
      BY ProtosendFacts
  <1>2. /\ seg.flags = h.t.txflags /\ seg.seq = h.t.sendnext
        /\ seg.ack = h.t.rcvnext /\ seg.data = <<>>
      BY DEF Segment
  <1> HIDE DEF g, seg
  <1>3. Controls(h, g, h.t.txflags)
      BY <1>1, <1>2 DEF Controls
  <1> QED  BY <1>1, <1>3 DEF g

LEMMA ControlsFits ==
    ASSUME NEW h \in Handlers, NEW f, NEW g, Controls(h, g, f)
    PROVE  Fits(h, g) /\ (h.ebuf => Owed(g.t)) /\ g.t.state = h.t.state
  BY DEF Fits, Controls, Kept, Calm, Owed

LEMMA OutputFits ==
    ASSUME NEW h \in Handlers
    PROVE  LET g == Output(h) IN
           /\ Fits(h, g) /\ Kept(h.t, g.t) /\ g.t.txflags = h.t.txflags
           /\ g.t.flags \subseteq h.t.flags /\ h.t.flags \subseteq g.t.flags \cup {"DLYACK"}
  <1> DEFINE g == Output(h)
  <1>1. /\ g \in Handlers /\ g.ebuf = h.ebuf /\ Kept(h.t, g.t) /\ g.t.txflags = h.t.txflags
        /\ OutCount(h.t) = 0 \/ ~h.ebuf => g = h
        /\ OutCount(h.t) > 0 /\ h.ebuf => /\ g.t.rcvack = h.t.rcvnext
                                          /\ g.t.flags = h.t.flags \ {"DLYACK"}
      BY OutputFacts
  <1>2. OutCount(h.t) \in Nat
      BY OutputNumbers DEF Handlers
  <1> HIDE DEF g
  <1>3. CASE OutCount(h.t) = 0 \/ ~h.ebuf
      BY <1>1, <1>3 DEF Fits, g
  <1>4. CASE OutCount(h.t) > 0 /\ h.ebuf
    <2>1. Fits(h, g)
        BY <1>1, <1>4 DEF Fits, Kept, Calm, Owed
    <2> QED  BY <2>1, <1>1, <1>4 DEF g
  <1> QED  BY <1>2, <1>3, <1>4

\* A closed or freed control block owes nothing and has nothing to transmit.
LEMMA EmptyFits ==
    ASSUME NEW h, NEW g \in Handlers, g.ebuf = h.ebuf, g.t.flags = {}, g.t.state \notin RECV_OK
    PROVE  Fits(h, g)
  BY DEF Fits, Calm, Owed

\* A control block without the DLYACK flag to lose and outside of ESTABLISHED and CLOSE_WAIT.
LEMMA OtherFits ==
    ASSUME NEW h, NEW g \in Handlers, g.ebuf = h.ebuf, g.t.state \notin RECV_OK,
           Calm(h.t) => Calm(g.t)
    PROVE  Fits(h, g)
  BY DEF Fits, Owed

-----------------------------------------------------------------------------
(* The functions of TcpTcb                                                 *)

\* The blocks that Aborttcb sends a RST for are not closed or listening.
LEMMA AborttcbFacts ==
    ASSUME NEW h \in Handlers, h.t.state # "FREE"
    PROVE  LET g == Aborttcb(h) IN
           /\ Fits(h, g)
           /\ g.t.state = "CLOSED" /\ g.t.txbuf = <<>> /\ g.t.rxbuf = <<>> /\ g.t.flags = {}
           /\ g.t.sock = h.t.sock /\ g.t.peer = h.t.peer
           /\ g.t.sendunack = h.t.sendunack /\ g.t.sendnext = h.t.sendnext
           /\ g.t.rcvnext = h.t.rcvnext
           /\ \/ g.out = h.out
              \/ \E seg \in Segments : /\ g.out = Append(h.out, seg)
                                       /\ seg.flags = {"ACK", "RST"} /\ seg.data = <<>>
  <1> DEFINE f == {"ACK", "RST"}
             a == Canceltimers(h)
             b == Sendctlmsg(a, f, "clear")
             m == IF h.t.state \in ABORTSTATES THEN b ELSE h
             g == Closetcb(m)
  <1>1. Aborttcb(h) = g
      BY DEF Aborttcb
  <1>2. a \in Handlers /\ a.ebuf = h.ebuf /\ a.out = h.out /\ Kept(h.t, a.t)
        /\ a.t.sendnext = h.t.sendnext
      BY CanceltimersFacts
  <1>3. f \in SUBSET HeaderFlags /\ ~Counts(f)
      BY DEF HeaderFlags, Counts
  <1>f. f = {"ACK", "RST"}
      OBVIOUS
  <1> HIDE DEF a, f
  <1>4. Controls(a, b, f)
      BY <1>2, <1>3, SendctlmsgFacts
  <1> HIDE DEF b
  <1>5. /\ m \in Handlers /\ m.ebuf = h.ebuf /\ m.t.sendnext = h.t.sendnext
        /\ m.t.sock = h.t.sock /\ m.t.peer = h.t.peer
        /\ m.t.sendunack = h.t.sendunack /\ m.t.rcvnext = h.t.rcvnext
        /\ \/ m.out = h.out
           \/ \E seg \in Segments : /\ m.out = Append(h.out, seg)
                                    /\ seg.flags = f /\ seg.data = <<>>
    <2>1. CASE h.t.state \in ABORTSTATES
      <3>1. m = b
          BY <2>1
      <3> HIDE DEF m
      <3> QED  BY <3>1, <1>2, <1>3, <1>4 DEF Controls, Kept
    <2>2. CASE h.t.state \notin ABORTSTATES
        BY <2>2
    <2> QED  BY <2>1, <2>2
  <1> HIDE DEF m
  <1>6. /\ g \in Handlers /\ g.ebuf = m.ebuf /\ g.out = m.out
        /\ g.t.state = "CLOSED" /\ g.t.txbuf = <<>> /\ g.t.rxbuf = <<>> /\ g.t.flags = {}
        /\ g.t.sock = m.t.sock /\ g.t.peer = m.t.peer
        /\ g.t.sendunack = m.t.sendunack /\ g.t.sendnext = m.t.sendnext
        /\ g.t.rcvnext = m.t.rcvnext
      BY <1>5, ClosetcbFacts
  <1> HIDE DEF g
  <1>7. Fits(h, g)
      BY <1>5, <1>6, EmptyFits DEF RECV_OK
  <1> QED  BY <1>1, <1>f, <1>5, <1>6, <1>7

\* _tcp_sendctlmsg is _tcp_protosend with txflags and the timer set.
Poised(h, n, f, timer) ==
    /\ Renew(h, n) /\ Kept(h.t, n.t) /\ n.t.txflags = f
    /\ n.t.retx = IF timer = "leave" THEN h.t.retx ELSE timer = "set"
    /\ n.t.flags = h.t.flags /\ n.t.sendnext = h.t.sendnext /\ n.t.rcvack = h.t.rcvack

LEMMA SendctlmsgIs ==
    ASSUME NEW h \in Handlers, NEW f \in SUBSET HeaderFlags,
           NEW timer \in {"set", "clear", "leave"}
    PROVE  \E n : Poised(h, n, f, timer) /\ Sendctlmsg(h, f, timer) = Protosend(n)
  <1> DEFINE b == IF timer = "leave" THEN h.t.retx ELSE timer = "set"
             n == [h EXCEPT !.t.txflags = f, !.t.retx = b]
  <1>1. b \in BOOLEAN
      BY DEF Handlers, Tcbs
  <1>2. Sendctlmsg(h, f, timer) = Protosend(n)
      BY DEF Sendctlmsg, Handlers, Tcbs
  <1>3. b = IF timer = "leave" THEN h.t.retx ELSE timer = "set"
      OBVIOUS
  <1> HIDE DEF b
  <1>4. n \in Handlers
      BY <1>1 DEF Handlers, Tcbs
  <1>5. /\ n.ebuf = h.ebuf /\ n.out = h.out /\ Kept(h.t, n.t)
        /\ n.t.txflags = f /\ n.t.retx = b /\ n.t.flags = h.t.flags
        /\ n.t.sendnext = h.t.sendnext /\ n.t.rcvack = h.t.rcvack
      BY <1>1 DEF Handlers, Tcbs, Kept
  <1> HIDE DEF n
  <1>6. Poised(h, n, f, timer)
      BY <1>3, <1>4, <1>5 DEF Poised, Renew
  <1> QED  BY <1>2, <1>6

-----------------------------------------------------------------------------
(* The user's calls                                                        *)

LEMMA ConnectFacts ==
    ASSUME NEW h \in Handlers, NEW iss \in SeqNum, h.t.flags = {}
    PROVE  /\ \E n : /\ Renew(h, n) /\ Connect(h, iss) = Protosend(n)
                     /\ n.t.state = "SYN_SENT" /\ n.t.peer = TRUE /\ n.t.txflags = {"SYN"}
                     /\ n.t.sendunack = iss /\ n.t.sendnext = iss /\ n.t.flags = {}
                     /\ n.t.txbuf = <<>> /\ n.t.rxbuf = <<>>
           /\ Fits(h, Connect(h, iss))
  <1> DEFINE e == <<>>  z == 0  s == "SYN_SENT"  yes == TRUE  f == {"SYN"}
             x == [h.t EXCEPT !.peer = yes, !.rcvnext = z, !.rcvack = z,
                              !.sendnext = iss, !.sendunack = iss, !.sendwindow = z,
                              !.txbuf = e, !.rxbuf = e, !.keep = yes, !.state = s]
             m == [h EXCEPT !.t = x]
  <1>1. Connect(h, iss) = Sendctlmsg(m, f, "set")
      BY DEF Connect
  <1>2. e \in Buffers /\ z \in SeqNum /\ z \in 0 .. BufSize /\ s \in States /\ yes \in BOOLEAN
    <2>1. z \in SeqNum /\ z \in 0 .. BufSize
        BY Sizes DEF SeqNum
    <2> QED  BY <2>1, NoBytes DEF States, CONNINPROGRESS
  <1>3. f \in SUBSET HeaderFlags
      BY DEF HeaderFlags
  <1>4. s \notin RECV_OK
      BY DEF RECV_OK
  <1> HIDE DEF e, z, s, yes, f
  <1>5. x \in Tcbs
      BY <1>2 DEF Handlers, Tcbs
  <1>6. /\ x.state = s /\ x.peer = yes /\ x.sendunack = iss /\ x.sendnext = iss
        /\ x.flags = h.t.flags /\ x.txbuf = e /\ x.rxbuf = e
      BY <1>2 DEF Handlers, Tcbs
  <1> HIDE DEF x
  <1>7. m \in Handlers /\ m.t = x /\ m.ebuf = h.ebuf /\ m.out = h.out
      BY <1>5 DEF Handlers
  <1> HIDE DEF m
  <1>8. PICK n : Poised(m, n, f, "set") /\ Sendctlmsg(m, f, "set") = Protosend(n)
      BY <1>3, <1>7, SendctlmsgIs
  <1>9. /\ Renew(h, n) /\ n.t.state = s /\ n.t.peer = yes /\ n.t.txflags = f
        /\ n.t.sendunack = iss /\ n.t.sendnext = iss /\ n.t.flags = {}
        /\ n.t.txbuf = e /\ n.t.rxbuf = e
      BY <1>6, <1>7, <1>8 DEF Poised, Renew, Kept
  <1>10. Controls(n, Protosend(n), n.t.txflags)
      BY <1>9, ProtosendControls DEF Renew
  <1>11. Fits(h, Protosend(n))
    <2>1. /\ Protosend(n) \in Handlers /\ Protosend(n).ebuf = h.ebuf
          /\ Protosend(n).t.state = s /\ Calm(Protosend(n).t)
        BY <1>9, <1>10 DEF Controls, Kept, Renew, Calm
    <2> QED  BY <2>1, <1>4, OtherFits
  <1> QED  BY <1>1, <1>8, <1>9, <1>11 DEF e, s, yes, f

LEMMA ListenFacts ==
    ASSUME NEW h \in Handlers, h.t.flags = {}
    PROVE  LET g == Listen(h) IN
           /\ Renew(h, g) /\ Fits(h, g)
           /\ g.t.state = "LISTEN" /\ g.t.peer = h.t.peer /\ g.t.sock = h.t.sock
           /\ g.t.sendunack = 0 /\ g.t.sendnext = 0 /\ g.t.flags = {}
           /\ g.t.txbuf = <<>> /\ g.t.rxbuf = <<>>
  <1> DEFINE e == <<>>  z == 0  s == "LISTEN"  yes == TRUE  f == {}
             x == [h.t EXCEPT !.state = s, !.bound = yes, !.sendnext = z, !.sendunack = z,
                              !.sendwindow = z, !.rcvnext = z, !.rcvack = z,
                              !.txbuf = e, !.rxbuf = e, !.txflags = f]
             m == [h EXCEPT !.t = x]
             g == Canceltimers(m)
  <1>1. Listen(h) = g
      BY DEF Listen
  <1>2. e \in Buffers /\ z \in SeqNum /\ z \in 0 .. BufSize /\ s \in States /\ yes \in BOOLEAN
    <2>1. z \in SeqNum /\ z \in 0 .. BufSize
        BY Sizes DEF SeqNum
    <2> QED  BY <2>1, NoBytes DEF States, CONNINPROGRESS
  <1>3. f \in SUBSET HeaderFlags
      OBVIOUS
  <1>4. s \notin RECV_OK
      BY DEF RECV_OK
  <1> HIDE DEF e, z, s, yes, f
  <1>5. x \in Tcbs
      BY <1>2, <1>3 DEF Handlers, Tcbs
  <1>6. /\ x.state = s /\ x.peer = h.t.peer /\ x.sock = h.t.sock /\ x.sendunack = z /\ x.sendnext = z
        /\ x.flags = h.t.flags /\ x.txbuf = e /\ x.rxbuf = e
      BY <1>2, <1>3 DEF Handlers, Tcbs
  <1> HIDE DEF x
  <1>7. m \in Handlers /\ m.t = x /\ m.ebuf = h.ebuf /\ m.out = h.out
      BY <1>5 DEF Handlers
  <1> HIDE DEF m
  <1>8. /\ g \in Handlers /\ g.ebuf = m.ebuf /\ g.out = m.out
        /\ Kept(m.t, g.t) /\ g.t.flags = m.t.flags
        /\ g.t.sendnext = m.t.sendnext
      BY <1>7, CanceltimersFacts
  <1> HIDE DEF g
  <1>9. /\ Renew(h, g)
        /\ g.t.state = s /\ g.t.peer = h.t.peer /\ g.t.sock = h.t.sock
        /\ g.t.sendunack = z /\ g.t.sendnext = z /\ g.t.flags = {}
        /\ g.t.txbuf = e /\ g.t.rxbuf = e
      BY <1>6, <1>7, <1>8 DEF Renew, Kept
  <1>10. Fits(h, g)
      BY <1>4, <1>9, OtherFits DEF Renew, Calm
  <1> QED  BY <1>1, <1>9, <1>10 DEF e, z, s

\* What fits of the data goes behind what is in the transmit buffer.
LEMMA SendFacts ==
    ASSUME NEW h \in Handlers, NEW d \in Seq(Bytes)
    PROVE  /\ Accepted(h.t, d) \in Seq(Bytes)
           /\ Len(Accepted(h.t, d)) \in Nat /\ Len(Accepted(h.t, d)) <= Len(d)
           /\ \A j \in 1..Len(Accepted(h.t, d)) : Accepted(h.t, d)[j] = d[j]
           /\ \E q : /\ Renew(h, q) /\ q.t.txbuf = h.t.txbuf \o Accepted(h.t, d)
                     /\ q.t.state = h.t.state /\ q.t.sock = h.t.sock /\ q.t.peer = h.t.peer
                     /\ q.t.sendunack = h.t.sendunack /\ q.t.sendnext = h.t.sendnext
                     /\ q.t.rcvnext = h.t.rcvnext /\ q.t.rcvack = h.t.rcvack
                     /\ q.t.rxbuf = h.t.rxbuf /\ q.t.retx = h.t.retx
                     /\ q.t.flags = h.t.flags /\ q.t.txflags = h.t.txflags
                     /\ Fits(h, q)
                     /\ Send(h, d) = IF h.t.txbuf = <<>> THEN Output(q) ELSE q
  <1> DEFINE a == Accepted(h.t, d)
             w == Least(BufSize - Unacked(h.t), Len(d))
             b == h.t.txbuf \o a
             q == [h EXCEPT !.t.txbuf = b]
  <1>1. h.t \in Tcbs /\ h.t.txbuf \in Seq(Bytes) /\ Unacked(h.t) \in 0..BufSize
        /\ Unacked(h.t) = Len(h.t.txbuf)
      BY OutputNumbers, BufferFacts DEF Handlers, Tcbs, Unacked
  <1>2. Len(d) \in Nat /\ w \in Nat /\ w <= Len(d) /\ w <= BufSize - Unacked(h.t)
    <2> DEFINE r == BufSize - Unacked(h.t)  l == Len(d)
    <2>1. r \in Nat /\ l \in Nat
        BY <1>1, Sizes
    <2>2. w = Least(r, l)
        OBVIOUS
    <2> HIDE DEF r, l, w
    <2>3. w \in Nat /\ w <= l /\ w <= r
        BY <2>1, <2>2 DEF Least
    <2> QED  BY <2>1, <2>3 DEF r, l
  <1>3. a = SubSeq(d, 1, w)
      BY DEF Accepted
  <1> HIDE DEF w
  <1>4. /\ a \in Seq(Bytes) /\ Len(a) = w
        /\ \A j \in 1..w : a[j] = d[j]
    <2> DEFINE p == SubSeq(d, 1, w)
    <2>1. CASE w = 0
      <3>1. p = <<>>
          BY <1>2, <2>1
      <3> HIDE DEF p
      <3>2. p \in Seq(Bytes) /\ Len(p) = 0
          BY <3>1, NoBytes
      <3> QED  BY <1>3, <2>1, <3>2 DEF p
    <2>2. CASE w > 0
      <3>1. 1 \in 1..w /\ w \in 1..Len(d)
          BY <1>2, <2>2
      <3>2. /\ p \in Seq(Bytes) /\ Len(p) = w - 1 + 1
            /\ \A j \in 1 .. w - 1 + 1 : p[j] = d[1 + j - 1]
          BY <3>1, <1>2, SubSeqProperties
      <3>3. w - 1 + 1 = w /\ \A j \in 1..w : 1 + j - 1 = j
          BY <1>2
      <3> HIDE DEF p
      <3>4. \A j \in 1..w : p[j] = d[j]
          BY <3>2, <3>3
      <3> QED  BY <1>3, <3>2, <3>3, <3>4 DEF p
    <2> QED  BY <1>2, <2>1, <2>2
  <1> HIDE DEF a
  <1>5. b \in Buffers
    <2>1. b \in Seq(Bytes) /\ Len(b) = Len(h.t.txbuf) + Len(a)
        BY <1>1, <1>4, ConcatProperties
    <2> HIDE DEF b
    <2>2. Len(b) <= BufSize
        BY <2>1, <1>1, <1>2, <1>4, Sizes
    <2> QED  BY <2>1, <2>2 DEF Buffers
  <1>6. b = h.t.txbuf \o a
      OBVIOUS
  <1>7. Send(h, d) = IF h.t.txbuf = <<>> THEN Output(q) ELSE q
      BY DEF Send, a
  <1> HIDE DEF b
  <1>8. q \in Handlers
      BY <1>5 DEF Handlers, Tcbs
  <1>9. /\ q.ebuf = h.ebuf /\ q.out = h.out /\ q.t.txbuf = b
        /\ q.t.state = h.t.state /\ q.t.sock = h.t.sock /\ q.t.peer = h.t.peer
        /\ q.t.sendunack = h.t.sendunack /\ q.t.sendnext = h.t.sendnext
        /\ q.t.rcvnext = h.t.rcvnext /\ q.t.rcvack = h.t.rcvack
        /\ q.t.rxbuf = h.t.rxbuf /\ q.t.retx = h.t.retx
        /\ q.t.flags = h.t.flags /\ q.t.txflags = h.t.txflags
      BY <1>5 DEF Handlers, Tcbs
  <1> HIDE DEF q
  <1>10. Fits(h, q) /\ Renew(h, q)
      BY <1>8, <1>9 DEF Fits, Calm, Owed, Renew
  <1>11. \E p : /\ Renew(h, p) /\ p.t.txbuf = h.t.txbuf \o a
                /\ p.t.state = h.t.state /\ p.t.sock = h.t.sock /\ p.t.peer = h.t.peer
                /\ p.t.sendunack = h.t.sendunack /\ p.t.sendnext = h.t.sendnext
                /\ p.t.rcvnext = h.t.rcvnext /\ p.t.rcvack = h.t.rcvack
                /\ p.t.rxbuf = h.t.rxbuf /\ p.t.retx = h.t.retx
                /\ p.t.flags = h.t.flags /\ p.t.txflags = h.t.txflags
                /\ Fits(h, p)
                /\ Send(h, d) = IF h.t.txbuf = <<>> THEN Output(p) ELSE p
      BY <1>6, <1>7, <1>9, <1>10
  <1> QED  BY <1>2, <1>4, <1>11 DEF a

LEMMA RecvFacts ==
    ASSUME NEW h \in Handlers, NEW want \in 0 .. Len(h.t.rxbuf)
    PROVE  LET g == Recv(h, want) IN
           /\ Renew(h, g) /\ Fits(h, g)
           /\ g.t.rxbuf = SubSeq(h.t.rxbuf, want + 1, Len(h.t.rxbuf))
           /\ g.t.state = h.t.state /\ g.t.sock = h.t.sock /\ g.t.peer = h.t.peer
           /\ g.t.sendunack = h.t.sendunack /\ g.t.sendnext = h.t.sendnext
           /\ g.t.rcvnext = h.t.rcvnext /\ g.t.rcvack = h.t.rcvack
           /\ g.t.txbuf = h.t.txbuf /\ g.t.retx = h.t.retx
           /\ g.t.flags = h.t.flags /\ g.t.txflags = h.t.txflags
  <1> DEFINE b == SubSeq(h.t.rxbuf, want + 1, Len(h.t.rxbuf))
             g == [h EXCEPT !.t.rxbuf = b]
  <1>1. h.t.rxbuf \in Buffers /\ Len(h.t.rxbuf) \in Nat
      BY BufferFacts DEF Handlers, Tcbs
  <1>2. Least(Len(h.t.rxbuf), want) = want
      BY <1>1 DEF Least
  <1>3. Recv(h, want) = g
      BY <1>2 DEF Recv
  <1>4. b \in Buffers
      BY <1>1, DropFront
  <1> HIDE DEF b
  <1>5. g \in Handlers
      BY <1>4 DEF Handlers, Tcbs
  <1>6. /\ g.ebuf = h.ebuf /\ g.out = h.out /\ g.t.rxbuf = b
        /\ g.t.state = h.t.state /\ g.t.sock = h.t.sock /\ g.t.peer = h.t.peer
        /\ g.t.sendunack = h.t.sendunack /\ g.t.sendnext = h.t.sendnext
        /\ g.t.rcvnext = h.t.rcvnext /\ g.t.rcvack = h.t.rcvack
        /\ g.t.txbuf = h.t.txbuf /\ g.t.retx = h.t.retx
        /\ g.t.flags = h.t.flags /\ g.t.txflags = h.t.txflags
      BY <1>4 DEF Handlers, Tcbs
  <1> HIDE DEF g
  <1>7. Fits(h, g) /\ Renew(h, g)
      BY <1>5, <1>6 DEF Fits, Calm, Owed, Renew
  <1> QED  BY <1>3, <1>6, <1>7 DEF b

\* What Fits says but for Calm: _tcp_procack leaves output to be transmitted on the way out.
Steady(h, g) == /\ g \in Handlers /\ g.ebuf = h.ebuf
                /\ h.ebuf /\ Owed(h.t) => Owed(g.t)

LEMMA SteadyAgain ==
    ASSUME NEW h, NEW g, NEW f, Steady(h, g), Steady(g, f)
    PROVE  Steady(h, f)
  BY DEF Steady

LEMMA FitsAreSteady == ASSUME NEW h, NEW g, Fits(h, g) PROVE Steady(h, g)
  BY DEF Fits, Steady

LEMMA DiffOfNone ==
    ASSUME NEW x \in SeqNum, NEW y \in SeqNum, Diff(x, y) = 0
    PROVE  x = y
  <1> DEFINE N == SeqSize
             d == (x - y) % N
  <1>1. x \in 0..N-1 /\ y \in 0..N-1 /\ N \in Nat /\ N > 0
      BY Sizes DEF SeqNum
  <1>2. Diff(x, y) = IF 2 * d < N THEN d ELSE d - N
      BY DEF Diff
  <1> HIDE DEF N
  <1>3. d = IF x >= y THEN x - y ELSE x - y + N
      BY <1>1
  <1> HIDE DEF d
  <1> QED  BY <1>1, <1>2, <1>3

LEMMA AllOf == ASSUME NEW q \in Buffers PROVE SubSeq(q, 1, Len(q)) = q
  <1> DEFINE r == SubSeq(q, 1, Len(q))
  <1>1. q \in Seq(Bytes) /\ Len(q) \in Nat
      BY BufferFacts
  <1>2. CASE Len(q) = 0
    <2>1. q = <<>>
        BY <1>1, <1>2, EmptySeq
    <2> QED  BY <2>1
  <1>3. CASE Len(q) > 0
    <2>1. /\ r \in Seq(Bytes) /\ Len(r) = Len(q) - 1 + 1
          /\ \A j \in 1 .. Len(q) - 1 + 1 : r[j] = q[1 + j - 1]
        BY <1>1, <1>3, SubSeqProperties
    <2>2. Len(q) - 1 + 1 = Len(q) /\ \A j \in 1..Len(q) : 1 + j - 1 = j
        BY <1>1
    <2> HIDE DEF r
    <2>3. Len(r) = Len(q) /\ \A j \in 1..Len(q) : r[j] = q[j]
        BY <2>1, <2>2
    <2>4. r = q
        BY <1>1, <2>1, <2>3, SeqEqual
    <2> QED  BY <2>4 DEF r
  <1> QED  BY <1>1, <1>2, <1>3

-----------------------------------------------------------------------------
(* _tcp_procack                                                            *)

\* The user-visible part of t is x's, but for the buffers and what is sent.
Alike(t, x) == /\ x.state = t.state /\ x.sock = t.sock /\ x.peer = t.peer
               /\ x.rcvnext = t.rcvnext /\ x.rcvack = t.rcvack

LEMMA ProcackEstablishedFacts ==
    ASSUME NEW h \in Handlers, NEW seg \in Segments,
           Diff(seg.ack, h.t.sendunack) \in 0 .. Len(h.t.txbuf)
    PROVE  LET g == ProcackEstablished(h, seg) IN
           /\ Renew(h, g) /\ Alike(h.t, g.t) /\ g.t.rxbuf = h.t.rxbuf
           /\ g.t.sendunack = seg.ack /\ g.t.sendnext = h.t.sendnext
           /\ g.t.txbuf = SubSeq(h.t.txbuf, Diff(seg.ack, h.t.sendunack) + 1, Len(h.t.txbuf))
           /\ g.t.txbuf # <<>> => g.t.retx = h.t.retx
           /\ g.t.txflags \in {h.t.txflags, {"ACK"}}
           /\ g.t.flags \in {h.t.flags, h.t.flags \cup {"OUTPUT"}}
  <1> DEFINE n == Diff(seg.ack, h.t.sendunack)
             b == SubSeq(h.t.txbuf, n + 1, Len(h.t.txbuf))
             k == seg.ack
             f == {"ACK"}
             p == [h EXCEPT !.t.txbuf = b, !.t.txflags = f, !.t.sendunack = k]
             a == IF n = 0 THEN h ELSE p
             no == FALSE
             o == h.t.flags \cup {"OUTPUT"}
             g == IF a.t.txbuf = <<>> THEN [a EXCEPT !.t.retx = no] ELSE [a EXCEPT !.t.flags = o]
  <1>1. h.t \in Tcbs /\ h.t.txbuf \in Buffers /\ h.t.sendunack \in SeqNum /\ k \in SeqNum
      BY DEF Handlers, Tcbs, Segments
  <1>2. b \in Buffers
      BY <1>1, DropFront
  <1>3. f \in SUBSET HeaderFlags /\ o \in SUBSET TcbFlags /\ no \in BOOLEAN
      BY <1>1 DEF HeaderFlags, TcbFlags, Tcbs
  <1>4. n = 0 => h.t.txbuf = b /\ h.t.sendunack = k
    <2> SUFFICES ASSUME n = 0 PROVE h.t.txbuf = b /\ h.t.sendunack = k
        OBVIOUS
    <2>1. k = h.t.sendunack
        BY <1>1, DiffOfNone
    <2>2. b = SubSeq(h.t.txbuf, 1, Len(h.t.txbuf))
        OBVIOUS
    <2> QED  BY <2>1, <2>2, <1>1, AllOf
  <1>f. f = {"ACK"} /\ o = h.t.flags \cup {"OUTPUT"}
      OBVIOUS
  <1> HIDE DEF f, b, n, k
  <1>5. p \in Handlers
      BY <1>1, <1>2, <1>3 DEF Handlers, Tcbs
  <1>6. /\ p.ebuf = h.ebuf /\ p.out = h.out /\ Alike(h.t, p.t) /\ p.t.rxbuf = h.t.rxbuf
        /\ p.t.sendunack = k /\ p.t.txbuf = b /\ p.t.txflags = f
        /\ p.t.sendnext = h.t.sendnext /\ p.t.retx = h.t.retx /\ p.t.flags = h.t.flags
      BY <1>1, <1>2, <1>3 DEF Handlers, Tcbs, Alike
  <1>p. p = [h EXCEPT !.t.txbuf = b, !.t.txflags = f, !.t.sendunack = k]
      OBVIOUS
  <1> HIDE DEF p
  <1>7. /\ a \in Handlers /\ a.ebuf = h.ebuf /\ a.out = h.out /\ Alike(h.t, a.t)
        /\ a.t.rxbuf = h.t.rxbuf /\ a.t.sendunack = k /\ a.t.txbuf = b
        /\ a.t.txflags \in {h.t.txflags, f}
        /\ a.t.sendnext = h.t.sendnext /\ a.t.retx = h.t.retx /\ a.t.flags = h.t.flags
      BY <1>4, <1>5, <1>6 DEF Alike
  <1>8. ProcackEstablished(h, seg) = g
    <2>1. ProcackEstablished(h, seg) = IF a.t.txbuf = <<>> THEN [a EXCEPT !.t.retx = FALSE]
                            ELSE [a EXCEPT !.t.flags = @ \cup {"OUTPUT"}]
        BY <1>p DEF ProcackEstablished, n, b, k, f
    <2> HIDE DEF a
    <2> QED  BY <2>1, <1>7 DEF Handlers, Tcbs
  <1> HIDE DEF a, no, o
  <1>9. CASE a.t.txbuf = <<>>
    <2> DEFINE q == [a EXCEPT !.t.retx = no]
    <2>1. g = q
        BY <1>9
    <2>2. q \in Handlers
        BY <1>3, <1>7 DEF Handlers, Tcbs
    <2>3. /\ q.ebuf = a.ebuf /\ q.out = a.out /\ Alike(a.t, q.t) /\ q.t.rxbuf = a.t.rxbuf
          /\ q.t.sendunack = a.t.sendunack /\ q.t.sendnext = a.t.sendnext
          /\ q.t.txbuf = a.t.txbuf /\ q.t.txflags = a.t.txflags /\ q.t.flags = a.t.flags
        BY <1>3, <1>7 DEF Handlers, Tcbs, Alike
    <2> HIDE DEF q, g
    <2>4. /\ Renew(h, g) /\ Alike(h.t, g.t) /\ g.t.rxbuf = h.t.rxbuf
          /\ g.t.sendunack = k /\ g.t.sendnext = h.t.sendnext
          /\ g.t.txbuf = b /\ g.t.txbuf = <<>>
          /\ g.t.txflags \in {h.t.txflags, f} /\ g.t.flags = h.t.flags
        BY <2>1, <2>2, <2>3, <1>7, <1>9 DEF Renew, Alike
    <2> QED  BY <2>4, <1>8, <1>f DEF b, k, n
  <1>10. CASE a.t.txbuf # <<>>
    <2> DEFINE q == [a EXCEPT !.t.flags = o]
    <2>1. g = q
        BY <1>10
    <2>2. q \in Handlers
        BY <1>3, <1>7 DEF Handlers, Tcbs
    <2>3. /\ q.ebuf = a.ebuf /\ q.out = a.out /\ Alike(a.t, q.t) /\ q.t.rxbuf = a.t.rxbuf
          /\ q.t.sendunack = a.t.sendunack /\ q.t.sendnext = a.t.sendnext
          /\ q.t.txbuf = a.t.txbuf /\ q.t.txflags = a.t.txflags /\ q.t.flags = o
          /\ q.t.retx = a.t.retx
        BY <1>3, <1>7 DEF Handlers, Tcbs, Alike
    <2> HIDE DEF q, g
    <2>4. /\ Renew(h, g) /\ Alike(h.t, g.t) /\ g.t.rxbuf = h.t.rxbuf
          /\ g.t.sendunack = k /\ g.t.sendnext = h.t.sendnext
          /\ g.t.txbuf = b /\ g.t.retx = h.t.retx
          /\ g.t.txflags \in {h.t.txflags, f} /\ g.t.flags = o
        BY <2>1, <2>2, <2>3, <1>7, <1>10 DEF Renew, Alike
    <2> QED  BY <2>4, <1>8, <1>f DEF b, k, n
  <1> QED  BY <1>9, <1>10

\* A block that goes to TIME_WAIT, or to another state in which the numbers of what is
\* sent are not looked at any more.
Settles(h, g, s) ==
    /\ Renew(h, g) /\ g.t.state = s
    /\ g.t.sock = h.t.sock /\ g.t.peer = h.t.peer
    /\ g.t.rcvnext = h.t.rcvnext /\ g.t.rxbuf = h.t.rxbuf
    /\ g.t.txflags \in {h.t.txflags, {"ACK"}}
    /\ g.t.flags \in {h.t.flags, h.t.flags \cup {"SENDMSG"}}

LEMMA SetstateSettles ==
    ASSUME NEW h \in Handlers, NEW s \in States
    PROVE  Settles(h, Setstate(h, s), s)
  <1> DEFINE g == [h EXCEPT !.t.state = s]
  <1>1. g \in Handlers
      BY DEF Handlers, Tcbs
  <1>2. /\ Renew(h, g) /\ g.t.state = s /\ g.t.sock = h.t.sock /\ g.t.peer = h.t.peer
        /\ g.t.rcvnext = h.t.rcvnext /\ g.t.rxbuf = h.t.rxbuf
        /\ g.t.txflags = h.t.txflags /\ g.t.flags = h.t.flags
      BY <1>1 DEF Handlers, Tcbs, Renew
  <1>3. Setstate(h, s) = g
      BY DEF Setstate
  <1> HIDE DEF g
  <1> QED  BY <1>2, <1>3 DEF Settles

LEMMA EnterTimeWaitSettles ==
    ASSUME NEW h \in Handlers
    PROVE  Settles(h, EnterTimeWait(h), "TIME_WAIT") /\ EnterTimeWait(h).t.txflags = {"ACK"}
  <1> DEFINE s == "TIME_WAIT"  f == {"ACK"}  yes == TRUE
             a == Setstate(h, s)
             b == Canceltimers(a)
             p == Preparectlmsg(b, f)
             g == [p EXCEPT !.t.msl = yes]
  <1>1. s \in States /\ f \in SUBSET HeaderFlags /\ yes \in BOOLEAN
      BY DEF States, HeaderFlags
  <1>2. EnterTimeWait(h) = g
      BY DEF EnterTimeWait
  <1> HIDE DEF s, f, yes
  <1>3. /\ Renew(h, a) /\ a.t.state = s /\ a.t.sock = h.t.sock /\ a.t.peer = h.t.peer
        /\ a.t.rcvnext = h.t.rcvnext /\ a.t.rxbuf = h.t.rxbuf /\ a.t.flags = h.t.flags
    <2>1. a \in Handlers /\ a.ebuf = h.ebuf /\ a.out = h.out /\ a.t = [h.t EXCEPT !.state = s]
        BY <1>1, SetstateFacts
    <2> HIDE DEF a
    <2> QED  BY <2>1 DEF Renew, Handlers, Tcbs
  <1> HIDE DEF a
  <1>4. Renew(a, b) /\ Kept(a.t, b.t) /\ b.t.flags = a.t.flags
      BY <1>3, CanceltimersFacts DEF Renew
  <1> HIDE DEF b
  <1>5. Renew(b, p) /\ Kept(b.t, p.t) /\ p.t.txflags = f /\ p.t.flags = b.t.flags \cup {"SENDMSG"}
      BY <1>1, <1>4, PreparectlmsgFacts DEF Renew
  <1> HIDE DEF p
  <1>6. g \in Handlers
      BY <1>1, <1>5 DEF Handlers, Tcbs, Renew
  <1>7. Renew(p, g) /\ Kept(p.t, g.t) /\ g.t.txflags = p.t.txflags /\ g.t.flags = p.t.flags
      BY <1>1, <1>5, <1>6 DEF Handlers, Tcbs, Renew, Kept
  <1> HIDE DEF g
  <1>8. /\ Renew(h, g) /\ g.t.state = s
        /\ g.t.sock = h.t.sock /\ g.t.peer = h.t.peer
        /\ g.t.rcvnext = h.t.rcvnext /\ g.t.rxbuf = h.t.rxbuf
        /\ g.t.txflags = f /\ g.t.flags = h.t.flags \cup {"SENDMSG"}
      BY <1>3, <1>4, <1>5, <1>7 DEF Renew, Kept
  <1> QED  BY <1>2, <1>8 DEF Settles, s, f

LEMMA ProcackFinwaitFacts ==
    ASSUME NEW h \in Handlers, NEW seg \in Segments, h.t.state = "FINWAIT_1"
    PROVE  LET g == Procack(h, seg) IN
           \/ g = h
           \/ Settles(h, g, "FINWAIT_2") /\ g.t.flags = h.t.flags
           \/ Settles(h, g, "TIME_WAIT") /\ "FIN" \in seg.flags
  <1> DEFINE k == seg.ack
             a == [h EXCEPT !.t.sendunack = k]
             g == IF "FIN" \in seg.flags THEN EnterTimeWait(a) ELSE Setstate(a, "FINWAIT_2")
  <1>1. Procack(h, seg) = IF AcksOneMore(h.t, seg) THEN g ELSE h
      BY DEF Procack
  <1>2. k \in SeqNum
      BY DEF Segments
  <1> HIDE DEF k
  <1>3. a \in Handlers
      BY <1>2 DEF Handlers, Tcbs
  <1>4. /\ Renew(h, a) /\ a.t.sock = h.t.sock /\ a.t.peer = h.t.peer /\ a.t.rcvnext = h.t.rcvnext
        /\ a.t.rxbuf = h.t.rxbuf /\ a.t.txflags = h.t.txflags /\ a.t.flags = h.t.flags
      BY <1>2, <1>3 DEF Handlers, Tcbs, Renew
  <1> HIDE DEF a
  <1>5. CASE "FIN" \in seg.flags
    <2>1. Settles(a, EnterTimeWait(a), "TIME_WAIT") /\ g = EnterTimeWait(a)
        BY <1>3, <1>5, EnterTimeWaitSettles
    <2> HIDE DEF g
    <2>2. Settles(h, g, "TIME_WAIT")
        BY <1>4, <2>1 DEF Settles, Renew
    <2> QED  BY <1>1, <1>5, <2>2
  <1>6. CASE "FIN" \notin seg.flags
    <2> DEFINE s == "FINWAIT_2"
    <2>0. s \in States
        BY DEF States, RESETKEEPALIVE, CLOSINGSTATES
    <2>1. g = Setstate(a, s)
        BY <1>6
    <2> HIDE DEF g, s
    <2>2. g \in Handlers /\ g.ebuf = a.ebuf /\ g.out = a.out /\ g.t = [a.t EXCEPT !.state = s]
        BY <2>0, <2>1, <1>3, SetstateFacts
    <2>3. /\ g.t.state = s /\ g.t.sock = a.t.sock /\ g.t.peer = a.t.peer
          /\ g.t.rcvnext = a.t.rcvnext /\ g.t.rxbuf = a.t.rxbuf
          /\ g.t.txflags = a.t.txflags /\ g.t.flags = a.t.flags
        BY <2>2, <1>3 DEF Handlers, Tcbs
    <2>4. Settles(h, g, s) /\ g.t.flags = h.t.flags
        BY <1>4, <2>2, <2>3 DEF Settles, Renew
    <2> QED  BY <1>1, <2>4 DEF s
  <1> QED  BY <1>5, <1>6

-----------------------------------------------------------------------------
(* _tcp_procdata                                                           *)

LEMMA TakeDataFacts ==
    ASSUME NEW h \in Handlers, NEW seg \in Segments,
           NewData(h.t, seg) \in Seq(Bytes), Len(NewData(h.t, seg)) \in Nat,
           Len(NewData(h.t, seg)) <= Window(h.t)
    PROVE  LET g == TakeData(h, seg) IN
           /\ Renew(h, g) /\ Fits(h, g)
           /\ g.t.state = h.t.state /\ g.t.sock = h.t.sock /\ g.t.peer = h.t.peer
           /\ g.t.sendunack = h.t.sendunack /\ g.t.sendnext = h.t.sendnext
           /\ g.t.txbuf = h.t.txbuf /\ g.t.retx = h.t.retx
           /\ g.t.rxbuf = h.t.rxbuf \o NewData(h.t, seg)
           /\ g.t.rcvnext = Plus(h.t.rcvnext, Len(NewData(h.t, seg)))
           /\ g.t.txflags \in {h.t.txflags, {"ACK"}}
           /\ g.t.flags \subseteq h.t.flags \cup {"SENDMSG", "DLYACK"}
  <1> DEFINE d == NewData(h.t, seg)
             b == h.t.rxbuf \o d
             r == Plus(h.t.rcvnext, Len(d))
             a == [h EXCEPT !.t.rxbuf = b, !.t.rcvnext = r]
             f == {"ACK"}
             o == a.t.flags \cup {"DLYACK"}
             g == IF "DLYACK" \in h.t.flags THEN Preparectlmsg(a, f)
                                            ELSE [a EXCEPT !.t.flags = o]
  <1>1. h.t \in Tcbs /\ h.t.rxbuf \in Seq(Bytes) /\ Len(h.t.rxbuf) \in Nat /\ h.t.rcvnext \in SeqNum
      BY BufferFacts DEF Handlers, Tcbs
  <1>2. d \in Seq(Bytes) /\ Len(d) \in Nat /\ Len(d) <= BufSize - Len(h.t.rxbuf)
      BY DEF Window
  <1>t. TakeData(h, seg) = IF "DLYACK" \in h.t.flags THEN Preparectlmsg(a, {"ACK"})
                                  ELSE [a EXCEPT !.t.flags = @ \cup {"DLYACK"}]
      BY DEF TakeData, Handlers, Tcbs
  <1>f. f = {"ACK"} /\ f \in SUBSET HeaderFlags
      BY DEF HeaderFlags
  <1> HIDE DEF d, f
  <1>3. b \in Buffers
    <2>1. b \in Seq(Bytes) /\ Len(b) = Len(h.t.rxbuf) + Len(d)
        BY <1>1, <1>2, ConcatProperties
    <2> HIDE DEF b
    <2>2. Len(b) <= BufSize
        BY <2>1, <1>1, <1>2, Sizes
    <2> QED  BY <2>1, <2>2 DEF Buffers
  <1>4. r \in SeqNum
    <2>1. h.t.rcvnext \in Int /\ Len(d) \in Int
        BY <1>1, <1>2 DEF SeqNum
    <2> QED  BY <2>1, PlusType
  <1>5. b = h.t.rxbuf \o d /\ r = Plus(h.t.rcvnext, Len(d))
      OBVIOUS
  <1> HIDE DEF b, r
  <1>6. a \in Handlers
      BY <1>3, <1>4 DEF Handlers, Tcbs
  <1>7. /\ Renew(h, a)
        /\ a.t.state = h.t.state /\ a.t.sock = h.t.sock /\ a.t.peer = h.t.peer
        /\ a.t.sendunack = h.t.sendunack /\ a.t.sendnext = h.t.sendnext
        /\ a.t.txbuf = h.t.txbuf /\ a.t.retx = h.t.retx
        /\ a.t.rxbuf = b /\ a.t.rcvnext = r
        /\ a.t.txflags = h.t.txflags /\ a.t.flags = h.t.flags
      BY <1>3, <1>4, <1>6 DEF Handlers, Tcbs, Renew
  <1> HIDE DEF a
  <1>8. TakeData(h, seg) = g
      BY <1>t, <1>f, <1>6 DEF Handlers, Tcbs
  <1>o. o \in SUBSET TcbFlags
      BY <1>6 DEF Handlers, Tcbs, TcbFlags
  <1>p. o = a.t.flags \cup {"DLYACK"}
      OBVIOUS
  <1> HIDE DEF o
  <1>9. CASE "DLYACK" \in h.t.flags
    <2>1. g = Preparectlmsg(a, f)
        BY <1>9
    <2> HIDE DEF g
    <2>2. /\ Renew(a, g) /\ Kept(a.t, g.t) /\ g.t.txflags = f
          /\ g.t.flags = a.t.flags \cup {"SENDMSG"} /\ g.t.sendnext = a.t.sendnext
          /\ g.t.retx = a.t.retx
        BY <2>1, <1>f, <1>6, PreparectlmsgFacts DEF Renew
    <2>3. Renew(h, g) /\ Fits(h, g)
        BY <1>7, <1>9, <2>2 DEF Fits, Renew, Calm, Owed
    <2> QED  BY <1>5, <1>7, <1>8, <1>f, <2>2, <2>3 DEF Kept, d
  <1>10. CASE "DLYACK" \notin h.t.flags
    <2> DEFINE q == [a EXCEPT !.t.flags = o]
    <2>1. g = q
        BY <1>10
    <2>2. q \in Handlers
        BY <1>6, <1>o DEF Handlers, Tcbs
    <2>3. /\ Renew(a, q) /\ Kept(a.t, q.t) /\ q.t.txflags = a.t.txflags
          /\ q.t.flags = o /\ q.t.sendnext = a.t.sendnext /\ q.t.retx = a.t.retx
        BY <1>6, <1>o, <2>2 DEF Handlers, Tcbs, Renew, Kept
    <2> HIDE DEF q, g
    <2>4. Renew(h, g) /\ Fits(h, g)
        BY <1>7, <1>p, <2>1, <2>3 DEF Fits, Renew, Calm, Owed
    <2> QED  BY <1>5, <1>7, <1>8, <1>p, <2>1, <2>3, <2>4 DEF Kept, d
  <1> QED  BY <1>9, <1>10

\* The FIN of a segment, by state.
\* What TakeFin of an ESTABLISHED connection makes of h before it acknowledges the FIN.
FinTaken(h, n) ==
    /\ Renew(h, n) /\ n.t.state = "CLOSE_WAIT"
    /\ n.t.sock = h.t.sock /\ n.t.peer = h.t.peer
    /\ n.t.sendunack = h.t.sendunack /\ n.t.sendnext = h.t.sendnext
    /\ n.t.txbuf = h.t.txbuf /\ n.t.rxbuf = h.t.rxbuf
    /\ n.t.txflags = {"ACK"} /\ n.t.flags \subseteq h.t.flags

LEMMA TakeFinFacts ==
    ASSUME NEW h \in Handlers, NEW seg \in Segments
    PROVE  LET g == TakeFin(h, seg) IN
           /\ h.t.state = "ESTABLISHED" =>
                 \E n : FinTaken(h, n) /\ g = Protosend(n)
           /\ h.t.state # "ESTABLISHED" =>
                 /\ Renew(h, g)
                 /\ g.t.sock = h.t.sock /\ g.t.peer = h.t.peer /\ g.t.rxbuf = h.t.rxbuf
                 /\ g.t.txflags \in {h.t.txflags, {"ACK"}}
                 /\ g.t.flags \in {h.t.flags, h.t.flags \cup {"SENDMSG"}}
                 /\ h.t.state = "FINWAIT_1" => g.t.state \in {"CLOSING", "TIME_WAIT"}
                 /\ h.t.state = "FINWAIT_2" => g.t.state = "TIME_WAIT"
                 /\ h.t.state \notin {"FINWAIT_1", "FINWAIT_2"} => g.t.state = h.t.state
  <1> DEFINE r == Plus(h.t.rcvnext, 1)
             a == [h EXCEPT !.t.rcvnext = r]
  <1>1. r \in SeqNum
    <2>1. h.t.rcvnext \in Int
        BY DEF Handlers, Tcbs, SeqNum
    <2> QED  BY <2>1, PlusType
  <1>2. a = [h EXCEPT !.t.rcvnext = Plus(@, 1)]
      BY DEF Handlers, Tcbs
  <1> HIDE DEF r
  <1>3. a \in Handlers
      BY <1>1 DEF Handlers, Tcbs
  <1>4. /\ Renew(h, a) /\ a.t.state = h.t.state
        /\ a.t.sock = h.t.sock /\ a.t.peer = h.t.peer
        /\ a.t.sendunack = h.t.sendunack /\ a.t.sendnext = h.t.sendnext
        /\ a.t.txbuf = h.t.txbuf /\ a.t.rxbuf = h.t.rxbuf
        /\ a.t.txflags = h.t.txflags /\ a.t.flags = h.t.flags
      BY <1>1, <1>3 DEF Handlers, Tcbs, Renew
  <1>5. TakeFin(h, seg) =
            CASE h.t.state = "ESTABLISHED" ->
                   Sendctlmsg(Setstate([a EXCEPT !.t.flags = @ \ {"DLYACK"}], "CLOSE_WAIT"),
                              {"ACK"}, "leave")
              [] h.t.state = "FINWAIT_1" /\ "ACK" \notin seg.flags ->
                   Preparectlmsg(Setstate(a, "CLOSING"), {"ACK"})
              [] \/ h.t.state = "FINWAIT_1" /\ "ACK" \in seg.flags
                 \/ h.t.state = "FINWAIT_2" -> EnterTimeWait(a)
              [] OTHER -> a
      BY <1>2 DEF TakeFin
  <1> HIDE DEF a
  <1> DEFINE f == {"ACK"}
  <1>f. f = {"ACK"} /\ f \in SUBSET HeaderFlags
      BY DEF HeaderFlags
  <1> HIDE DEF f
  <1>6. CASE h.t.state = "ESTABLISHED"
    <2> DEFINE e == a.t.flags \ {"DLYACK"}
               s == "CLOSE_WAIT"
               m == [a EXCEPT !.t.flags = e]
               p == Setstate(m, s)
    <2>1. TakeFin(h, seg) = Sendctlmsg(p, f, "leave")
        BY <1>5, <1>6, <1>f, <1>3 DEF Handlers, Tcbs
    <2>2. e \in SUBSET TcbFlags /\ s \in States /\ e \subseteq h.t.flags
        BY <1>3, <1>4 DEF Handlers, Tcbs, States, RESETKEEPALIVE, SEND_OK
    <2>s. s = "CLOSE_WAIT"
        OBVIOUS
    <2> HIDE DEF e, s
    <2>3. m \in Handlers
        BY <1>3, <2>2 DEF Handlers, Tcbs
    <2>4. Renew(a, m) /\ Kept(a.t, m.t) /\ m.t.flags = e /\ m.t.sendnext = a.t.sendnext
        BY <1>3, <2>2, <2>3 DEF Handlers, Tcbs, Renew, Kept
    <2> HIDE DEF m
    <2>5. p \in Handlers /\ p.ebuf = m.ebuf /\ p.out = m.out /\ p.t = [m.t EXCEPT !.state = s]
        BY <2>2, <2>3, SetstateFacts
    <2> HIDE DEF p
    <2>6. /\ Renew(m, p) /\ p.t.state = s
          /\ p.t.sock = m.t.sock /\ p.t.peer = m.t.peer
          /\ p.t.sendunack = m.t.sendunack /\ p.t.sendnext = m.t.sendnext
          /\ p.t.txbuf = m.t.txbuf /\ p.t.rxbuf = m.t.rxbuf
          /\ p.t.flags = m.t.flags
        BY <2>3, <2>5 DEF Renew, Handlers, Tcbs
    <2>7. PICK n : Poised(p, n, f, "leave") /\ Sendctlmsg(p, f, "leave") = Protosend(n)
        BY <2>5, <1>f, SendctlmsgIs
    <2>8. /\ Renew(h, n) /\ TakeFin(h, seg) = Protosend(n)
          /\ n.t.state = "CLOSE_WAIT"
          /\ n.t.sock = h.t.sock /\ n.t.peer = h.t.peer
          /\ n.t.sendunack = h.t.sendunack /\ n.t.sendnext = h.t.sendnext
          /\ n.t.txbuf = h.t.txbuf /\ n.t.rxbuf = h.t.rxbuf
          /\ n.t.txflags = {"ACK"} /\ n.t.flags \subseteq h.t.flags
        BY <1>4, <1>f, <2>1, <2>2, <2>s, <2>4, <2>6, <2>7 DEF Renew, Kept, Poised
    <2>9. FinTaken(h, n)
        BY <2>8 DEF FinTaken
    <2> QED  BY <1>6, <2>8, <2>9
  <1>7. CASE h.t.state = "FINWAIT_1" /\ "ACK" \notin seg.flags
    <2> DEFINE s == "CLOSING"
               p == Setstate(a, s)
               g == Preparectlmsg(p, f)
    <2>1. TakeFin(h, seg) = g
        BY <1>5, <1>7, <1>f
    <2>2. s \in States
        BY DEF States, RESETKEEPALIVE, CLOSINGSTATES
    <2>s. s = "CLOSING"
        OBVIOUS
    <2> HIDE DEF s
    <2>5. p \in Handlers /\ p.ebuf = a.ebuf /\ p.out = a.out /\ p.t = [a.t EXCEPT !.state = s]
        BY <2>2, <1>3, SetstateFacts
    <2> HIDE DEF p
    <2>6. /\ Renew(a, p) /\ p.t.state = s
          /\ p.t.sock = a.t.sock /\ p.t.peer = a.t.peer /\ p.t.rxbuf = a.t.rxbuf
          /\ p.t.flags = a.t.flags
        BY <1>3, <2>5 DEF Renew, Handlers, Tcbs
    <2>7. /\ Renew(p, g) /\ Kept(p.t, g.t) /\ g.t.txflags = f
          /\ g.t.flags = p.t.flags \cup {"SENDMSG"}
        BY <1>f, <2>5, PreparectlmsgFacts DEF Renew
    <2> HIDE DEF g
    <2>8. /\ Renew(h, g) /\ g.t.state = "CLOSING"
          /\ g.t.sock = h.t.sock /\ g.t.peer = h.t.peer /\ g.t.rxbuf = h.t.rxbuf
          /\ g.t.txflags = {"ACK"} /\ g.t.flags = h.t.flags \cup {"SENDMSG"}
        BY <1>4, <1>f, <2>s, <2>6, <2>7 DEF Renew, Kept
    <2> QED  BY <1>7, <2>1, <2>8
  <1>8. CASE \/ h.t.state = "FINWAIT_1" /\ "ACK" \in seg.flags
             \/ h.t.state = "FINWAIT_2"
    <2> DEFINE g == EnterTimeWait(a)
    <2>1. TakeFin(h, seg) = g
        BY <1>5, <1>8
    <2>2. Settles(a, g, "TIME_WAIT") /\ g.t.txflags = {"ACK"}
        BY <1>3, EnterTimeWaitSettles
    <2> HIDE DEF g
    <2>3. /\ Renew(h, g) /\ g.t.state = "TIME_WAIT"
          /\ g.t.sock = h.t.sock /\ g.t.peer = h.t.peer /\ g.t.rxbuf = h.t.rxbuf
          /\ g.t.txflags = {"ACK"} /\ g.t.flags \in {h.t.flags, h.t.flags \cup {"SENDMSG"}}
        BY <1>4, <2>2 DEF Settles, Renew
    <2> QED  BY <1>8, <2>1, <2>3
  <1>9. CASE h.t.state \notin {"ESTABLISHED", "FINWAIT_1", "FINWAIT_2"}
    <2>1. TakeFin(h, seg) = a
        BY <1>5, <1>9
    <2> QED  BY <1>4, <1>9, <2>1
  <1> QED  BY <1>6, <1>7, <1>8, <1>9

-----------------------------------------------------------------------------
(* _tcp_rx_callback in the states of the handshake and of the close        *)

LEMMA RxListenFacts ==
    ASSUME NEW h \in Handlers, NEW seg \in Segments, "SYN" \in seg.flags
    PROVE  \E n : /\ Renew(h, n) /\ RxListen(h, seg) = Protosend(n)
                  /\ n.t.state = "SYN_RECEIVED" /\ n.t.peer = TRUE /\ n.t.sock = h.t.sock
                  /\ n.t.rcvnext = Plus(seg.seq, 1)
                  /\ n.t.sendunack = h.t.sendunack /\ n.t.sendnext = h.t.sendnext
                  /\ n.t.txbuf = h.t.txbuf /\ n.t.rxbuf = h.t.rxbuf
                  /\ n.t.txflags = {"SYN", "ACK"} /\ n.t.flags = h.t.flags
  <1> DEFINE s == "SYN_RECEIVED"  yes == TRUE  f == {"SYN", "ACK"}  r == Plus(seg.seq, 1)
             x == [h.t EXCEPT !.rcvnext = r, !.peer = yes, !.keep = yes, !.state = s]
             m == [h EXCEPT !.t = x]
  <1>1. RxListen(h, seg) = Sendctlmsg(m, f, "set")
      BY DEF RxListen
  <1>2. s \in States /\ yes \in BOOLEAN /\ f \in SUBSET HeaderFlags
      BY DEF States, CONNINPROGRESS, HeaderFlags
  <1>3. r \in SeqNum
    <2>1. seg.seq \in Int
        BY DEF Segments, SeqNum
    <2> QED  BY <2>1, PlusType
  <1>d. s = "SYN_RECEIVED" /\ yes = TRUE /\ f = {"SYN", "ACK"} /\ r = Plus(seg.seq, 1)
      OBVIOUS
  <1> HIDE DEF s, yes, f, r
  <1>5. x \in Tcbs
      BY <1>2, <1>3 DEF Handlers, Tcbs
  <1>6. /\ x.state = s /\ x.peer = yes /\ x.sock = h.t.sock /\ x.rcvnext = r
        /\ x.sendunack = h.t.sendunack /\ x.sendnext = h.t.sendnext
        /\ x.flags = h.t.flags /\ x.txbuf = h.t.txbuf /\ x.rxbuf = h.t.rxbuf
      BY <1>2, <1>3 DEF Handlers, Tcbs
  <1> HIDE DEF x
  <1>7. m \in Handlers /\ m.t = x /\ m.ebuf = h.ebuf /\ m.out = h.out
      BY <1>5 DEF Handlers
  <1> HIDE DEF m
  <1>8. PICK n : Poised(m, n, f, "set") /\ Sendctlmsg(m, f, "set") = Protosend(n)
      BY <1>2, <1>7, SendctlmsgIs
  <1>9. /\ Renew(h, n) /\ n.t.state = s /\ n.t.peer = yes /\ n.t.sock = h.t.sock /\ n.t.rcvnext = r
        /\ n.t.sendunack = h.t.sendunack /\ n.t.sendnext = h.t.sendnext
        /\ n.t.txbuf = h.t.txbuf /\ n.t.rxbuf = h.t.rxbuf
        /\ n.t.txflags = f /\ n.t.flags = h.t.flags
      BY <1>6, <1>7, <1>8 DEF Poised, Renew, Kept
  <1> QED  BY <1>1, <1>d, <1>8, <1>9

LEMMA RxSynSentFacts ==
    ASSUME NEW h \in Handlers, NEW seg \in Segments,
           "SYN" \in seg.flags, "ACK" \in seg.flags, AcksOneMore(h.t, seg)
    PROVE  \E n : /\ Renew(h, n) /\ RxSynSent(h, seg) = Protosend(n)
                  /\ n.t.state = "ESTABLISHED" /\ n.t.peer = h.t.peer /\ n.t.sock = h.t.sock
                  /\ n.t.sendunack = seg.ack /\ n.t.sendnext = seg.ack
                  /\ n.t.txbuf = h.t.txbuf /\ n.t.rxbuf = h.t.rxbuf
                  /\ n.t.txflags = {"ACK"} /\ n.t.flags = h.t.flags
  <1> DEFINE s == "ESTABLISHED"  yes == TRUE  f == {"ACK"}  r == Plus(seg.seq, 1)  k == seg.ack
             x == [h.t EXCEPT !.keep = yes, !.state = s, !.sendunack = k, !.sendnext = k,
                              !.rcvnext = r]
             m == [h EXCEPT !.t = x]
  <1>1. RxSynSent(h, seg) = Sendctlmsg(m, f, "clear")
      BY DEF RxSynSent
  <1>2. s \in States /\ yes \in BOOLEAN /\ f \in SUBSET HeaderFlags /\ k \in SeqNum
      BY DEF States, RESETKEEPALIVE, SEND_OK, HeaderFlags, Segments
  <1>3. r \in SeqNum
    <2>1. seg.seq \in Int
        BY DEF Segments, SeqNum
    <2> QED  BY <2>1, PlusType
  <1>d. s = "ESTABLISHED" /\ f = {"ACK"} /\ k = seg.ack
      OBVIOUS
  <1> HIDE DEF s, yes, f, r, k
  <1>5. x \in Tcbs
      BY <1>2, <1>3 DEF Handlers, Tcbs
  <1>6. /\ x.state = s /\ x.peer = h.t.peer /\ x.sock = h.t.sock
        /\ x.sendunack = k /\ x.sendnext = k
        /\ x.flags = h.t.flags /\ x.txbuf = h.t.txbuf /\ x.rxbuf = h.t.rxbuf
      BY <1>2, <1>3 DEF Handlers, Tcbs
  <1> HIDE DEF x
  <1>7. m \in Handlers /\ m.t = x /\ m.ebuf = h.ebuf /\ m.out = h.out
      BY <1>5 DEF Handlers
  <1> HIDE DEF m
  <1>8. PICK n : Poised(m, n, f, "clear") /\ Sendctlmsg(m, f, "clear") = Protosend(n)
      BY <1>2, <1>7, SendctlmsgIs
  <1>9. /\ Renew(h, n) /\ n.t.state = s /\ n.t.peer = h.t.peer /\ n.t.sock = h.t.sock
        /\ n.t.sendunack = k /\ n.t.sendnext = k
        /\ n.t.txbuf = h.t.txbuf /\ n.t.rxbuf = h.t.rxbuf
        /\ n.t.txflags = f /\ n.t.flags = h.t.flags
      BY <1>6, <1>7, <1>8 DEF Poised, Renew, Kept
  <1> QED  BY <1>1, <1>d, <1>8, <1>9

\* In SYN_RECEIVED a SYN is answered again; an ack of ours ends the handshake.
SynAnswered(h, seg) == IF "SYN" \in seg.flags THEN Sendctlmsg(h, {"SYN", "ACK"}, "set") ELSE h
SynAcked(h, seg) == Sendctlmsg(SynAnswered(h, seg), {"ACK"}, "clear")

LEMMA RxSynReceivedFacts ==
    ASSUME NEW h \in Handlers, NEW seg \in Segments, SynAcked(h, seg) \in Handlers
    PROVE  LET g == RxSynReceived(h, seg)
               a == SynAcked(h, seg) IN
           /\ ~("ACK" \in seg.flags /\ AcksOneMore(h.t, seg)) => g = SynAnswered(h, seg)
           /\ "ACK" \in seg.flags /\ AcksOneMore(h.t, seg) =>
                 /\ Renew(a, g) /\ g.t.state = "ESTABLISHED"
                 /\ g.t.sock = a.t.sock /\ g.t.peer = a.t.peer
                 /\ g.t.rcvnext = a.t.rcvnext /\ g.t.rcvack = a.t.rcvack
                 /\ g.t.sendunack = seg.ack /\ g.t.sendnext = seg.ack
                 /\ g.t.txbuf = a.t.txbuf /\ g.t.rxbuf = a.t.rxbuf
                 /\ g.t.txflags = a.t.txflags /\ g.t.flags = a.t.flags
  <1> DEFINE a == SynAcked(h, seg)
             s == "ESTABLISHED"  yes == TRUE  k == seg.ack
             x == [a.t EXCEPT !.sendunack = k, !.sendnext = k, !.keep = yes, !.state = s]
             m == [a EXCEPT !.t = x]
  <1>1. RxSynReceived(h, seg) = IF "ACK" \in seg.flags /\ AcksOneMore(h.t, seg)
                                THEN m ELSE SynAnswered(h, seg)
      BY DEF RxSynReceived, SynAcked, SynAnswered
  <1>2. s \in States /\ yes \in BOOLEAN /\ k \in SeqNum /\ a \in Handlers
      BY DEF States, RESETKEEPALIVE, SEND_OK, Segments
  <1>d. s = "ESTABLISHED" /\ k = seg.ack /\ a = SynAcked(h, seg)
      OBVIOUS
  <1> HIDE DEF s, yes, k, a
  <1>5. x \in Tcbs
      BY <1>2 DEF Handlers, Tcbs
  <1>6. /\ x.state = s /\ x.peer = a.t.peer /\ x.sock = a.t.sock
        /\ x.rcvnext = a.t.rcvnext /\ x.rcvack = a.t.rcvack
        /\ x.sendunack = k /\ x.sendnext = k /\ x.txflags = a.t.txflags
        /\ x.flags = a.t.flags /\ x.txbuf = a.t.txbuf /\ x.rxbuf = a.t.rxbuf
      BY <1>2 DEF Handlers, Tcbs
  <1> HIDE DEF x
  <1>7. m \in Handlers /\ m.t = x /\ m.ebuf = a.ebuf /\ m.out = a.out
      BY <1>2, <1>5 DEF Handlers
  <1> HIDE DEF m
  <1>8. Renew(a, m)
      BY <1>7 DEF Renew
  <1>9. CASE "ACK" \in seg.flags /\ AcksOneMore(h.t, seg)
    <2>1. RxSynReceived(h, seg) = m
        BY <1>1, <1>9
    <2> QED  BY <2>1, <1>6, <1>7, <1>8, <1>9, <1>d
  <1>10. CASE ~("ACK" \in seg.flags /\ AcksOneMore(h.t, seg))
      BY <1>1, <1>10
  <1> QED  BY <1>9, <1>10

LEMMA RxClosingFacts ==
    ASSUME NEW h \in Handlers, NEW seg \in Segments
    PROVE  RxClosing(h, seg) = h \/ Settles(h, RxClosing(h, seg), "TIME_WAIT")
  <1> DEFINE s == "TIME_WAIT"  yes == TRUE
             a == Setstate(h, s)
             b == Canceltimers(a)
             g == [b EXCEPT !.t.msl = yes]
  <1>1. s \in States /\ yes \in BOOLEAN
      BY DEF States
  <1>2. RxClosing(h, seg) = IF AcksOneMore(h.t, seg) THEN g ELSE h
      BY DEF RxClosing
  <1>d. s = "TIME_WAIT"
      OBVIOUS
  <1> HIDE DEF s, yes
  <1>3. a \in Handlers /\ Settles(h, a, s) /\ a.t.flags = h.t.flags /\ a.t.txflags = h.t.txflags
    <2>1. a \in Handlers /\ a.ebuf = h.ebuf /\ a.out = h.out /\ a.t = [h.t EXCEPT !.state = s]
        BY <1>1, SetstateFacts
    <2> HIDE DEF a
    <2>2. /\ Renew(h, a) /\ a.t.state = s /\ a.t.sock = h.t.sock /\ a.t.peer = h.t.peer
          /\ a.t.rcvnext = h.t.rcvnext /\ a.t.rxbuf = h.t.rxbuf /\ a.t.flags = h.t.flags
          /\ a.t.txflags = h.t.txflags
        BY <2>1 DEF Renew, Handlers, Tcbs
    <2> QED  BY <2>1, <2>2 DEF Settles
  <1> HIDE DEF a
  <1>4. Renew(a, b) /\ Kept(a.t, b.t) /\ b.t.flags = a.t.flags /\ b.t.txflags = a.t.txflags
      BY <1>3, CanceltimersFacts DEF Renew
  <1> HIDE DEF b
  <1>6. g \in Handlers
      BY <1>1, <1>4 DEF Handlers, Tcbs, Renew
  <1>7. Renew(b, g) /\ Kept(b.t, g.t) /\ g.t.txflags = b.t.txflags /\ g.t.flags = b.t.flags
      BY <1>1, <1>4, <1>6 DEF Handlers, Tcbs, Renew, Kept
  <1> HIDE DEF g
  <1>8. Settles(h, g, s)
      BY <1>3, <1>4, <1>7 DEF Settles, Renew, Kept
  <1> QED  BY <1>2, <1>8, <1>d

\* A control block that is given back.
Gone(h, g) == /\ Renew(h, g) /\ g.t.state = "FREE" /\ g.t.sock = FALSE /\ g.t.peer = FALSE
              /\ g.t.txbuf = <<>> /\ g.t.rxbuf = <<>> /\ g.t.flags = {}

LEMMA GoneFacts ==
    ASSUME NEW h \in Handlers
    PROVE  Gone(h, Freetcb(Closetcb(h))) /\ Fits(h, Freetcb(Closetcb(h)))
  <1> DEFINE m == Closetcb(h)
             g == Freetcb(m)
  <1>1. m \in Handlers /\ m.ebuf = h.ebuf /\ m.out = h.out
      BY ClosetcbFacts
  <1> HIDE DEF m
  <1>2. /\ g \in Handlers /\ g.ebuf = m.ebuf /\ g.out = m.out
        /\ g.t.state = "FREE" /\ g.t.sock = FALSE /\ g.t.peer = FALSE
        /\ g.t.txbuf = <<>> /\ g.t.rxbuf = <<>> /\ g.t.flags = {}
      BY <1>1, FreetcbFacts
  <1> HIDE DEF g
  <1>3. Gone(h, g)
      BY <1>1, <1>2 DEF Gone, Renew
  <1>4. Fits(h, g)
      BY <1>1, <1>2, EmptyFits DEF RECV_OK
  <1> QED  BY <1>3, <1>4 DEF g, m

\* _tcp_protosend with txflags set first; everything else is as it was.
Tagged(h, n, f) == /\ Renew(h, n) /\ Kept(h.t, n.t) /\ n.t.txflags = f
                   /\ n.t.flags \subseteq h.t.flags /\ n.t.sendnext = h.t.sendnext

LEMMA PoisedIsTagged ==
    ASSUME NEW h, NEW n, NEW f, NEW timer, Poised(h, n, f, timer)
    PROVE  Tagged(h, n, f) /\ n.t.retx = IF timer = "leave" THEN h.t.retx ELSE timer = "set"
  BY DEF Poised, Tagged

LEMMA RxTimeWaitFacts ==
    ASSUME NEW h \in Handlers, NEW seg
    PROVE  \E n : Tagged(h, n, {"ACK"}) /\ RxTimeWait(h, seg) = Protosend(n)
  <1> DEFINE f == {"ACK"}  yes == TRUE
             n == [h EXCEPT !.t.txflags = f, !.t.msl = yes]
  <1>1. RxTimeWait(h, seg) = Protosend(n)
      BY DEF RxTimeWait
  <1>2. f \in SUBSET HeaderFlags /\ yes \in BOOLEAN
      BY DEF HeaderFlags
  <1>d. f = {"ACK"}
      OBVIOUS
  <1> HIDE DEF f, yes
  <1>3. n \in Handlers
      BY <1>2 DEF Handlers, Tcbs
  <1>4. Tagged(h, n, f)
      BY <1>2, <1>3 DEF Handlers, Tcbs, Tagged, Renew, Kept
  <1> HIDE DEF n
  <1> QED  BY <1>1, <1>4, <1>d

\* Whatever is done before a control segment is sent, the ack it carries is the last word.
LEMMA SentFits ==
    ASSUME NEW h, NEW n, Renew(h, n), Calm(h.t) => Calm(n.t)
    PROVE  Fits(h, Protosend(n)) /\ Protosend(n).t.state = n.t.state
  <1>1. n \in Handlers /\ n.ebuf = h.ebuf
      BY DEF Renew
  <1>2. Controls(n, Protosend(n), n.t.txflags)
      BY <1>1, ProtosendControls
  <1>3. Fits(n, Protosend(n)) /\ (n.ebuf => Owed(Protosend(n).t)) /\ Protosend(n).t.state = n.t.state
      BY <1>1, <1>2, ControlsFits
  <1> QED  BY <1>1, <1>3 DEF Fits

LEMMA TaggedFits ==
    ASSUME NEW h \in Handlers, NEW n, NEW f, Tagged(h, n, f)
    PROVE  Fits(h, Protosend(n)) /\ Protosend(n).t.state = h.t.state
  <1>1. Renew(h, n) /\ (Calm(h.t) => Calm(n.t)) /\ n.t.state = h.t.state
      BY DEF Tagged, Calm, Kept
  <1> QED  BY <1>1, SentFits

-----------------------------------------------------------------------------
(* _tcp_close                                                              *)

\* The block that q is to become when the user closes, before the FIN is sent.
Ending(q, n, s) ==
    /\ Renew(q, n) /\ n.t.state = s /\ n.t.sock = FALSE /\ n.t.peer = q.t.peer
    /\ n.t.rcvnext = q.t.rcvnext /\ n.t.rxbuf = q.t.rxbuf
    /\ n.t.txflags = {"ACK", "FIN"} /\ n.t.flags = q.t.flags

LEMMA EndingFacts ==
    ASSUME NEW q \in Handlers, NEW s \in {"FINWAIT_1", "LAST_ACK"}
    PROVE  \E n : /\ Ending(q, n, s)
                  /\ Sendctlmsg(Setstate([q EXCEPT !.t.sock = FALSE], s), {"ACK", "FIN"}, "set")
                        = Protosend(n)
  <1> DEFINE no == FALSE  f == {"ACK", "FIN"}  timer == "set"
             l == [q EXCEPT !.t.sock = no]
             m == Setstate(l, s)
  <1>1. no \in BOOLEAN /\ f \in SUBSET HeaderFlags /\ timer \in {"set", "clear", "leave"}
      BY DEF HeaderFlags
  <1>2. s \in States
      BY DEF States, RESETKEEPALIVE, CLOSINGSTATES
  <1>d. no = FALSE /\ f = {"ACK", "FIN"} /\ timer = "set"
      OBVIOUS
  <1> HIDE DEF no, f, timer
  <1>3. l \in Handlers /\ l.t \in Tcbs /\ l.ebuf = q.ebuf /\ l.out = q.out
      BY <1>1 DEF Handlers, Tcbs
  <1>4. /\ l.t.sock = no /\ l.t.peer = q.t.peer /\ l.t.rcvnext = q.t.rcvnext
        /\ l.t.rxbuf = q.t.rxbuf /\ l.t.flags = q.t.flags
      BY DEF Handlers, Tcbs
  <1> HIDE DEF l
  <1>5. Settles(l, m, s) /\ m.t = [l.t EXCEPT !.state = s]
      BY <1>2, <1>3, SetstateSettles, SetstateFacts
  <1>6. m.t.flags = l.t.flags
      BY <1>3, <1>5 DEF Tcbs
  <1>7. m \in Handlers
      BY <1>5 DEF Settles, Renew
  <1> HIDE DEF m
  <1>8. PICK n : Poised(m, n, f, timer) /\ Sendctlmsg(m, f, timer) = Protosend(n)
      BY <1>1, <1>7, SendctlmsgIs
  <1>9. Ending(q, n, s)
      BY <1>3, <1>4, <1>5, <1>6, <1>8, <1>d DEF Ending, Poised, Settles, Renew, Kept
  <1> QED  BY <1>8, <1>9, <1>d DEF m, l

LEMMA CloseFacts ==
    ASSUME NEW h \in Handlers
    PROVE  /\ h.t.state \in {"SYN_RECEIVED", "ESTABLISHED"} =>
                 \E n : Ending(Output(h), n, "FINWAIT_1") /\ Close(h) = Protosend(n)
           /\ h.t.state = "CLOSE_WAIT" =>
                 \E n : Ending(Output(h), n, "LAST_ACK") /\ Close(h) = Protosend(n)
           /\ h.t.state \in {"CLOSED", "LISTEN", "SYN_SENT"} => Gone(Output(h), Close(h))
  <1> DEFINE q == Output(h)
             left == [q EXCEPT !.t.sock = FALSE]
  <1>1. q \in Handlers
      BY OutputFits DEF Fits
  <1>2. /\ h.t.state \in {"SYN_RECEIVED", "ESTABLISHED"} =>
              Close(h) = Sendctlmsg(Setstate(left, "FINWAIT_1"), {"ACK", "FIN"}, "set")
        /\ h.t.state = "CLOSE_WAIT" =>
              Close(h) = Sendctlmsg(Setstate(left, "LAST_ACK"), {"ACK", "FIN"}, "set")
        /\ h.t.state \in {"CLOSED", "LISTEN", "SYN_SENT"} => Close(h) = Freetcb(Closetcb(left))
      BY DEF Close
  <1>3. left \in Handlers /\ left.ebuf = q.ebuf /\ left.out = q.out
      BY <1>1 DEF Handlers, Tcbs
  <1> HIDE DEF q
  <1>4. \E n : /\ Ending(q, n, "FINWAIT_1")
               /\ Sendctlmsg(Setstate(left, "FINWAIT_1"), {"ACK", "FIN"}, "set") = Protosend(n)
      BY <1>1, EndingFacts
  <1>5. \E n : /\ Ending(q, n, "LAST_ACK")
               /\ Sendctlmsg(Setstate(left, "LAST_ACK"), {"ACK", "FIN"}, "set") = Protosend(n)
      BY <1>1, EndingFacts
  <1> HIDE DEF left
  <1>6. Gone(left, Freetcb(Closetcb(left)))
      BY <1>3, GoneFacts
  <1>7. Gone(q, Freetcb(Closetcb(left)))
      BY <1>3, <1>6 DEF Gone, Renew
  <1> QED  BY <1>2, <1>4, <1>5, <1>7 DEF q

-----------------------------------------------------------------------------
(* The timers                                                              *)

LEMMA FasttimoFacts ==
    ASSUME NEW h \in Handlers
    PROVE  /\ "DLYACK" \notin h.t.flags => Fasttimo(h) = h
           /\ "DLYACK" \in h.t.flags =>
                 \E n : /\ Tagged(h, n, {"ACK"}) /\ n.t.retx = h.t.retx
                        /\ Fasttimo(h) = Protosend(n)
  <1>1. "DLYACK" \notin h.t.flags => Fasttimo(h) = h
      BY DEF Fasttimo
  <1>2. ASSUME "DLYACK" \in h.t.flags
        PROVE  \E n : /\ Tagged(h, n, {"ACK"}) /\ n.t.retx = h.t.retx
                      /\ Fasttimo(h) = Protosend(n)
    <2> DEFINE x == h.t.flags \ {"DLYACK"}  f == {"ACK"}  timer == "leave"
               m == [h EXCEPT !.t.flags = x]
    <2>1. Fasttimo(h) = Sendctlmsg(m, f, timer)
        BY <1>2 DEF Fasttimo
    <2>2. x \in SUBSET TcbFlags /\ x \subseteq h.t.flags
        BY DEF Handlers, Tcbs
    <2>3. f \in SUBSET HeaderFlags /\ timer \in {"set", "clear", "leave"}
        BY DEF HeaderFlags
    <2>d. f = {"ACK"} /\ timer = "leave"
        OBVIOUS
    <2> HIDE DEF x, f, timer
    <2>4. m \in Handlers
        BY <2>2 DEF Handlers, Tcbs
    <2>5. /\ Renew(h, m) /\ Kept(h.t, m.t) /\ m.t.flags = x /\ m.t.sendnext = h.t.sendnext
          /\ m.t.retx = h.t.retx
        BY <2>2, <2>4 DEF Handlers, Tcbs, Renew, Kept
    <2> HIDE DEF m
    <2>6. PICK n : Poised(m, n, f, timer) /\ Sendctlmsg(m, f, timer) = Protosend(n)
        BY <2>3, <2>4, SendctlmsgIs
    <2>7. Tagged(h, n, f) /\ n.t.retx = h.t.retx
        BY <2>2, <2>5, <2>6, <2>d DEF Tagged, Poised, Renew, Kept
    <2> QED  BY <2>1, <2>6, <2>7, <2>d
  <1> QED  BY <1>1, <1>2

LEMMA RewindFacts ==
    ASSUME NEW h \in Handlers
    PROVE  LET g == RewindToUnacked(h) IN
           /\ Renew(h, g) /\ Kept(h.t, g.t) /\ g.t.sendnext = h.t.sendunack /\ g.t.retx = TRUE
           /\ g.t.flags = h.t.flags /\ g.t.txflags = h.t.txflags /\ g.t.rcvack = h.t.rcvack
  <1> DEFINE yes == TRUE
             n == h.t.sendunack
             g == [h EXCEPT !.t.sendnext = n, !.t.retx = yes]
  <1>1. RewindToUnacked(h) = g
      BY DEF RewindToUnacked
  <1>2. yes \in BOOLEAN /\ n \in SeqNum
      BY DEF Handlers, Tcbs
  <1>d. yes = TRUE /\ n = h.t.sendunack
      OBVIOUS
  <1> HIDE DEF yes, n
  <1>3. g \in Handlers
      BY <1>2 DEF Handlers, Tcbs
  <1>4. /\ Renew(h, g) /\ Kept(h.t, g.t) /\ g.t.sendnext = n /\ g.t.retx = yes
        /\ g.t.flags = h.t.flags /\ g.t.txflags = h.t.txflags /\ g.t.rcvack = h.t.rcvack
      BY <1>2, <1>3 DEF Handlers, Tcbs, Renew, Kept
  <1> HIDE DEF g
  <1> QED  BY <1>1, <1>4, <1>d

\* The retransmission timer is given up.
LEMMA UntimedFacts ==
    ASSUME NEW h \in Handlers
    PROVE  LET g == [h EXCEPT !.t.retx = FALSE] IN
           /\ Renew(h, g) /\ Kept(h.t, g.t) /\ g.t.sendnext = h.t.sendnext
           /\ g.t.flags = h.t.flags /\ g.t.txflags = h.t.txflags /\ g.t.rcvack = h.t.rcvack
  <1> DEFINE no == FALSE
             g == [h EXCEPT !.t.retx = no]
  <1>1. no \in BOOLEAN
      OBVIOUS
  <1>d. [h EXCEPT !.t.retx = FALSE] = g
      OBVIOUS
  <1> HIDE DEF no
  <1>2. g \in Handlers
      BY <1>1 DEF Handlers, Tcbs
  <1>3. /\ Renew(h, g) /\ Kept(h.t, g.t) /\ g.t.sendnext = h.t.sendnext
        /\ g.t.flags = h.t.flags /\ g.t.txflags = h.t.txflags /\ g.t.rcvack = h.t.rcvack
      BY <1>1, <1>2 DEF Handlers, Tcbs, Renew, Kept
  <1> HIDE DEF g
  <1> QED  BY <1>3, <1>d

\* The keepalive and the 2MSL timer: nothing depends on them.
LEMMA KeepMslSame ==
    ASSUME NEW h \in Handlers, NEW b \in BOOLEAN
    PROVE  /\ Renew(h, [h EXCEPT !.t.keep = b]) /\ Same(h.t, [h EXCEPT !.t.keep = b].t)
           /\ Renew(h, [h EXCEPT !.t.msl = b]) /\ Same(h.t, [h EXCEPT !.t.msl = b].t)
  <1>1. [h EXCEPT !.t.keep = b] \in Handlers /\ [h EXCEPT !.t.msl = b] \in Handlers
      BY DEF Handlers, Tcbs
  <1> QED  BY <1>1 DEF Handlers, Tcbs, Renew, Same, Kept

-----------------------------------------------------------------------------
(* The frame of _tcp_rx_callback                                           *)

Live(h) == [h EXCEPT !.t.keep = @ \/ h.t.state \in RESETKEEPALIVE]
Told(h, seg) == [Live(h) EXCEPT !.t.sendwindow = seg.win]

LEMMA LiveSame ==
    ASSUME NEW h \in Handlers
    PROVE  Renew(h, Live(h)) /\ Same(h.t, Live(h).t)
  <1> DEFINE b == h.t.keep \/ h.t.state \in RESETKEEPALIVE
  <1>1. Live(h) = [h EXCEPT !.t.keep = b]
      BY DEF Live
  <1>2. b \in BOOLEAN
      OBVIOUS
  <1> HIDE DEF b
  <1> QED  BY <1>1, <1>2, KeepMslSame

LEMMA ToldSame ==
    ASSUME NEW h \in Handlers, NEW seg \in Segments
    PROVE  Renew(h, Told(h, seg)) /\ Same(h.t, Told(h, seg).t)
  <1> DEFINE l == Live(h)
             n == seg.win
             g == [l EXCEPT !.t.sendwindow = n]
  <1>1. Told(h, seg) = g
      BY DEF Told
  <1>2. n \in 0..BufSize
      BY DEF Segments
  <1>3. Renew(h, l) /\ Same(h.t, l.t)
      BY LiveSame
  <1> HIDE DEF l, n
  <1>4. l \in Handlers
      BY <1>3 DEF Renew
  <1>5. g \in Handlers
      BY <1>2, <1>4 DEF Handlers, Tcbs
  <1>6. Renew(l, g) /\ Same(l.t, g.t)
      BY <1>2, <1>4, <1>5 DEF Handlers, Tcbs, Renew, Same, Kept
  <1> HIDE DEF g
  <1>7. Renew(h, g) /\ Same(h.t, g.t)
      BY <1>3, <1>6 DEF Renew, Same, Kept
  <1> QED  BY <1>1, <1>7

LEMMA RxCallbackIs ==
    ASSUME NEW h, NEW seg
    PROVE  LET g == RxCallback(h, seg)
               m == Told(h, seg) IN
           /\ "RST" \in seg.flags =>
                 g = IF h.t.state = "SYN_RECEIVED" THEN Setstate(Live(h), "LISTEN") ELSE Closetcb(Live(h))
           /\ "RST" \notin seg.flags =>
                 /\ h.t.state = "LISTEN" => g = RxListen(m, seg)
                 /\ h.t.state = "SYN_SENT" => g = RxSynSent(m, seg)
                 /\ h.t.state = "SYN_RECEIVED" => g = RxSynReceived(m, seg)
                 /\ h.t.state \in {"ESTABLISHED", "FINWAIT_1", "FINWAIT_2"} => g = Flush(RxData(m, seg))
                 /\ h.t.state = "CLOSING" => g = Flush(RxClosing(m, seg))
                 /\ h.t.state = "LAST_ACK" => g = Flush(RxLastAck(m, seg))
                 /\ h.t.state = "TIME_WAIT" => g = Flush(RxTimeWait(m, seg))
                 /\ h.t.state \in {"FREE", "CLOSED", "CLOSE_WAIT"} => g = Flush(m)
  BY DEF RxCallback, Live, Told

\* What _tcp_output leaves when a segment made it due: nothing is due any more.
Flushed(h) == [Output(h) EXCEPT !.t.flags = @ \ {"OUTPUT", "SENDMSG"}]

LEMMA FlushedFacts ==
    ASSUME NEW h \in Handlers
    PROVE  LET q == Output(h)
               g == Flushed(h) IN
           /\ Renew(q, g) /\ Kept(q.t, g.t) /\ g.t.sendnext = q.t.sendnext
           /\ g.t.txflags = q.t.txflags /\ g.t.retx = q.t.retx
           /\ g.t.flags \subseteq q.t.flags /\ Calm(g.t) /\ "SENDMSG" \notin g.t.flags
           /\ Fits(h, g) /\ g.t.state = h.t.state
  <1> DEFINE q == Output(h)
             x == q.t.flags \ {"OUTPUT", "SENDMSG"}
             g == [q EXCEPT !.t.flags = x]
  <1>1. Flushed(h) = g
      BY DEF Flushed
  <1>2. Fits(h, q) /\ Kept(h.t, q.t)
      BY OutputFits
  <1>3. q \in Handlers
      BY <1>2 DEF Fits
  <1>4. /\ x \in SUBSET TcbFlags /\ x \subseteq q.t.flags /\ "OUTPUT" \notin x /\ "SENDMSG" \notin x
        /\ "DLYACK" \in q.t.flags => "DLYACK" \in x
      BY <1>3 DEF Handlers, Tcbs
  <1> HIDE DEF q, x
  <1>5. g \in Handlers
      BY <1>3, <1>4 DEF Handlers, Tcbs
  <1>6. /\ Renew(q, g) /\ Kept(q.t, g.t) /\ g.t.sendnext = q.t.sendnext /\ g.t.rcvack = q.t.rcvack
        /\ g.t.txflags = q.t.txflags /\ g.t.retx = q.t.retx /\ g.t.flags = x
      BY <1>3, <1>4, <1>5 DEF Handlers, Tcbs, Renew, Kept
  <1> HIDE DEF g
  <1>7. Calm(g.t)
      BY <1>4, <1>6 DEF Calm
  <1>8. Owed(q.t) => Owed(g.t)
      BY <1>4, <1>6 DEF Owed, Kept
  <1>9. Fits(h, g) /\ g.t.state = h.t.state
      BY <1>2, <1>6, <1>7, <1>8 DEF Fits, Renew, Kept
  <1> QED  BY <1>1, <1>4, <1>6, <1>7, <1>9 DEF q

LEMMA FlushIs ==
    ASSUME NEW h
    PROVE  /\ "OUTPUT" \in h.t.flags /\ "SENDMSG" \notin Flushed(h).t.flags => Flush(h) = Flushed(h)
           /\ "OUTPUT" \notin h.t.flags =>
                 Flush(h) = IF "SENDMSG" \in h.t.flags THEN Protosend(h) ELSE h
  BY DEF Flush, Flushed

LEMMA RxLastAckFacts ==
    ASSUME NEW h \in Handlers, NEW seg \in Segments
    PROVE  LET g == RxLastAck(h, seg) IN
           \/ Gone(h, g)
           \/ \E n : Tagged(h, n, {"ACK", "FIN"}) /\ g = Protosend(n)
  <1> DEFINE f == {"ACK", "FIN"}  timer == "set"
  <1>1. AcksOneMore(h.t, seg) => Gone(h, RxLastAck(h, seg))
      BY GoneFacts DEF RxLastAck
  <1>2. ~AcksOneMore(h.t, seg) => RxLastAck(h, seg) = Sendctlmsg(h, f, timer)
      BY DEF RxLastAck
  <1>3. f \in SUBSET HeaderFlags /\ timer \in {"set", "clear", "leave"}
      BY DEF HeaderFlags
  <1>d. f = {"ACK", "FIN"}
      OBVIOUS
  <1> HIDE DEF f, timer
  <1>4. PICK n : Poised(h, n, f, timer) /\ Sendctlmsg(h, f, timer) = Protosend(n)
      BY <1>3, SendctlmsgIs
  <1>5. Tagged(h, n, f)
      BY <1>4, PoisedIsTagged
  <1> QED  BY <1>1, <1>2, <1>4, <1>5, <1>d
=============================================================================
