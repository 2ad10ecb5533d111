--------------------------- MODULE TcpConnProofs ---------------------------
(***************************************************************************)
(* The proofs about TcpConn: CInv is inductive, and what the bytes, the    *)
(* acks, the numbers and the timer of a connection do follows from it.     *)
(*                                                                         *)
(* The layers, above those of TcpInputProofs, are: which kinds of change   *)
(* to a control block and which new segments keep the invariant of its     *)
(* host and of the peer (Half, Whole); what each handler does in terms of  *)
(* those (World, Goes); the actions; and how many SYN|ACKs a listener can  *)
(* have sent (Counted), without which its numbers could go half around.    *)
(***************************************************************************)
EXTENDS TcpConnInv, TcpInputProofs, FiniteSetTheorems

-----------------------------------------------------------------------------
(* Arithmetic around the circle *)

LEMMA ModOf ==
    ASSUME NEW n \in Nat, n > 0, NEW a \in Int
    PROVE  /\ a >= 0 /\ a < n => a % n = a
           /\ a >= n /\ a < 2 * n => a % n = a - n
           /\ a < 0 /\ a >= -n => a % n = a + n
           /\ a % n \in 0 .. n - 1
  <1>1. a >= 0 /\ a < n => a % n = a
      OBVIOUS
  <1>2. a >= n /\ a < 2 * n => a % n = a - n
      OBVIOUS
  <1>3. a < 0 /\ a >= -n => a % n = a + n
      OBVIOUS
  <1>4. a % n \in 0 .. n - 1
      OBVIOUS
  <1> QED  BY <1>1, <1>2, <1>3, <1>4

LEMMA BaseType == ASSUME NEW c \in Roles PROVE Base(c) \in SeqNum
  <1>1. Iss \in Int
      BY BoundsAssumption, Sizes
  <1>2. Plus(Iss, 1) \in SeqNum
      BY <1>1, PlusType
  <1>3. 1 \in SeqNum
      BY Sizes DEF SeqNum
  <1> QED  BY <1>2, <1>3 DEF Base

LEMMA OffType == ASSUME NEW c \in Roles, NEW n \in SeqNum
                 PROVE  Off(c, n) \in 0 .. SeqSize - 1 /\ Off(c, n) \in Nat /\ Off(c, n) < SeqSize
  <1> DEFINE b == Base(c)
  <1>1. b \in Int /\ n \in Int
      BY BaseType DEF SeqNum
  <1> HIDE DEF b
  <1>2. n - b \in Int
      BY <1>1
  <1> DEFINE a == n - b
  <1> HIDE DEF a
  <1>3. a % SeqSize \in 0 .. SeqSize - 1
      BY <1>2, ModOf, Sizes DEF a
  <1>4. Off(c, n) = a % SeqSize
      BY DEF Off, a, b
  <1> QED  BY <1>3, <1>4, Sizes

\* The number of the n-th byte, and the byte of a number.
LEMMA OffOfPlus ==
    ASSUME NEW c \in Roles, NEW x \in SeqNum, NEW n \in Int,
           Off(c, x) + n >= 0, Off(c, x) + n < SeqSize
    PROVE  Off(c, Plus(x, n)) = Off(c, x) + n
  <1> DEFINE b == Base(c)
             N == SeqSize
             y == (x + n) % N
  <1>1. b \in 0..N-1 /\ x \in 0..N-1 /\ N \in Nat /\ N > 0
      BY BaseType, Sizes DEF SeqNum
  <1>2. Off(c, x) = (x - b) % N /\ Off(c, Plus(x, n)) = (y - b) % N
      BY DEF Off, Plus
  <1> HIDE DEF b, N
  <1>3. (x - b) % N = IF x >= b THEN x - b ELSE x - b + N
      BY <1>1
  <1>4. x + n >= -N /\ x + n < 2 * N
      BY <1>1, <1>2, <1>3 DEF N
  <1>5. y = IF x + n < 0 THEN x + n + N ELSE IF x + n < N THEN x + n ELSE x + n - N
      BY <1>1, <1>4
  <1>6. y \in 0..N-1
      BY <1>1, <1>4, <1>5
  <1> HIDE DEF y
  <1>7. (y - b) % N = IF y >= b THEN y - b ELSE y - b + N
      BY <1>1, <1>6
  <1> QED  BY <1>1, <1>2, <1>3, <1>5, <1>6, <1>7 DEF N

LEMMA PlusOfOff ==
    ASSUME NEW c \in Roles, NEW x \in SeqNum
    PROVE  Plus(Base(c), Off(c, x)) = x
  <1> DEFINE b == Base(c)
             N == SeqSize
             o == Off(c, x)
  <1>1. b \in 0..N-1 /\ x \in 0..N-1 /\ N \in Nat /\ N > 0
      BY BaseType, Sizes DEF SeqNum
  <1>2. o = (x - b) % N
      BY DEF Off
  <1>a. Plus(Base(c), Off(c, x)) = (b + o) % N
      BY DEF Plus
  <1> HIDE DEF b, N, o
  <1>3. o = IF x >= b THEN x - b ELSE x - b + N
      BY <1>1, <1>2
  <1>4. b + o = IF x >= b THEN x ELSE x + N
      BY <1>1, <1>3
  <1>5. (b + o) % N = x
      BY <1>1, <1>4
  <1> QED  BY <1>5, <1>a

LEMMA OffOfBase ==
    ASSUME NEW c \in Roles
    PROVE  /\ Off(c, Base(c)) = 0 /\ Plus(Base(c), 0) = Base(c)
           /\ \A n \in 0 .. SeqSize - 1 : Off(c, Plus(Base(c), n)) = n
  <1> DEFINE b == Base(c)
  <1>1. b \in SeqNum /\ b \in Int
      BY BaseType DEF SeqNum
  <1>2. Off(c, b) = (b - b) % SeqSize
      BY DEF Off
  <1>b. b \in 0 .. SeqSize - 1
      BY <1>1 DEF SeqNum
  <1>c. Plus(b, 0) = (b + 0) % SeqSize
      BY DEF Plus
  <1> HIDE DEF b
  <1>3. b - b = 0 /\ 0 % SeqSize = 0 /\ b + 0 = b
      BY <1>1, Sizes
  <1>4. Off(c, b) = 0
      BY <1>2, <1>3
  <1>5. b % SeqSize = b
      BY <1>b, Sizes
  <1>6. ASSUME NEW n \in 0 .. SeqSize - 1
        PROVE  Off(c, Plus(b, n)) = n
    <2>1. Off(c, b) + n = n
        BY <1>4
    <2>2. Off(c, b) + n >= 0 /\ Off(c, b) + n < SeqSize /\ n \in Int
        BY <2>1, Sizes
    <2> QED  BY <1>1, <2>1, <2>2, OffOfPlus
  <1> QED  BY <1>3, <1>4, <1>5, <1>6, <1>c DEF b

\* Numbers less than half a turn from the base are ordered as the bytes are.
LEMMA DiffOfOffs ==
    ASSUME NEW c \in Roles, NEW x \in SeqNum, NEW y \in SeqNum,
           2 * Off(c, x) < SeqSize, 2 * Off(c, y) < SeqSize
    PROVE  Diff(x, y) = Off(c, x) - Off(c, y)
  <1> DEFINE b == Base(c)
             N == SeqSize
             d == (x - y) % N
  <1>1. b \in 0..N-1 /\ x \in 0..N-1 /\ y \in 0..N-1 /\ N \in Nat /\ N > 0
      BY BaseType, Sizes DEF SeqNum
  <1>2. Off(c, x) = (x - b) % N /\ Off(c, y) = (y - b) % N
      BY DEF Off
  <1>3. Diff(x, y) = IF 2 * d < N THEN d ELSE d - N
      BY DEF Diff
  <1>4. 2 * Off(c, x) < N /\ 2 * Off(c, y) < N
      OBVIOUS
  <1> HIDE DEF b, N
  <1>5. /\ (x - b) % N = IF x >= b THEN x - b ELSE x - b + N
        /\ (y - b) % N = IF y >= b THEN y - b ELSE y - b + N
      BY <1>1
  <1>6. d = IF x >= y THEN x - y ELSE x - y + N
      BY <1>1
  <1> HIDE DEF d
  <1> QED  BY <1>1, <1>2, <1>3, <1>4, <1>5, <1>6

-----------------------------------------------------------------------------
(* The invariant of one host                                               *)

Whole(c, t, s, g, I, u, v, k, J) ==
    /\ Half(c, t, s, g, I, u, v, k, J)
    /\ Half(Other(c), u, v, k, J, t, s, g, I)

LEMMA OtherFacts ==
    ASSUME NEW c \in Roles
    PROVE  /\ Other(c) \in Roles /\ Other(Other(c)) = c
           /\ c = "caller" <=> Other(c) = "listener"
           /\ c = "listener" <=> Other(c) = "caller"
  BY DEF Roles, Other

\* A segment that the host may send.
SendOk(c, t, s, u, k, x) ==
    /\ IsAck(x) => MayAck(t) /\ x.ack = t.rcvnext
    /\ x.data # <<>> =>
          /\ x.flags = {"ACK"} /\ Off(c, x.seq) + Len(x.data) <= s
          /\ IsAlive(u) => \A j \in 1..Len(x.data) : \/ x.data[j] = Off(c, x.seq) + j
                                                     \/ Off(c, x.seq) + j <= k
    /\ "SYN" \in x.flags => IF c = "caller" THEN x.seq = Iss
                                            ELSE "ACK" \in x.flags /\ "RST" \notin x.flags
    /\ "FIN" \in x.flags /\ "RST" \notin x.flags => ~IsTalking(t)
    /\ "RST" \notin x.flags => t.peer

LEMMA Sends ==
    ASSUME NEW c \in Roles, NEW t, NEW s, NEW g, NEW I, NEW u, NEW v, NEW k, NEW J,
           Whole(c, t, s, g, I, u, v, k, J),
           NEW N \in SUBSET Segments, \A x \in N : SendOk(c, t, s, u, k, x)
    PROVE  Whole(c, t, s, g, I, u, v, k, J \cup N)
  <1> DEFINE o == Other(c)
             K == J \cup N
  <1>1. Half(c, t, s, g, I, u, v, k, J) /\ Half(o, u, v, k, J, t, s, g, I)
      BY DEF Whole
  <1>2. /\ o \in Roles /\ Other(o) = c
        /\ c = "caller" <=> o = "listener"
        /\ c = "listener" <=> o = "caller"
      BY OtherFacts
  <1>k. \A y \in K : y \in J \/ y \in N
      OBVIOUS
  <1>q. K \subseteq Segments
      BY <1>1 DEF Half, Typed
  <1>w. Whole(c, t, s, g, I, u, v, k, K) <=>
            Half(c, t, s, g, I, u, v, k, K) /\ Half(o, u, v, k, K, t, s, g, I)
      BY DEF Whole
  <1> HIDE DEF o, K
  <1>3. Strange(c, t, I, u, K)
    <2>1. Strange(c, t, I, u, J)
        BY <1>1 DEF Half
    <2> QED  BY <2>1, <1>k DEF Strange, SendOk
  <1>4. Calling(c, t, I, u, v, K)
    <2>1. Calling(c, t, I, u, v, J)
        BY <1>1 DEF Half
    <2>2. IsFresh(t) \/ t.state = "SYN_SENT" => ~MayAck(t)
        BY DEF IsFresh, MayAck
    <2>3. IsFresh(t) => ~t.peer
        BY DEF IsFresh
    <2>4. ASSUME c = "caller", IsFresh(t)
          PROVE  /\ u.state \in {"CLOSED", "LISTEN", "FREE"} /\ ~u.peer
                 /\ \A y \in I \cup K : "RST" \in y.flags
        BY <2>1, <2>3, <2>4, <1>k DEF Calling, SendOk
    <2>5. ASSUME c = "caller", IsFresh(t) \/ t.state = "SYN_SENT"
          PROVE  ~IsOpen(u) /\ v = 0 /\ \A y \in K : ~IsAck(y)
        BY <2>1, <2>2, <2>5, <1>k DEF Calling, SendOk
    <2> QED  BY <2>4, <2>5 DEF Calling
  <1>5. Half(c, t, s, g, I, u, v, k, K)
      BY <1>1, <1>3, <1>4 DEF Half
  <1>6. Typed(u, v, k, K)
      BY <1>1, <1>q DEF Half, Typed
  <1>7. AcksFit(o, u, v, K, t, g)
      BY <1>1, <1>k DEF Half, AcksFit, SendOk
  <1>8. SameAcks(o, u, K, t)
      BY <1>1, <1>k DEF Half, SameAcks, SendOk
  <1>9. Fins(u, K, t)
      BY <1>1, <1>k DEF Half, Fins, SendOk
  <1>10. Datas(o, u, k, K, s)
    <2>1. Datas(o, u, k, J, s)
        BY <1>1 DEF Half
    <2> QED  BY <2>1, <1>2, <1>k DEF Datas, SendOk
  <1>11. Syns(o, K)
    <2>1. Syns(o, J)
        BY <1>1 DEF Half
    <2> QED  BY <2>1, <1>2, <1>k DEF Syns, SendOk, Roles
  <1>12. Strange(o, u, K, t, I)
    <2>1. Strange(o, u, J, t, I)
        BY <1>1 DEF Half
    <2>2. t.state \in {"CLOSED", "SYN_SENT", "FREE"} /\ (t.state = "CLOSED" => ~Behind(t)) => ~MayAck(t)
        BY DEF MayAck
    <2>3. \A x \in N : IsAck(x) => MayAck(t)
        BY DEF SendOk
    <2>4. \A x \in N : x.data # <<>> => IsAck(x)
        BY DEF SendOk, IsAck
    <2> QED  BY <2>1, <2>2, <2>3, <2>4, <1>k DEF Strange
  <1>13. Calling(o, u, K, t, s, I)
    <2>1. Calling(o, u, J, t, s, I)
        BY <1>1 DEF Half
    <2>2. \A y \in K \cup I : y \in J \cup I \/ y \in N
        BY <1>k
    <2>3. \A x \in N : "RST" \notin x.flags => t.peer
        BY DEF SendOk
    <2> QED  BY <2>1, <2>2, <2>3 DEF Calling
  <1>14. Half(o, u, v, k, K, t, s, g, I)
      BY <1>1, <1>6, <1>7, <1>8, <1>9, <1>10, <1>11, <1>12, <1>13 DEF Half
  <1> QED  BY <1>5, <1>14, <1>w DEF K

-----------------------------------------------------------------------------
(* What the peer may rely on when control block t becomes x.               *)

\* Nothing is acknowledged to u, or could be.
Unheard(u, J) == /\ ~IsOpen(u) /\ ~(u.state = "CLOSED" /\ u.peer /\ Behind(u))
                 /\ \A y \in J : ~IsAck(y)

\* The peer, whose role is o, may be told that x has all before x.rcvnext.
NewAck(o, u, v, J, x, gx) ==
    /\ u.state \in {"SYN_SENT", "ESTABLISHED"} => AckOk(o, x.rcvnext, v, x, gx)
    /\ o = "listener" /\ IsYoung(u) => \A y \in J : IsAck(y) => y.ack = x.rcvnext
RolesKept(c, t, x) ==
    /\ c = "caller" /\ t.state \in {"CLOSED", "SYN_SENT", "FREE"} /\ (t.state = "CLOSED" => ~Behind(t))
         => x.state \in {"CLOSED", "SYN_SENT", "FREE"} /\ (x.state = "CLOSED" => ~Behind(x))
    /\ c = "listener" /\ t.state \in {"CLOSED", "LISTEN", "FREE"} /\ ~t.peer
         => x.state \in {"CLOSED", "LISTEN", "FREE"} /\ ~x.peer

LEMMA PeerHalf ==
    ASSUME NEW c \in Roles, NEW t, NEW s, NEW g, NEW I, NEW u, NEW v, NEW k, NEW J,
           Typed(t, s, g, I),
           Half(Other(c), u, v, k, J, t, s, g, I),
           NEW x \in Tcbs, NEW sx \in Nat, NEW gx \in Nat,
           sx >= s,
           IsAlive(x) => (IsAlive(t) /\ gx >= g) \/ Unheard(u, J),
           IsTalking(x) => IsTalking(t),
           Receiving(Other(c), u, k, x, sx),
           MayAck(x) => NewAck(Other(c), u, v, J, x, gx),
           Other(c) = "listener" => RolesKept(c, t, x) \/ u.peer \/ u.state = "FREE",
           Other(c) = "caller" => RolesKept(c, t, x) \/ ~IsFresh(u),
           Other(c) = "caller" /\ (IsFresh(u) \/ u.state = "SYN_SENT") => ~IsOpen(x) /\ sx = 0
    PROVE  Half(Other(c), u, v, k, J, x, sx, gx, I)
  <1> DEFINE o == Other(c)
  <1>1. Half(o, u, v, k, J, t, s, g, I)
      OBVIOUS
  <1>2. /\ o \in Roles /\ Other(o) = c
        /\ c = "caller" <=> o = "listener"
        /\ c = "listener" <=> o = "caller"
      BY OtherFacts
  <1>3. s \in Nat /\ g \in Nat /\ v \in Nat /\ k \in Nat /\ J \subseteq Segments /\ u \in Tcbs
      BY <1>1 DEF Half, Typed
  <1>4. Half(o, u, v, k, J, x, sx, gx, I) <=> Half(Other(c), u, v, k, J, x, sx, gx, I)
      OBVIOUS
  <1>5. /\ Receiving(o, u, k, x, sx)
        /\ MayAck(x) => NewAck(o, u, v, J, x, gx)
        /\ o = "listener" => RolesKept(c, t, x) \/ u.peer \/ u.state = "FREE"
        /\ o = "caller" => RolesKept(c, t, x) \/ ~IsFresh(u)
        /\ o = "caller" /\ (IsFresh(u) \/ u.state = "SYN_SENT") => ~IsOpen(x) /\ sx = 0
      OBVIOUS
  <1> HIDE DEF o
  <1>t. Len(u.txbuf) \in Nat /\ v - Len(u.txbuf) \in Int
      BY <1>3, BufferFacts DEF Tcbs
  <1>6. Sending(o, u, v, x, gx)
    <2> DEFINE n == v - Len(u.txbuf)
    <2>1. Sending(o, u, v, t, g)
        BY <1>1 DEF Half
    <2>2. IsOpen(u) /\ IsAlive(x) => n <= gx
      <3>1. IsOpen(u) /\ IsAlive(t) => n <= g
          BY <2>1 DEF Sending
      <3>2. n \in Int
          BY <1>t
      <3>3. IsOpen(u) => ~Unheard(u, J)
          BY DEF Unheard
      <3> HIDE DEF n
      <3> QED  BY <3>1, <3>2, <3>3, <1>3
    <2> HIDE DEF n
    <2> QED  BY <2>1, <2>2 DEF Sending, n
  <1>o. \A n \in SeqNum : Off(o, n) \in Nat
      BY <1>2, OffType
  <1>u. u.sendunack \in SeqNum
      BY <1>3 DEF Tcbs
  <1>7. Flushing(o, u, v, x, gx)
    <2>1. Flushing(o, u, v, t, g)
        BY <1>1 DEF Half
    <2>2. u.state = "CLOSED" /\ u.sock /\ u.peer /\ Behind(u) => ~Unheard(u, J)
        BY DEF Unheard
    <2> QED  BY <2>1, <2>2, <1>3, <1>o, <1>u DEF Flushing
  <1>9. Stream(u, k, sx)
    <2>1. Stream(u, k, s)
        BY <1>1 DEF Half
    <2>2. k <= s /\ k <= sx
        BY <2>1, <1>3 DEF Stream
    <2> QED  BY <2>1, <2>2 DEF Stream
  <1>10. AcksFit(o, u, v, J, x, gx)
    <2>1. AcksFit(o, u, v, J, t, g)
        BY <1>1 DEF Half
    <2>2. \A y \in J : y.ack \in SeqNum
        BY <1>3 DEF Segments
    <2>4. ASSUME u.state \in {"SYN_SENT", "ESTABLISHED"}, NEW y \in J, IsAck(y)
          PROVE  AckOk(o, y.ack, v, x, gx)
      <3>1. ~Unheard(u, J)
          BY <2>4 DEF Unheard
      <3>2. AckOk(o, y.ack, v, t, g) /\ y.ack \in SeqNum
          BY <2>1, <2>2, <2>4 DEF AcksFit
      <3> QED  BY <3>1, <3>2, <1>o, <1>3 DEF AckOk
    <2>5. ASSUME u.state \in {"SYN_SENT", "ESTABLISHED"}, MayAck(x)
          PROVE  AckOk(o, x.rcvnext, v, x, gx)
        BY <1>5, <2>5 DEF NewAck
    <2> QED  BY <2>4, <2>5 DEF AcksFit
  <1>11. SameAcks(o, u, J, x)
      BY <1>1, <1>5 DEF Half, SameAcks, NewAck
  <1>12. Fins(u, J, x)
      BY <1>1 DEF Half, Fins
  <1>13. Datas(o, u, k, J, sx)
    <2>1. Datas(o, u, k, J, s)
        BY <1>1 DEF Half
    <2>2. ASSUME NEW y \in J
          PROVE  Off(Other(o), y.seq) + Len(y.data) \in Int
      <3>1. y.seq \in SeqNum /\ y.data \in Seq(Bytes)
          BY <1>3 DEF Segments, Loads
      <3>2. Len(y.data) \in Nat
          BY <3>1
      <3> QED  BY <1>2, <3>1, <3>2, OffType
    <2> QED  BY <2>1, <2>2, <1>3 DEF Datas
  <1>14. Strange(o, u, J, x, I)
    <2>1. Strange(o, u, J, t, I)
        BY <1>1 DEF Half
    <2> QED  BY <2>1, <1>2, <1>5 DEF Strange, RolesKept
  <1>15. Calling(o, u, J, x, sx, I)
    <2>1. Calling(o, u, J, t, s, I)
        BY <1>1 DEF Half
    <2>2. ASSUME o = "caller", IsFresh(u)
          PROVE  x.state \in {"CLOSED", "LISTEN", "FREE"} /\ ~x.peer
        BY <2>1, <2>2, <1>2, <1>5 DEF Calling, RolesKept
    <2> QED  BY <2>1, <2>2, <1>5 DEF Calling
  <1>16. Typed(u, v, k, J) /\ Resting(u) /\ Youth(o, u, v, k) /\ Timed(o, u) /\ Syns(o, J)
      BY <1>1 DEF Half
  <1> QED
      BY <1>4, <1>5, <1>6, <1>7, <1>9, <1>10, <1>11, <1>12, <1>13, <1>14, <1>15, <1>16 DEF Half

\* The common case: the peer learns nothing new.
Onward(c, t, s, g, x, sx, gx, u) ==
    /\ sx >= s
    /\ IsAlive(x) => IsAlive(t) /\ gx >= g
    /\ IsTalking(x) => IsTalking(t)
    /\ IsOpen(x) \/ sx > 0 => IsOpen(t) \/ s > 0
    /\ MayAck(x) => MayAck(t) /\ (x.rcvnext = t.rcvnext \/ ~IsTalking(u))
    /\ RolesKept(c, t, x)

LEMMA Onwards ==
    ASSUME NEW c \in Roles, NEW t, NEW s, NEW g, NEW I, NEW u, NEW v, NEW k, NEW J,
           Typed(t, s, g, I),
           Half(Other(c), u, v, k, J, t, s, g, I),
           NEW x \in Tcbs, NEW sx \in Nat, NEW gx \in Nat,
           Onward(c, t, s, g, x, sx, gx, u)
    PROVE  Half(Other(c), u, v, k, J, x, sx, gx, I)
  <1> DEFINE o == Other(c)
  <1>1. Half(o, u, v, k, J, t, s, g, I)
      OBVIOUS
  <1>2. /\ o \in Roles /\ Other(o) = c
        /\ c = "caller" <=> o = "listener"
        /\ c = "listener" <=> o = "caller"
      BY OtherFacts
  <1>3. s \in Nat /\ g \in Nat /\ v \in Nat /\ k \in Nat /\ J \subseteq Segments /\ u \in Tcbs
      BY <1>1 DEF Half, Typed
  <1> HIDE DEF o
  <1>5. sx >= s /\ (IsAlive(x) => IsAlive(t) /\ gx >= g) /\ (IsTalking(x) => IsTalking(t))
        /\ RolesKept(c, t, x)
      BY DEF Onward
  <1>8. Receiving(o, u, k, x, sx)
    <2>1. Receiving(o, u, k, t, s)
        BY <1>1 DEF Half
    <2>2. IsOpen(x) \/ sx > 0 => IsOpen(t) \/ s > 0
        BY DEF Onward
    <2> QED  BY <2>1, <2>2, <1>2 DEF Receiving
  <1>9. ASSUME MayAck(x)
        PROVE  NewAck(o, u, v, J, x, gx)
    <2>1. MayAck(t) /\ (x.rcvnext = t.rcvnext \/ ~IsTalking(u))
        BY <1>9 DEF Onward
    <2>2. u.state \in {"SYN_SENT", "ESTABLISHED"} \/ IsYoung(u) => IsTalking(u)
        BY DEF IsTalking, IsYoung, CONNINPROGRESS
    <2>3. AcksFit(o, u, v, J, t, g) /\ SameAcks(o, u, J, t)
        BY <1>1 DEF Half
    <2>4. ASSUME u.state \in {"SYN_SENT", "ESTABLISHED"}
          PROVE  AckOk(o, x.rcvnext, v, x, gx)
      <3>1. x.rcvnext = t.rcvnext
          BY <2>1, <2>2, <2>4
      <3>2. t.rcvnext \in SeqNum
          BY DEF Typed, Tcbs
      <3>3. Off(o, t.rcvnext) \in Nat
          BY <3>2, <1>2, OffType
      <3>4. AckOk(o, t.rcvnext, v, t, g)
          BY <2>1, <2>3, <2>4 DEF AcksFit
      <3> QED  BY <3>1, <3>3, <3>4, <1>3, <1>5 DEF AckOk
    <2>5. o = "listener" /\ IsYoung(u) => \A y \in J : IsAck(y) => y.ack = x.rcvnext
        BY <2>1, <2>2, <2>3 DEF SameAcks
    <2> QED  BY <2>4, <2>5 DEF NewAck
  <1>10. o = "caller" /\ (IsFresh(u) \/ u.state = "SYN_SENT") => ~IsOpen(x) /\ sx = 0
    <2>1. Calling(o, u, J, t, s, I)
        BY <1>1 DEF Half
    <2> SUFFICES ASSUME o = "caller", IsFresh(u) \/ u.state = "SYN_SENT"
                 PROVE  ~IsOpen(x) /\ sx = 0
        OBVIOUS
    <2>2. ~IsOpen(t) /\ s = 0
        BY <2>1 DEF Calling
    <2>3. ~(IsOpen(x) \/ sx > 0)
        BY <2>2 DEF Onward
    <2> QED  BY <2>3
  <1> QED
    <2>1. /\ Receiving(Other(c), u, k, x, sx)
          /\ MayAck(x) => NewAck(Other(c), u, v, J, x, gx)
          /\ Other(c) = "caller" /\ (IsFresh(u) \/ u.state = "SYN_SENT") => ~IsOpen(x) /\ sx = 0
        BY <1>8, <1>9, <1>10 DEF o
    <2> QED  BY <1>5, <2>1, PeerHalf

LEMMA DiffSmall ==
    ASSUME NEW x \in SeqNum
    PROVE  /\ Diff(x, x) = 0
           /\ Diff(Plus(x, 1), x) = 1
           /\ 2 * x < SeqSize => Diff(x, 0) = x
  <1> DEFINE N == SeqSize
  <1>0. N \in Nat /\ N > 4 /\ SeqNum = 0 .. N - 1
      BY Sizes DEF SeqNum
  <1>d. \A a, b : Diff(a, b) = IF 2 * ((a - b) % N) < N THEN (a - b) % N ELSE ((a - b) % N) - N
      BY DEF Diff
  <1>p. \A a : Plus(a, 1) = (a + 1) % N
      BY DEF Plus
  <1> HIDE DEF N
  <1>1. Diff(x, x) = 0
    <2>1. x - x = 0 /\ 0 % N = 0
        BY <1>0
    <2> QED  BY <1>0, <1>d, <2>1
  <1>2. Diff(Plus(x, 1), x) = 1
    <2> DEFINE y == (x + 1) % N
    <2>1. y = IF x + 1 < N THEN x + 1 ELSE 0
        BY <1>0
    <2>a. Diff(Plus(x, 1), x) = IF 2 * ((y - x) % N) < N THEN (y - x) % N ELSE ((y - x) % N) - N
        BY <1>d, <1>p
    <2> HIDE DEF y
    <2>2. y \in 0 .. N - 1
        BY <1>0, <2>1
    <2>3. (y - x) % N = 1
        BY <1>0, <2>1, <2>2
    <2> QED  BY <1>0, <2>3, <2>a
  <1>3. ASSUME 2 * x < SeqSize PROVE Diff(x, 0) = x
    <2>1. x - 0 = x /\ x % N = x /\ 2 * x < N
        BY <1>0, <1>3 DEF N
    <2> QED  BY <1>0, <1>d, <2>1
  <1> QED  BY <1>1, <1>2, <1>3

LEMMA YoungAreNotBehind ==
    ASSUME NEW c \in Roles, NEW t \in Tcbs, NEW s, NEW g, Youth(c, t, s, g), t.state \in CONNINPROGRESS
    PROVE  ~Behind(t)
  <1>1. t.sendnext \in SeqNum /\ t.sendunack \in SeqNum
      BY DEF Tcbs
  <1>2. CASE t.state = "SYN_SENT"
    <2>1. t.sendunack = Iss /\ (t.sendnext = Iss \/ t.sendnext = Plus(Iss, 1))
        BY <1>2 DEF Youth
    <2>2. Diff(t.sendnext, t.sendunack) = 0 \/ Diff(t.sendnext, t.sendunack) = 1
        BY <1>1, <2>1, DiffSmall
    <2> QED  BY <2>2 DEF Behind
  <1>3. CASE t.state \in {"LISTEN", "SYN_RECEIVED"}
    <2>1. t.sendunack = 0 /\ 2 * t.sendnext < SeqSize
        BY <1>3 DEF Youth
    <2>2. Diff(t.sendnext, t.sendunack) = t.sendnext
        BY <1>1, <2>1, DiffSmall
    <2> DEFINE n == t.sendnext
    <2>3. n \in Int /\ n >= 0
        BY <1>1, Sizes DEF SeqNum
    <2>4. Diff(t.sendnext, t.sendunack) = n
        BY <2>2
    <2> HIDE DEF n
    <2>5. ~(n < 0)
        BY <2>3
    <2> QED  BY <2>4, <2>5 DEF Behind
  <1> QED  BY <1>2, <1>3 DEF CONNINPROGRESS

\* The parts of the invariant.
LEMMA Parts ==
    ASSUME NEW c \in Roles, NEW t, NEW s, NEW g, NEW I, NEW u, NEW v, NEW k, NEW J,
           Whole(c, t, s, g, I, u, v, k, J)
    PROVE  /\ Half(c, t, s, g, I, u, v, k, J)
           /\ Half(Other(c), u, v, k, J, t, s, g, I)
           /\ Typed(t, s, g, I) /\ Typed(u, v, k, J)
           /\ t \in Tcbs /\ s \in Nat /\ 2 * s < SeqSize /\ g \in Nat /\ I \subseteq Segments
           /\ u \in Tcbs /\ v \in Nat /\ 2 * v < SeqSize /\ k \in Nat /\ J \subseteq Segments
           /\ Resting(t) /\ Youth(c, t, s, g)
           /\ Sending(c, t, s, u, k) /\ Timed(c, t) /\ Flushing(c, t, s, u, k)
           /\ Receiving(c, t, g, u, v) /\ Stream(t, g, v)
           /\ AcksFit(c, t, s, I, u, k) /\ SameAcks(c, t, I, u)
           /\ Fins(t, I, u) /\ Datas(c, t, g, I, v) /\ Syns(c, I)
           /\ Strange(c, t, I, u, J) /\ Calling(c, t, I, u, v, J)
  BY DEF Whole, Half, Typed

-----------------------------------------------------------------------------
(* The kinds of change that a call makes to its control block              *)

\* What the peer can see of a control block, but for its segments.
Outer(t, x) == x.state = t.state /\ x.sock = t.sock /\ x.peer = t.peer /\ x.rcvnext = t.rcvnext

\* Timers, flags, buffers and the numbers of what is sent.
LEMMA Adjusts ==
    ASSUME NEW c \in Roles, NEW t, NEW s, NEW g, NEW I, NEW u, NEW v, NEW k, NEW J,
           Whole(c, t, s, g, I, u, v, k, J),
           NEW sx \in Nat, sx >= s, 2 * sx < SeqSize, sx > s => IsOpen(t),
           NEW x \in Tcbs, Outer(t, x), Resting(x), Youth(c, x, sx, g), Stream(x, g, v),
           Sending(c, x, sx, u, k), Timed(c, x), Flushing(c, x, sx, u, k),
           x.state = "CLOSED" /\ Behind(x) => Behind(t),
           x.state = "LISTEN" => x.sendnext = t.sendnext
    PROVE  Whole(c, x, sx, g, I, u, v, k, J)
  <1>1. /\ Half(c, t, s, g, I, u, v, k, J)
        /\ Half(Other(c), u, v, k, J, t, s, g, I)
        /\ s \in Nat /\ g \in Nat /\ k \in Nat /\ Typed(t, s, g, I) /\ u \in Tcbs /\ I \subseteq Segments
      BY Parts
  <1>2. /\ x.state = t.state /\ x.sock = t.sock /\ x.peer = t.peer
        /\ x.rcvnext = t.rcvnext
      BY DEF Outer
  <1>a. /\ IsAlive(x) <=> IsAlive(t)
        /\ IsFresh(x) <=> IsFresh(t)
        /\ IsYoung(x) <=> IsYoung(t)
        /\ IsTalking(x) <=> IsTalking(t)
        /\ IsOpen(x) <=> IsOpen(t)
        /\ IsTaking(x) <=> IsTaking(t)
      BY <1>2 DEF IsAlive, IsFresh, IsYoung, IsTalking, IsOpen, IsTaking
  <1>3. Onward(c, t, s, g, x, sx, g, u)
      BY <1>1, <1>2, <1>a DEF Onward, RolesKept, MayAck
  <1>4. Half(Other(c), u, v, k, J, x, sx, g, I)
      BY <1>1, <1>3, Onwards
  <1>5. Half(c, x, sx, g, I, u, v, k, J)
    <2>1. Typed(x, sx, g, I)
        BY <1>1 DEF Typed
    <2>2. Receiving(c, x, g, u, v)
        BY <1>1, <1>2, <1>a DEF Half, Receiving
    <2>a. AcksFit(c, x, sx, I, u, k)
      <3>1. AcksFit(c, t, s, I, u, k)
          BY <1>1 DEF Half
      <3>2. \A n \in SeqNum : Off(c, n) \in Nat
          BY OffType
      <3>3. u.rcvnext \in SeqNum /\ \A y \in I : y.ack \in SeqNum
          BY <1>1 DEF Tcbs, Segments
      <3>4. \A n \in SeqNum : AckOk(c, n, s, u, k) => AckOk(c, n, sx, u, k)
          BY <1>1, <3>2 DEF AckOk
      <3> QED  BY <1>2, <3>1, <3>3, <3>4 DEF AcksFit
    <2>3. SameAcks(c, x, I, u) /\ Fins(x, I, u)
        BY <1>1, <1>2, <1>a DEF Half, SameAcks, Fins
    <2>4. Datas(c, x, g, I, v) /\ Syns(c, I)
        BY <1>1, <1>2, <1>a DEF Half, Datas
    <2>5. Strange(c, x, I, u, J)
        BY <1>1, <1>2, <1>a DEF Half, Strange
    <2>6. Calling(c, x, I, u, v, J)
        BY <1>1, <1>2, <1>a DEF Half, Calling
    <2> QED  BY <2>1, <2>2, <2>a, <2>3, <2>4, <2>5, <2>6 DEF Half
  <1> QED  BY <1>4, <1>5 DEF Whole

\* Timers and flags only.
LEMMA Retags ==
    ASSUME NEW c \in Roles, NEW t, NEW s, NEW g, NEW I, NEW u, NEW v, NEW k, NEW J,
           Whole(c, t, s, g, I, u, v, k, J),
           NEW x \in Tcbs, Kept(t, x), x.sendnext = t.sendnext, Resting(x),
           x.state = "ESTABLISHED" /\ t.retx => x.retx
    PROVE  Whole(c, x, s, g, I, u, v, k, J)
  <1>1. /\ Youth(c, t, s, g) /\ Sending(c, t, s, u, k) /\ Timed(c, t) /\ Flushing(c, t, s, u, k)
      BY Parts
  <1>2. /\ x.state = t.state /\ x.sock = t.sock /\ x.peer = t.peer
        /\ x.rcvnext = t.rcvnext /\ x.rxbuf = t.rxbuf /\ x.txbuf = t.txbuf
        /\ x.sendunack = t.sendunack /\ x.sendnext = t.sendnext
      BY DEF Kept
  <1>a. /\ IsYoung(x) <=> IsYoung(t)
        /\ IsOpen(x) <=> IsOpen(t)
        /\ Behind(x) <=> Behind(t)
      BY <1>2 DEF IsFresh, IsYoung, IsOpen, Behind
  <1>3. Youth(c, x, s, g)
      BY <1>1, <1>2, <1>a DEF Youth
  <1>4. Sending(c, x, s, u, k)
      BY <1>1, <1>2, <1>a DEF Sending
  <1>5. Timed(c, x)
      BY <1>1, <1>2 DEF Timed
  <1>6. Flushing(c, x, s, u, k)
      BY <1>1, <1>2, <1>a DEF Flushing
  <1>7. Stream(x, g, v) /\ Outer(t, x) /\ s \in Nat /\ s >= s /\ 2 * s < SeqSize /\ ~(s > s)
    <2>1. Stream(t, g, v) /\ s \in Nat /\ 2 * s < SeqSize
        BY Parts
    <2> QED  BY <2>1, <1>2 DEF Stream, Outer
  <1> QED  BY <1>2, <1>3, <1>4, <1>5, <1>6, <1>7, <1>a, Adjusts

\* A segment with RST, an abort or the end of a connection: the block is closed.
LEMMA Closes ==
    ASSUME NEW c \in Roles, NEW t, NEW s, NEW g, NEW I, NEW u, NEW v, NEW k, NEW J,
           Whole(c, t, s, g, I, u, v, k, J), t.state # "FREE",
           NEW x \in Tcbs, x.state = "CLOSED", x.flags = {}, x.txbuf = <<>>, x.rxbuf = <<>>,
           x.sock = t.sock, x.peer = t.peer, x.sendunack = t.sendunack,
           x.sendnext = t.sendnext, x.rcvnext = t.rcvnext,
           NEW gx \in Nat, gx <= g
    PROVE  Whole(c, x, s, gx, I, u, v, k, J)
  <1>1. /\ Half(c, t, s, g, I, u, v, k, J)
        /\ Half(Other(c), u, v, k, J, t, s, g, I)
        /\ s \in Nat /\ g \in Nat /\ Typed(t, s, g, I) /\ Youth(c, t, s, g) /\ v \in Nat
        /\ t \in Tcbs /\ Resting(t)
      BY Parts
  <1>b. Behind(x) <=> Behind(t)
      BY DEF Behind
  <1>y. t.state \in CONNINPROGRESS => ~Behind(t)
      BY <1>1, YoungAreNotBehind
  <1>a. ~IsAlive(x) /\ ~IsOpen(x) /\ ~IsTaking(x)
      BY DEF IsAlive, IsOpen, SEND_OK, IsTaking
  <1>c. t.state \in States
      BY <1>1 DEF Tcbs
  <1>f. IsFresh(x) => IsFresh(t) \/ (t.state = "LISTEN" /\ c = "listener")
      BY <1>1, <1>c DEF IsFresh, Resting, Youth, States, CONNINPROGRESS, RESETKEEPALIVE,
         SEND_OK, CLOSINGSTATES
  <1>g. IsYoung(x) <=> IsFresh(x)
      BY DEF IsYoung, CONNINPROGRESS
  <1>h. IsFresh(x) => IsYoung(t) /\ s = 0 /\ gx = 0
      BY <1>1, <1>f DEF IsYoung, IsFresh, CONNINPROGRESS, Youth
  <1>m. MayAck(x) => MayAck(t)
      BY <1>y, <1>b, <1>1, <1>c DEF MayAck, CONNINPROGRESS
  <1>r. RolesKept(c, t, x)
      BY <1>y, <1>b DEF RolesKept, CONNINPROGRESS
  <1>3. Onward(c, t, s, g, x, s, gx, u)
      BY <1>1, <1>a, <1>g, <1>h, <1>m, <1>r DEF Onward, IsTalking
  <1>4. Half(Other(c), u, v, k, J, x, s, gx, I)
      BY <1>1, <1>3, Onwards
  <1>5. Half(c, x, s, gx, I, u, v, k, J)
    <2>1. Typed(x, s, gx, I)
        BY <1>1 DEF Typed
    <2>2. Receiving(c, x, gx, u, v) /\ Sending(c, x, s, u, k) /\ AcksFit(c, x, s, I, u, k) /\ Timed(c, x)
        BY <1>a DEF Receiving, Sending, AcksFit, Timed
    <2>3. Stream(x, gx, v)
      <3>1. gx <= v
          BY <1>1 DEF Half, Stream
      <3>2. Len(x.rxbuf) = 0
          BY NoBytes
      <3> QED  BY <3>1, <3>2 DEF Stream
    <2>4. Resting(x) /\ Youth(c, x, s, gx)
        BY <1>1, <1>a, <1>g, <1>h DEF Resting, Youth, CLOSINGSTATES, CONNINPROGRESS
    <2>5. Flushing(c, x, s, u, k)
      <3> SUFFICES ASSUME t.sock, t.peer, Behind(t)
                   PROVE  /\ Off(c, t.sendnext) <= s /\ Off(c, t.sendunack) <= s
                          /\ IsAlive(u) => Off(c, t.sendunack) <= k
          BY <1>b DEF Flushing
      <3>1. t.state = "CLOSED" \/ IsOpen(t)
          BY <1>y, <1>c, <1>1 DEF Resting, States, RESETKEEPALIVE, IsOpen
      <3>2. CASE t.state = "CLOSED"
        <4>1. Flushing(c, t, s, u, k)
            BY Parts
        <4> QED  BY <4>1, <3>2 DEF Flushing
      <3>3. CASE IsOpen(t)
        <4>1. Sending(c, t, s, u, k)
            BY Parts
        <4>2. Len(t.txbuf) \in Nat
            BY <1>1, BufferFacts DEF Tcbs
        <4>3. /\ Off(c, t.sendunack) = s - Len(t.txbuf)
              /\ Off(c, t.sendnext) <= s
              /\ IsAlive(u) => s - Len(t.txbuf) <= k
            BY <3>3, <4>1 DEF Sending
        <4> QED  BY <1>1, <4>2, <4>3
      <3> QED  BY <3>1, <3>2, <3>3
    <2>6. SameAcks(c, x, I, u)
        BY <1>1, <1>g, <1>h DEF Half, SameAcks
    <2>7. Fins(x, I, u)
        BY <1>1 DEF Half, Fins
    <2>8. Datas(c, x, gx, I, v) /\ Syns(c, I)
        BY <1>1, <1>a DEF Half, Datas
    <2>9. Strange(c, x, I, u, J)
        BY <1>1 DEF Half, Strange
    <2>10. Calling(c, x, I, u, v, J)
        BY <1>1, <1>f DEF Half, Calling
    <2> QED  BY <2>1, <2>2, <2>3, <2>4, <2>5, <2>6, <2>7, <2>8, <2>9, <2>10 DEF Half
  <1> QED  BY <1>4, <1>5 DEF Whole

\* The control block is given back.
LEMMA Frees ==
    ASSUME NEW c \in Roles, NEW t, NEW s, NEW g, NEW I, NEW u, NEW v, NEW k, NEW J,
           Whole(c, t, s, g, I, u, v, k, J),
           NEW x \in Tcbs, x.state = "FREE", x.flags = {}, x.txbuf = <<>>, x.rxbuf = <<>>,
           x.sock = FALSE, x.peer = FALSE, NEW gx \in Nat, gx <= g
    PROVE  Whole(c, x, s, gx, I, u, v, k, J)
  <1>1. /\ Half(c, t, s, g, I, u, v, k, J)
        /\ Half(Other(c), u, v, k, J, t, s, g, I)
        /\ s \in Nat /\ g \in Nat /\ Typed(t, s, g, I) /\ v \in Nat
      BY Parts
  <1>a. ~IsAlive(x) /\ ~IsOpen(x) /\ ~IsTaking(x) /\ ~IsFresh(x) /\ ~IsYoung(x)
        /\ ~IsTalking(x) /\ ~MayAck(x)
      BY DEF IsAlive, IsOpen, SEND_OK, IsTaking, IsFresh, IsYoung, IsTalking, CONNINPROGRESS, MayAck
  <1>3. Onward(c, t, s, g, x, s, gx, u)
      BY <1>1, <1>a DEF Onward, RolesKept
  <1>4. Half(Other(c), u, v, k, J, x, s, gx, I)
      BY <1>1, <1>3, Onwards
  <1>5. Half(c, x, s, gx, I, u, v, k, J)
    <2>1. Typed(x, s, gx, I)
        BY <1>1 DEF Typed
    <2>2. Receiving(c, x, gx, u, v) /\ Sending(c, x, s, u, k) /\ AcksFit(c, x, s, I, u, k) /\ Timed(c, x)
        BY <1>a DEF Receiving, Sending, AcksFit, Timed
    <2>3. Stream(x, gx, v)
      <3>1. gx <= v
          BY <1>1 DEF Half, Stream
      <3>2. Len(x.rxbuf) = 0
          BY NoBytes
      <3> QED  BY <3>1, <3>2 DEF Stream
    <2>4. Resting(x) /\ Youth(c, x, s, gx)
        BY <1>a DEF Resting, Youth, CLOSINGSTATES, CONNINPROGRESS
    <2>5. Flushing(c, x, s, u, k) /\ SameAcks(c, x, I, u)
        BY <1>a DEF Flushing, SameAcks
    <2>7. Fins(x, I, u)
        BY <1>1 DEF Half, Fins
    <2>8. Datas(c, x, gx, I, v) /\ Syns(c, I)
        BY <1>1, <1>a DEF Half, Datas
    <2>9. Strange(c, x, I, u, J) /\ Calling(c, x, I, u, v, J)
        BY <1>a DEF Strange, Calling
    <2> QED  BY <2>1, <2>2, <2>3, <2>4, <2>5, <2>7, <2>8, <2>9 DEF Half
  <1> QED  BY <1>4, <1>5 DEF Whole

\* The stream of this host or of its peer ends: from here on the numbers of what is
\* sent no longer matter, nor, once the peer has ended, that of what is received.
LEMMA Moves ==
    ASSUME NEW c \in Roles, NEW t, NEW s, NEW g, NEW I, NEW u, NEW v, NEW k, NEW J,
           Whole(c, t, s, g, I, u, v, k, J),
           t.state \in {"SYN_RECEIVED", "ESTABLISHED", "CLOSE_WAIT", "TIME_WAIT"} \cup CLOSINGSTATES,
           NEW x \in Tcbs, Resting(x), x.rxbuf = t.rxbuf,
           x.state \in {"CLOSE_WAIT", "TIME_WAIT"} \cup CLOSINGSTATES,
           x.state = "CLOSE_WAIT" => /\ IsOpen(t) /\ x.sendunack = t.sendunack
                                     /\ x.sendnext = t.sendnext /\ x.txbuf = t.txbuf,
           IsTaking(x) => x.rcvnext = t.rcvnext /\ (IsTaking(t) \/ t.state = "SYN_RECEIVED"),
           x.rcvnext = t.rcvnext \/ ~IsTalking(u),
           IsTaking(x) \/ ~IsTalking(u)
    PROVE  Whole(c, x, s, g, I, u, v, k, J)
  <1>1. /\ Half(c, t, s, g, I, u, v, k, J)
        /\ Half(Other(c), u, v, k, J, t, s, g, I)
        /\ s \in Nat /\ g \in Nat /\ Typed(t, s, g, I) /\ v \in Nat /\ Youth(c, t, s, g)
      BY Parts
  <1>a. /\ IsAlive(x) /\ IsAlive(t) /\ ~IsFresh(x) /\ ~IsYoung(x) /\ ~IsTalking(x) /\ MayAck(t)
        /\ IsOpen(x) <=> x.state = "CLOSE_WAIT"
      BY DEF IsAlive, IsOpen, SEND_OK, IsFresh, IsYoung, IsTalking, CONNINPROGRESS, MayAck, CLOSINGSTATES
  <1>b. /\ x.state \notin {"CLOSED", "SYN_SENT", "ESTABLISHED", "LISTEN", "FREE", "SYN_RECEIVED"}
        /\ t.state \notin {"CLOSED", "SYN_SENT", "LISTEN", "FREE"}
      BY DEF CLOSINGSTATES
  <1>p. x.peer
      BY <1>b DEF Resting
  <1>3. Onward(c, t, s, g, x, s, g, u)
      BY <1>1, <1>a, <1>b DEF Onward, RolesKept
  <1>4. Half(Other(c), u, v, k, J, x, s, g, I)
      BY <1>1, <1>3, Onwards
  <1>5. Half(c, x, s, g, I, u, v, k, J)
    <2>1. Typed(x, s, g, I)
        BY <1>1 DEF Typed
    <2>2. Sending(c, x, s, u, k)
        BY <1>1, <1>a DEF Half, Sending
    <2>3. AcksFit(c, x, s, I, u, k) /\ Timed(c, x) /\ Flushing(c, x, s, u, k)
        BY <1>b DEF AcksFit, Timed, Flushing
    <2>4. Receiving(c, x, g, u, v)
      <3> SUFFICES ASSUME IsTaking(x), c = "listener" \/ IsOpen(u) \/ v > 0
                   PROVE  x.rcvnext = Plus(Base(Other(c)), g)
          BY DEF Receiving
      <3>1. CASE IsTaking(t)
          BY <1>1, <3>1 DEF Half, Receiving
      <3>2. CASE t.state = "SYN_RECEIVED"
        <4>1. c = "listener" /\ t.rcvnext = Base("caller") /\ g = 0
            BY <1>1, <3>2 DEF Youth, IsYoung, CONNINPROGRESS
        <4>2. Other(c) = "caller" /\ Other(c) \in Roles
            BY <4>1 DEF Other, Roles
        <4>3. Plus(Base(Other(c)), 0) = Base(Other(c))
            BY <4>2, OffOfBase
        <4> QED  BY <4>1, <4>2, <4>3
      <3> QED  BY <3>1, <3>2
    <2>5. Stream(x, g, v)
        BY <1>1 DEF Half, Stream
    <2>6. Youth(c, x, s, g) /\ SameAcks(c, x, I, u)
        BY <1>a, <1>b DEF Youth, SameAcks
    <2>7. Fins(x, I, u)
      <3>1. IsTaking(x) => x.state \notin {"CLOSE_WAIT", "CLOSING", "LAST_ACK", "TIME_WAIT"}
          BY DEF IsTaking
      <3> QED  BY <1>1, <3>1 DEF Half, Fins
    <2>8. Datas(c, x, g, I, v) /\ Syns(c, I)
        BY <1>1, <1>a DEF Half, Datas
    <2>9. Strange(c, x, I, u, J) /\ Calling(c, x, I, u, v, J)
        BY <1>a, <1>b, <1>p DEF Strange, Calling
    <2> QED  BY <2>1, <2>2, <2>3, <2>4, <2>5, <2>6, <2>7, <2>8, <2>9 DEF Half
  <1> QED  BY <1>4, <1>5 DEF Whole

-----------------------------------------------------------------------------
(* An ack in range *)

LEMMA AckAmount ==
    ASSUME NEW c \in Roles, NEW t, NEW s, NEW g, NEW I, NEW u, NEW v, NEW k, NEW J,
           Whole(c, t, s, g, I, u, v, k, J),
           t.state = "ESTABLISHED", NEW y \in I, IsAck(y), AckInRange(t, y)
    PROVE  /\ Diff(y.ack, t.sendunack) \in 0 .. Len(t.txbuf)
           /\ Off(c, y.ack) = s - Len(t.txbuf) + Diff(y.ack, t.sendunack)
           /\ IsAlive(u) => Off(c, y.ack) <= k
           /\ Off(c, t.sendunack) = s - Len(t.txbuf) /\ Len(t.txbuf) \in Nat /\ s >= Len(t.txbuf)
  <1>1. /\ t \in Tcbs /\ s \in Nat /\ 2 * s < SeqSize /\ I \subseteq Segments
        /\ Sending(c, t, s, u, k) /\ AcksFit(c, t, s, I, u, k)
      BY Parts
  <1>2. y.ack \in SeqNum /\ t.sendunack \in SeqNum
      BY <1>1 DEF Segments, Tcbs
  <1>3. Len(t.txbuf) \in Nat
      BY <1>1, BufferFacts DEF Tcbs
  <1>4. Off(c, y.ack) <= s /\ (IsAlive(u) => Off(c, y.ack) <= k)
      BY <1>1 DEF AcksFit, AckOk
  <1>5. s >= Len(t.txbuf) /\ Off(c, t.sendunack) = s - Len(t.txbuf)
      BY <1>1 DEF Sending, IsOpen, SEND_OK
  <1>6. Off(c, y.ack) \in Nat /\ Off(c, t.sendunack) \in Nat
      BY <1>2, OffType
  <1> DEFINE a == Off(c, y.ack)  b == Off(c, t.sendunack)  n == Len(t.txbuf)
  <1>7. a \in Nat /\ b \in Nat /\ n \in Nat /\ a <= s /\ b = s - n /\ s >= n
      BY <1>3, <1>4, <1>5, <1>6
  <1>8. 2 * a < SeqSize /\ 2 * b < SeqSize
    <2> HIDE DEF a, b, n
    <2> QED  BY <1>1, <1>7, Sizes
  <1>9. Diff(y.ack, t.sendunack) = a - b /\ Diff(t.sendunack, y.ack) = b - a
      BY <1>2, <1>8, DiffOfOffs
  <1>10. Diff(t.sendunack, y.ack) <= 0
      BY DEF AckInRange
  <1> HIDE DEF a, b, n
  <1>11. a - b \in 0..n /\ a = s - n + (a - b)
      BY <1>1, <1>7, <1>9, <1>10
  <1> QED  BY <1>3, <1>4, <1>5, <1>9, <1>11 DEF a, b, n

\* What _tcp_procack does with an ack in range.
LEMMA Acked ==
    ASSUME NEW c \in Roles, NEW t, NEW s, NEW g, NEW I, NEW u, NEW v, NEW k, NEW J,
           Whole(c, t, s, g, I, u, v, k, J),
           t.state = "ESTABLISHED", NEW y \in I, IsAck(y), AckInRange(t, y),
           NEW x \in Tcbs, Outer(t, x), Resting(x), x.rxbuf = t.rxbuf,
           x.sendunack = y.ack, x.sendnext = t.sendnext,
           x.txbuf = SubSeq(t.txbuf, Diff(y.ack, t.sendunack) + 1, Len(t.txbuf)),
           x.txbuf # <<>> => x.retx = t.retx
    PROVE  Whole(c, x, s, g, I, u, v, k, J)
  <1> DEFINE n == Diff(y.ack, t.sendunack)
             l == Len(t.txbuf)
  <1>1. /\ t \in Tcbs /\ s \in Nat /\ 2 * s < SeqSize
        /\ Sending(c, t, s, u, k) /\ Timed(c, t) /\ Stream(t, g, v)
      BY Parts
  <1>2. /\ n \in 0 .. l /\ Off(c, y.ack) = s - l + n
        /\ IsAlive(u) => Off(c, y.ack) <= k
        /\ Off(c, t.sendunack) = s - l /\ l \in Nat /\ s >= l
      BY AckAmount
  <1>3. /\ Len(x.txbuf) = l - n
        /\ \A j \in 1 .. l - n : x.txbuf[j] = t.txbuf[n + j]
    <2>1. t.txbuf \in Buffers
        BY <1>1 DEF Tcbs
    <2> HIDE DEF n
    <2>2. n \in 0 .. Len(t.txbuf)
        BY <1>2
    <2> QED  BY <2>1, <2>2, DropFront DEF n
  <1>4. x.state = "ESTABLISHED" /\ IsOpen(x) /\ IsOpen(t) /\ ~IsYoung(x)
      BY DEF Outer, IsOpen, SEND_OK, IsYoung, IsFresh, CONNINPROGRESS
  <1>5. /\ Off(c, t.sendnext) <= s
        /\ \A j \in 1..l : t.txbuf[j] = s - l + j
      BY <1>1, <1>4 DEF Sending
  <1>a. \A j \in 1 .. l - n : n + j \in 1 .. l /\ s - l + (n + j) = s - (l - n) + j
    <2> HIDE DEF n, l
    <2> QED  BY <1>1, <1>2
  <1>b. s - (l - n) = s - l + n /\ s >= l - n
    <2> HIDE DEF n, l
    <2> QED  BY <1>1, <1>2
  <1>6. Sending(c, x, s, u, k)
    <2>1. \A j \in 1 .. l - n : x.txbuf[j] = s - (l - n) + j
        BY <1>3, <1>5, <1>a
    <2> HIDE DEF n, l
    <2> QED  BY <1>2, <1>3, <1>5, <1>b, <2>1 DEF Sending
  <1>7. Timed(c, x)
    <2> SUFFICES ASSUME Off(c, t.sendnext) > Off(c, y.ack)
                 PROVE  x.retx
        BY DEF Timed
    <2>0. Off(c, t.sendnext) \in Nat
        BY <1>1, OffType DEF Tcbs
    <2>1. x.txbuf # <<>>
      <3> SUFFICES ASSUME x.txbuf = <<>> PROVE FALSE
          OBVIOUS
      <3>1. Len(x.txbuf) = 0
          BY NoBytes
      <3> HIDE DEF n, l
      <3>c. Len(x.txbuf) = l - n
          BY <1>3
      <3>d. n \in Nat /\ l \in Nat
          BY <1>2
      <3>a. l - n = 0 /\ n \in Nat /\ l \in Nat
          BY <3>c, <3>d, <3>1
      <3>b. (s - l) + n = s
          BY <1>1, <3>a
      <3>2. Off(c, y.ack) = s
          BY <1>2, <3>b
      <3> QED  BY <1>1, <1>5, <2>0, <3>2
    <2>2. Off(c, t.sendnext) > Off(c, t.sendunack)
      <3> HIDE DEF n, l
      <3> QED  BY <1>1, <1>2, <2>0
    <2> QED  BY <1>1, <2>1, <2>2 DEF Timed
  <1>8. Flushing(c, x, s, u, k) /\ Youth(c, x, s, g) /\ Stream(x, g, v)
      BY <1>1, <1>4 DEF Flushing, Youth, Stream
  <1>9. s >= s /\ ~(s > s)
      BY <1>1
  <1> QED  BY <1>1, <1>4, <1>6, <1>7, <1>8, <1>9, Adjusts

\* The new bytes of a segment in sequence are the next ones of the peer's stream.
LEMMA NewDataFacts ==
    ASSUME NEW c \in Roles, NEW t, NEW s, NEW g, NEW I, NEW u, NEW v, NEW k, NEW J,
           Whole(c, t, s, g, I, u, v, k, J),
           IsTaking(t), NEW y \in I, y.data # <<>>, InSequence(t, y)
    PROVE  /\ v > 0 /\ t.rcvnext = Plus(Base(Other(c)), g) /\ y.flags = {"ACK"}
           /\ NewData(t, y) \in Seq(Bytes)
           /\ Len(NewData(t, y)) \in Nat /\ Len(NewData(t, y)) <= Window(t)
           /\ g + Len(NewData(t, y)) <= v
           /\ \A j \in 1..Len(NewData(t, y)) : NewData(t, y)[j] = g + j
  <1> DEFINE o == Other(c)
             q == y.data
             l == Len(q)
             f == Off(o, y.seq)
  <1>1. /\ t \in Tcbs /\ s \in Nat /\ v \in Nat /\ 2 * v < SeqSize /\ g \in Nat /\ I \subseteq Segments
        /\ Datas(c, t, g, I, v) /\ Receiving(c, t, g, u, v) /\ Stream(t, g, v) /\ c \in Roles
      BY Parts
  <1>2. o \in Roles /\ y \in Segments /\ y.seq \in SeqNum /\ t.rcvnext \in SeqNum
      BY <1>1, OtherFacts DEF Segments, Tcbs
  <1>3. q \in Seq(Bytes) /\ l \in Nat /\ l > 0
    <2>1. q \in Seq(Bytes)
        BY <1>2 DEF Segments, Loads
    <2>2. l \in Nat
        BY <2>1
    <2>3. l # 0
        BY <2>1, EmptySeq
    <2> QED  BY <2>1, <2>2, <2>3
  <1>4. f \in Nat /\ f < SeqSize
      BY <1>2, OffType
  <1>5. IsAlive(t)
      BY DEF IsTaking, IsAlive
  <1>6. /\ y.flags = {"ACK"} /\ f + l <= v
        /\ \A j \in 1..l : q[j] = f + j \/ f + j <= g
      BY <1>1, <1>5 DEF Datas
  <1>7. v > 0
    <2> HIDE DEF f, l
    <2> QED  BY <1>1, <1>3, <1>4, <1>6
  <1>8. t.rcvnext = Plus(Base(o), g)
      BY <1>1, <1>7 DEF Receiving
  <1>9. g <= v
      BY <1>1 DEF Stream
  <1>10. Off(o, t.rcvnext) = g
    <2>1. g \in 0 .. SeqSize - 1
        BY <1>1, <1>9, Sizes
    <2> QED  BY <1>2, <1>8, <2>1, OffOfBase
  <1>11. Off(o, Plus(y.seq, l)) = f + l /\ Plus(y.seq, l) \in SeqNum
    <2>1. f + l >= 0 /\ f + l < SeqSize /\ l \in Int
      <3> HIDE DEF f, l
      <3> QED  BY <1>1, <1>3, <1>4, <1>6, Sizes
    <2>2. Plus(y.seq, l) \in SeqNum
      <3>1. y.seq \in Int
          BY <1>2 DEF SeqNum
      <3> HIDE DEF l
      <3> QED  BY <2>1, <3>1, PlusType
    <2> HIDE DEF l
    <2> QED  BY <1>2, <2>1, <2>2, OffOfPlus
  <1>12. 2 * f < SeqSize /\ 2 * g < SeqSize /\ 2 * (f + l) < SeqSize
    <2> HIDE DEF f, l
    <2> QED  BY <1>1, <1>3, <1>4, <1>6, <1>9, Sizes
  <1>13. Diff(y.seq, t.rcvnext) = f - g /\ Diff(t.rcvnext, y.seq) = g - f
      BY <1>2, <1>10, <1>12, DiffOfOffs
  <1>14. Diff(t.rcvnext, Plus(y.seq, l)) = g - (f + l)
      BY <1>2, <1>10, <1>11, <1>12, DiffOfOffs
  <1>15. Diff(y.seq, t.rcvnext) <= 0 /\ Diff(t.rcvnext, Plus(y.seq, l)) < 0
      BY DEF InSequence
  <1> DEFINE d == g - f
             w == Window(t)
             m == Least(l, d + w)
  <1>16. d \in Nat /\ d < l
    <2> HIDE DEF f, l
    <2> QED  BY <1>1, <1>3, <1>4, <1>13, <1>14, <1>15
  <1>17. w \in Nat
      BY <1>1, WindowType, Sizes
  <1>18. NewData(t, y) = SubSeq(q, d + 1, m)
      BY <1>13 DEF NewData
  <1>a. f + d = g
    <2> HIDE DEF f
    <2> QED  BY <1>1, <1>4
  <1> HIDE DEF d, w
  <1>19. m \in Nat /\ m <= l /\ m <= d + w /\ m >= d
    <2> HIDE DEF l
    <2> QED  BY <1>3, <1>16, <1>17 DEF Least
  <1> HIDE DEF m, l, q, f
  <1> DEFINE z == SubSeq(q, d + 1, m)
  <1>20. /\ z \in Seq(Bytes) /\ Len(z) = m - d
         /\ \A j \in 1 .. m - d : z[j] = q[d + j]
    <2>1. CASE m = d
      <3>1. z = <<>>
          BY <1>3, <1>16, <1>19, <2>1
      <3> HIDE DEF z
      <3>2. Len(z) = 0
          BY <3>1, NoBytes
      <3> QED  BY <3>1, <3>2, <1>16, <2>1, NoBytes
    <2>2. CASE m > d
      <3>1. d + 1 \in 1 .. m /\ m \in 1 .. Len(q)
          BY <1>3, <1>16, <1>19, <2>2 DEF l
      <3>2. /\ z \in Seq(Bytes) /\ Len(z) = m - (d + 1) + 1
            /\ \A j \in 1 .. m - (d + 1) + 1 : z[j] = q[d + 1 + j - 1]
          BY <1>3, <3>1, <1>16, <1>19, <2>2, SubSeqProperties DEF l
      <3>3. m - (d + 1) + 1 = m - d
          BY <1>16, <1>19
      <3>4. \A j \in 1 .. m - d : d + 1 + j - 1 = d + j
          BY <1>16, <1>19
      <3> QED  BY <3>2, <3>3, <3>4
    <2> QED  BY <1>16, <1>19, <2>1, <2>2
  <1> HIDE DEF z
  <1>21. \A j \in 1 .. m - d : q[d + j] = g + j
    <2> TAKE j \in 1 .. m - d
    <2>1. d + j \in 1..l /\ f + (d + j) = g + j /\ ~(f + (d + j) <= g)
        BY <1>1, <1>3, <1>4, <1>16, <1>19, <1>a
    <2> QED  BY <1>6, <2>1
  <1>22. Len(z) \in Nat /\ Len(z) <= w /\ g + Len(z) <= v
      BY <1>1, <1>3, <1>4, <1>6, <1>16, <1>17, <1>19, <1>20, <1>a
  <1>23. NewData(t, y) = z
      BY <1>18 DEF z
  <1> QED  BY <1>6, <1>7, <1>8, <1>20, <1>21, <1>22, <1>23 DEF w, o

\* What _tcp_procdata does with data in sequence.
LEMMA TakesData ==
    ASSUME NEW c \in Roles, NEW t, NEW s, NEW g, NEW I, NEW u, NEW v, NEW k, NEW J,
           Whole(c, t, s, g, I, u, v, k, J),
           IsTaking(t), NEW y \in I, y.data # <<>>, InSequence(t, y),
           NEW x \in Tcbs, x.state = t.state, x.sock = t.sock, x.peer = t.peer, Resting(x),
           x.sendunack = t.sendunack, x.sendnext = t.sendnext, x.txbuf = t.txbuf,
           x.retx = t.retx, x.rxbuf = t.rxbuf \o NewData(t, y),
           x.rcvnext = Plus(t.rcvnext, Len(NewData(t, y)))
    PROVE  /\ Len(NewData(t, y)) \in Nat
           /\ Whole(c, x, s, g + Len(NewData(t, y)), I, u, v, k, J)
  <1> DEFINE n == Len(NewData(t, y))
             d == NewData(t, y)
             gx == g + n
             o == Other(c)
  <1>1. /\ Half(c, t, s, g, I, u, v, k, J)
        /\ Half(Other(c), u, v, k, J, t, s, g, I)
        /\ s \in Nat /\ g \in Nat /\ v \in Nat /\ 2 * v < SeqSize /\ Typed(t, s, g, I) /\ t \in Tcbs
        /\ c \in Roles /\ Stream(t, g, v) /\ Datas(c, t, g, I, v) /\ I \subseteq Segments
      BY Parts
  <1>2. /\ v > 0 /\ t.rcvnext = Plus(Base(o), g)
        /\ d \in Seq(Bytes) /\ n \in Nat /\ n <= Window(t) /\ g + n <= v
        /\ \A j \in 1..n : d[j] = g + j
      BY NewDataFacts
  <1> HIDE DEF n, d
  <1>3. gx \in Nat /\ gx >= g /\ gx <= v
      BY <1>1, <1>2
  <1>4. o \in Roles /\ Other(o) = c
      BY OtherFacts
  <1>5. x.rcvnext = Plus(Base(o), gx) /\ Off(o, x.rcvnext) = gx
    <2>1. g \in 0 .. SeqSize - 1 /\ gx \in 0 .. SeqSize - 1
        BY <1>1, <1>2, <1>3, Sizes
    <2>2. Off(o, t.rcvnext) = g /\ Off(o, Plus(Base(o), gx)) = gx
        BY <1>2, <1>4, <2>1, OffOfBase
    <2>3. t.rcvnext \in SeqNum /\ n \in Int /\ x.rcvnext = Plus(t.rcvnext, n)
        BY <1>1, <1>2 DEF Tcbs, n
    <2>4. Off(o, x.rcvnext) = gx
      <3>1. Off(o, t.rcvnext) + n = gx
          BY <2>2
      <3>2. gx >= 0 /\ gx < SeqSize
          BY <2>1, Sizes
      <3> HIDE DEF gx
      <3> QED  BY <1>4, <2>3, <3>1, <3>2, OffOfPlus
    <2>5. x.rcvnext = Plus(Base(o), Off(o, x.rcvnext))
      <3>1. x.rcvnext \in SeqNum
          BY DEF Tcbs
      <3> QED  BY <1>4, <3>1, PlusOfOff
    <2> QED  BY <2>4, <2>5
  <1> HIDE DEF gx
  <1>b. t.rxbuf \in Seq(Bytes) /\ Len(t.rxbuf) \in Nat
      BY <1>1, BufferFacts DEF Tcbs
  <1>6. Stream(x, gx, v)
    <2> DEFINE l == Len(t.rxbuf)
    <2>0. l \in Nat /\ l <= g /\ \A j \in 1..l : t.rxbuf[j] = g - l + j
        BY <1>1, <1>b DEF Stream
    <2>1. Len(x.rxbuf) = l + n
        BY <1>2, <1>b DEF d, n
    <2>2. \A j \in 1 .. l + n : x.rxbuf[j] = IF j <= l THEN t.rxbuf[j] ELSE d[j - l]
        BY <1>2, <1>b DEF d, n
    <2>a. gx = g + n
        BY DEF gx
    <2> HIDE DEF l
    <2>3. ASSUME NEW j \in 1 .. l + n
          PROVE  x.rxbuf[j] = gx - (l + n) + j
      <3>1. CASE j <= l
        <4>1. j \in 1..l /\ gx - (l + n) + j = g - l + j
            BY <1>1, <1>2, <2>0, <2>a, <3>1
        <4> QED  BY <2>0, <2>2, <3>1, <4>1
      <3>2. CASE ~(j <= l)
        <4>1. j - l \in 1..n /\ gx - (l + n) + j = g + (j - l)
          <5>1. l \in Nat /\ n \in Nat /\ g \in Nat
              BY <1>1, <1>2, <2>0
          <5> QED  BY <2>a, <3>2, <5>1
        <4>2. d[j - l] = g + (j - l)
            BY <1>2, <4>1
        <4>3. x.rxbuf[j] = d[j - l]
            BY <2>2, <3>2
        <4> QED  BY <4>1, <4>2, <4>3
      <3> QED  BY <3>1, <3>2
    <2>4. l + n <= gx
        BY <1>1, <1>2, <2>0, <2>a
    <2> QED  BY <1>3, <2>1, <2>3, <2>4 DEF Stream
  <1>a. /\ IsAlive(x) /\ IsAlive(t) /\ ~IsFresh(x) /\ ~IsYoung(x) /\ MayAck(x) /\ IsTaking(x)
        /\ IsTalking(x) <=> IsTalking(t)
        /\ IsOpen(x) <=> IsOpen(t)
      BY DEF IsTaking, IsAlive, IsOpen, SEND_OK, IsFresh, IsYoung, IsTalking,
         CONNINPROGRESS, MayAck, CLOSINGSTATES
  <1>s. t.state \notin {"CLOSED", "SYN_SENT", "LISTEN", "FREE", "SYN_RECEIVED"} /\ t.peer
      BY <1>1 DEF IsTaking, Half, Resting
  <1>7. Half(o, u, v, k, J, x, s, gx, I)
    <2>1. Receiving(o, u, k, x, s)
        BY <1>1, <1>a DEF Half, Receiving
    <2>2. NewAck(o, u, v, J, x, gx)
      <3>1. AckOk(o, x.rcvnext, v, x, gx)
          BY <1>3, <1>5 DEF AckOk
      <3>2. ~IsYoung(u)
          BY <1>1, <1>2 DEF Half, Youth
      <3> QED  BY <3>1, <3>2 DEF NewAck
    <2>3. RolesKept(c, t, x)
        BY <1>s DEF RolesKept
    <2>4. o = "caller" /\ (IsFresh(u) \/ u.state = "SYN_SENT") => ~IsOpen(x) /\ s = 0
        BY <1>1, <1>a DEF Half, Calling
    <2>5. s >= s
        BY <1>1
    <2> HIDE DEF o
    <2>6. Half(Other(c), u, v, k, J, x, s, gx, I)
      <3>1. /\ Receiving(Other(c), u, k, x, s)
            /\ NewAck(Other(c), u, v, J, x, gx)
            /\ Other(c) = "caller" /\ (IsFresh(u) \/ u.state = "SYN_SENT") => ~IsOpen(x) /\ s = 0
          BY <2>1, <2>2, <2>4 DEF o
      <3> QED  BY <1>1, <1>3, <1>a, <2>3, <2>5, <3>1, PeerHalf
    <2> QED  BY <2>6 DEF o
  <1>8. Half(c, x, s, gx, I, u, v, k, J)
    <2>1. Typed(x, s, gx, I)
        BY <1>1, <1>3 DEF Typed
    <2>2. Sending(c, x, s, u, k) /\ Timed(c, x)
        BY <1>1, <1>a DEF Half, Sending, Timed
    <2>3. Flushing(c, x, s, u, k) /\ Youth(c, x, s, gx)
        BY <1>a, <1>s DEF Flushing, Youth
    <2>4. Receiving(c, x, gx, u, v)
        BY <1>5 DEF Receiving, o
    <2>5. AcksFit(c, x, s, I, u, k) /\ SameAcks(c, x, I, u) /\ Fins(x, I, u)
        BY <1>1, <1>a DEF Half, AcksFit, SameAcks, Fins
    <2>6. Datas(c, x, gx, I, v)
      <3>1. ASSUME NEW z \in I
            PROVE  Off(o, z.seq) \in Nat
          BY <1>1, <1>4, OffType DEF Segments
      <3> QED
        <4>1. Datas(c, t, g, I, v) /\ g \in Nat /\ I \subseteq Segments
            BY <1>1
        <4>2. IsAlive(x) => IsAlive(t)
            BY <1>a
        <4> QED  BY <1>3, <3>1, <4>1, <4>2 DEF Datas, o
    <2>7. Syns(c, I)
        BY <1>1 DEF Half
    <2>8. Strange(c, x, I, u, J) /\ Calling(c, x, I, u, v, J)
        BY <1>a, <1>s DEF Strange, Calling
    <2> QED  BY <1>6, <2>1, <2>2, <2>3, <2>4, <2>5, <2>6, <2>7, <2>8 DEF Half
  <1>9. gx = g + n
      BY DEF gx
  <1> QED  BY <1>2, <1>7, <1>8, <1>9 DEF Whole, o, n

\* In SYN_SENT a segment with SYN acknowledges the SYN, so that the caller never
\* moves to SYN_RECEIVED.
LEMMA SynAnswer ==
    ASSUME NEW c \in Roles, NEW t, NEW s, NEW g, NEW I, NEW u, NEW v, NEW k, NEW J,
           Whole(c, t, s, g, I, u, v, k, J),
           t.state = "SYN_SENT", NEW y \in I, "SYN" \in y.flags
    PROVE  /\ c = "caller" /\ "ACK" \in y.flags /\ "RST" \notin y.flags /\ IsAck(y)
           /\ AcksOneMore(t, y) /\ y.ack = Base(c)
  <1>1. /\ t \in Tcbs /\ s \in Nat /\ I \subseteq Segments /\ Youth(c, t, s, g)
        /\ Syns(c, I) /\ AcksFit(c, t, s, I, u, k)
      BY Parts
  <1>2. c = "caller" /\ t.sendunack = Iss /\ s = 0
      BY <1>1 DEF Youth, IsYoung, CONNINPROGRESS
  <1>3. "ACK" \in y.flags /\ "RST" \notin y.flags
      BY <1>1, <1>2 DEF Syns
  <1>4. IsAck(y)
      BY <1>3 DEF IsAck
  <1>5. Off(c, y.ack) <= 0
      BY <1>1, <1>2, <1>4 DEF AcksFit, AckOk
  <1>6. y.ack \in SeqNum
      BY <1>1 DEF Segments
  <1>7. Off(c, y.ack) = 0
      BY <1>5, <1>6, OffType
  <1>8. y.ack = Plus(Base(c), 0) /\ Plus(Base(c), 0) = Base(c)
      BY <1>6, <1>7, PlusOfOff, OffOfBase
  <1>9. y.ack = Plus(t.sendunack, 1)
      BY <1>2, <1>8 DEF Base
  <1> QED  BY <1>2, <1>3, <1>4, <1>8, <1>9 DEF AcksOneMore

\* The caller's connection is established.
LEMMA Opens ==
    ASSUME NEW c \in Roles, NEW t, NEW s, NEW g, NEW I, NEW u, NEW v, NEW k, NEW J,
           Whole(c, t, s, g, I, u, v, k, J),
           t.state = "SYN_SENT", NEW y \in I, "SYN" \in y.flags,
           NEW x \in Tcbs, x.state = "ESTABLISHED", x.sock = t.sock, x.peer = t.peer, Resting(x),
           x.sendunack = y.ack, x.sendnext = y.ack, x.txbuf = t.txbuf, x.rxbuf = t.rxbuf
    PROVE  Whole(c, x, s, g, I, u, v, k, J)
  <1>1. /\ Half(c, t, s, g, I, u, v, k, J)
        /\ Half(Other(c), u, v, k, J, t, s, g, I)
        /\ s \in Nat /\ g \in Nat /\ v \in Nat /\ k \in Nat /\ Typed(t, s, g, I)
        /\ Youth(c, t, s, g) /\ Calling(c, t, I, u, v, J)
        /\ Strange(Other(c), u, J, t, I) /\ Fins(u, J, t)
      BY Parts DEF Half
  <1>2. /\ c = "caller" /\ Other(c) = "listener" /\ "RST" \notin y.flags /\ IsAck(y) /\ y.ack = Base(c)
      BY SynAnswer DEF Other
  <1>3. s = 0 /\ g = 0 /\ t.txbuf = <<>> /\ t.rxbuf = <<>>
      BY <1>1 DEF Youth, IsYoung, CONNINPROGRESS
  <1>4. ~IsOpen(u) /\ v = 0 /\ \A z \in J : ~IsAck(z)
      BY <1>1, <1>2 DEF Calling
  <1>5. u.peer \/ u.state = "FREE"
      BY <1>1, <1>2 DEF Strange
  <1>a. /\ IsAlive(x) /\ IsAlive(t) /\ IsTalking(x) /\ IsTalking(t) /\ ~IsFresh(x) /\ ~IsYoung(x)
      BY DEF IsAlive, IsTalking, IsYoung, IsFresh, CONNINPROGRESS
  <1>b. u.state # "ESTABLISHED" /\ u.state # "SYN_SENT"
      BY <1>1, <1>2, <1>4 DEF IsOpen, SEND_OK, Half, Youth
  <1>6. Receiving(Other(c), u, k, x, s)
    <2>1. Receiving(Other(c), u, k, t, s)
        BY <1>1 DEF Half
    <2> QED  BY <2>1, <1>2 DEF Receiving
  <1>7. NewAck(Other(c), u, v, J, x, g)
      BY <1>4, <1>b DEF NewAck
  <1>8. s >= s /\ g >= g
      BY <1>1
  <1>9. Half(Other(c), u, v, k, J, x, s, g, I)
      BY <1>1, <1>2, <1>5, <1>6, <1>7, <1>8, <1>a, PeerHalf
  <1>10. Off(c, y.ack) = 0
      BY <1>2, OffOfBase
  <1>11. Len(x.txbuf) = 0 /\ Len(x.rxbuf) = 0
      BY <1>3, NoBytes
  <1>12. Half(c, x, s, g, I, u, v, k, J)
    <2>1. Typed(x, s, g, I)
        BY <1>1 DEF Typed
    <2>2. Sending(c, x, s, u, k)
      <3> DEFINE l == Len(x.txbuf)
      <3>a. l = 0
          BY <1>11
      <3> HIDE DEF l
      <3>b. s - l = 0 /\ s >= l /\ \A j \in 1..l : FALSE
          BY <1>3, <3>a
      <3>1. s - Len(x.txbuf) = 0 /\ s >= Len(x.txbuf) /\ \A j \in 1..Len(x.txbuf) : FALSE
          BY <3>b DEF l
      <3>2. Off(c, x.sendunack) = 0 /\ Off(c, x.sendnext) <= s /\ 0 <= k
          BY <1>1, <1>3, <1>10
      <3> QED  BY <3>1, <3>2 DEF Sending
    <2>3. Timed(c, x)
        BY <1>10 DEF Timed
    <2>4. Flushing(c, x, s, u, k) /\ Youth(c, x, s, g) /\ SameAcks(c, x, I, u)
        BY <1>a DEF Flushing, Youth, SameAcks
    <2>5. Receiving(c, x, g, u, v)
        BY <1>2, <1>4 DEF Receiving
    <2>6. Stream(x, g, v)
        BY <1>1 DEF Half, Stream
    <2>7. AcksFit(c, x, s, I, u, k)
        BY <1>1 DEF Half, AcksFit
    <2>8. Fins(x, I, u)
        BY <1>1 DEF Half, Fins
    <2>9. Datas(c, x, g, I, v) /\ Syns(c, I)
        BY <1>1, <1>a DEF Half, Datas
    <2>10. Strange(c, x, I, u, J) /\ Calling(c, x, I, u, v, J)
        BY <1>2, <1>a DEF Strange, Calling
    <2> QED  BY <2>1, <2>2, <2>3, <2>4, <2>5, <2>6, <2>7, <2>8, <2>9, <2>10 DEF Half
  <1> QED  BY <1>9, <1>12 DEF Whole

\* The listener's connection is established.
LEMMA Completes ==
    ASSUME NEW c \in Roles, NEW t, NEW s, NEW g, NEW I, NEW u, NEW v, NEW k, NEW J,
           Whole(c, t, s, g, I, u, v, k, J),
           t.state = "SYN_RECEIVED", NEW y \in I, IsAck(y), AcksOneMore(t, y),
           NEW x \in Tcbs, Resting(x),
           x.state = "ESTABLISHED", x.sock = t.sock, x.peer = t.peer, x.rcvnext = t.rcvnext,
           x.sendunack = y.ack, x.sendnext = y.ack, x.txbuf = t.txbuf, x.rxbuf = t.rxbuf
    PROVE  Whole(c, x, s, g, I, u, v, k, J)
  <1>1. /\ Half(c, t, s, g, I, u, v, k, J)
        /\ Half(Other(c), u, v, k, J, t, s, g, I)
        /\ s \in Nat /\ g \in Nat /\ v \in Nat /\ k \in Nat /\ Typed(t, s, g, I) /\ Youth(c, t, s, g)
        /\ Calling(Other(c), u, J, t, s, I) /\ SameAcks(c, t, I, u)
      BY Parts DEF Half
  <1>2. c = "listener" /\ Other(c) = "caller" /\ Other(c) \in Roles /\ Other(Other(c)) = c
      BY <1>1, OtherFacts DEF Youth
  <1>3. s = 0 /\ g = 0 /\ t.txbuf = <<>> /\ t.rxbuf = <<>> /\ t.sendunack = 0
        /\ t.rcvnext = Base("caller") /\ IsYoung(t)
      BY <1>1 DEF Youth, IsYoung, CONNINPROGRESS
  <1>4. y.ack = Base(c)
    <2>1. Plus(0, 1) = 1
        BY Sizes DEF Plus
    <2> QED  BY <1>2, <1>3, <2>1 DEF AcksOneMore, Base
  <1>5. ~IsFresh(u) /\ u.state # "SYN_SENT"
      BY <1>1, <1>2 DEF Calling, IsAck
  <1>a. /\ IsAlive(x) /\ IsAlive(t) /\ IsTalking(x) /\ IsTalking(t) /\ ~IsFresh(x)
        /\ ~IsYoung(x) /\ MayAck(t) /\ MayAck(x)
        /\ x.peer
      BY <1>1 DEF IsAlive, IsTalking, IsYoung, IsFresh, CONNINPROGRESS, MayAck, Half, Resting
  <1>b. /\ \A z \in I : IsAck(z) => z.ack = Base(c)
        /\ MayAck(u) => u.rcvnext = Base(c)
      BY <1>1, <1>2, <1>3, <1>4 DEF SameAcks
  <1>c. k = 0
      BY <1>1, <1>3 DEF Half, Stream
  <1>6. Receiving(Other(c), u, k, x, s)
    <2>1. IsTaking(u) => MayAck(u)
        BY DEF IsTaking, MayAck
    <2>2. Plus(Base(c), 0) = Base(c)
        BY OffOfBase
    <2> QED  BY <1>2, <1>b, <1>c, <2>1, <2>2 DEF Receiving
  <1>7. NewAck(Other(c), u, v, J, x, g)
    <2>1. AcksFit(Other(c), u, v, J, t, g)
        BY <1>1 DEF Half
    <2> QED  BY <1>2, <1>a, <2>1 DEF NewAck, AcksFit, AckOk
  <1>8. s >= s /\ g >= g
      BY <1>1
  <1>9. Half(Other(c), u, v, k, J, x, s, g, I)
      BY <1>1, <1>2, <1>5, <1>6, <1>7, <1>8, <1>a, PeerHalf
  <1>10. Off(c, y.ack) = 0
      BY <1>4, OffOfBase
  <1>11. Len(x.txbuf) = 0 /\ Len(x.rxbuf) = 0
      BY <1>3, NoBytes
  <1>12. Half(c, x, s, g, I, u, v, k, J)
    <2>1. Typed(x, s, g, I)
        BY <1>1 DEF Typed
    <2>2. Sending(c, x, s, u, k)
      <3> DEFINE l == Len(x.txbuf)
      <3>a. l = 0
          BY <1>11
      <3> HIDE DEF l
      <3>b. s - l = 0 /\ s >= l /\ \A j \in 1..l : FALSE
          BY <1>3, <3>a
      <3>1. s - Len(x.txbuf) = 0 /\ s >= Len(x.txbuf) /\ \A j \in 1..Len(x.txbuf) : FALSE
          BY <3>b DEF l
      <3>2. Off(c, x.sendunack) = 0 /\ Off(c, x.sendnext) <= s /\ 0 <= k
          BY <1>1, <1>3, <1>10
      <3> QED  BY <3>1, <3>2 DEF Sending
    <2>3. Timed(c, x)
        BY <1>10 DEF Timed
    <2>4. Flushing(c, x, s, u, k) /\ Youth(c, x, s, g) /\ SameAcks(c, x, I, u)
        BY <1>a DEF Flushing, Youth, SameAcks
    <2>5. Receiving(c, x, g, u, v)
      <3>1. Plus(Base("caller"), 0) = Base("caller")
          BY <1>2, OffOfBase
      <3> QED  BY <1>2, <1>3, <3>1 DEF Receiving
    <2>6. Stream(x, g, v)
        BY <1>1 DEF Half, Stream
    <2>7. AcksFit(c, x, s, I, u, k)
      <3>1. Off(c, Base(c)) = 0
          BY OffOfBase
      <3>2. AckOk(c, Base(c), s, u, k)
          BY <1>1, <3>1 DEF AckOk
      <3> QED  BY <1>b, <3>2 DEF AcksFit
    <2>8. Fins(x, I, u)
        BY <1>1 DEF Half, Fins
    <2>9. Datas(c, x, g, I, v) /\ Syns(c, I)
        BY <1>1, <1>a DEF Half, Datas
    <2>10. Strange(c, x, I, u, J) /\ Calling(c, x, I, u, v, J)
        BY <1>2, <1>a DEF Strange, Calling
    <2> QED  BY <2>1, <2>2, <2>3, <2>4, <2>5, <2>6, <2>7, <2>8, <2>9, <2>10 DEF Half
  <1> QED  BY <1>9, <1>12 DEF Whole

\* The listener takes a SYN.
LEMMA Answers ==
    ASSUME NEW c \in Roles, NEW t, NEW s, NEW g, NEW I, NEW u, NEW v, NEW k, NEW J,
           Whole(c, t, s, g, I, u, v, k, J),
           t.state = "LISTEN", NEW y \in I, "SYN" \in y.flags, "RST" \notin y.flags,
           NEW x \in Tcbs, Resting(x),
           x.state = "SYN_RECEIVED", x.sock = t.sock, x.peer, x.rcvnext = Plus(y.seq, 1),
           x.sendunack = t.sendunack, x.sendnext = t.sendnext, x.txbuf = t.txbuf, x.rxbuf = t.rxbuf
    PROVE  Whole(c, x, s, g, I, u, v, k, J)
  <1>1. /\ Half(c, t, s, g, I, u, v, k, J)
        /\ Half(Other(c), u, v, k, J, t, s, g, I)
        /\ s \in Nat /\ g \in Nat /\ v \in Nat /\ k \in Nat /\ Typed(t, s, g, I) /\ Youth(c, t, s, g)
        /\ Calling(Other(c), u, J, t, s, I) /\ SameAcks(c, t, I, u) /\ Syns(c, I)
      BY Parts DEF Half
  <1>2. c = "listener" /\ Other(c) = "caller" /\ Other(c) \in Roles /\ Other(Other(c)) = c
      BY <1>1, OtherFacts DEF Youth
  <1>3. s = 0 /\ g = 0 /\ t.txbuf = <<>> /\ t.rxbuf = <<>> /\ t.sendunack = 0 /\ IsYoung(t)
      BY <1>1 DEF Youth, IsYoung, CONNINPROGRESS
  <1>4. x.rcvnext = Base("caller")
      BY <1>1, <1>2 DEF Syns, Base
  <1>5. ~IsFresh(u)
      BY <1>1, <1>2 DEF Calling
  <1>a. /\ IsAlive(x) /\ IsAlive(t) /\ IsTalking(x) /\ IsTalking(t) /\ ~IsFresh(x)
        /\ IsYoung(x) /\ ~IsOpen(x)
      BY DEF IsAlive, IsTalking, IsYoung, IsFresh, CONNINPROGRESS, IsOpen, SEND_OK
  <1>6. Receiving(Other(c), u, k, x, s)
      BY <1>2, <1>3, <1>a DEF Receiving
  <1>7. NewAck(Other(c), u, v, J, x, g)
    <2>1. Off(Other(c), Base(Other(c))) = 0
        BY <1>2, OffOfBase
    <2> QED  BY <1>1, <1>2, <1>4, <2>1 DEF NewAck, AckOk
  <1>8. s >= s /\ g >= g
      BY <1>1
  <1>9. Half(Other(c), u, v, k, J, x, s, g, I)
      BY <1>1, <1>2, <1>3, <1>5, <1>6, <1>7, <1>8, <1>a, PeerHalf
  <1>12. Half(c, x, s, g, I, u, v, k, J)
    <2>1. Typed(x, s, g, I)
        BY <1>1 DEF Typed
    <2>2. Sending(c, x, s, u, k) /\ Timed(c, x) /\ Flushing(c, x, s, u, k) /\ AcksFit(c, x, s, I, u, k)
        BY <1>a DEF Sending, Timed, Flushing, AcksFit
    <2>4. Youth(c, x, s, g)
        BY <1>1, <1>2, <1>3, <1>4 DEF Youth
    <2>5. SameAcks(c, x, I, u)
        BY <1>1, <1>3 DEF SameAcks
    <2>6. Receiving(c, x, g, u, v)
        BY DEF Receiving, IsTaking
    <2>7. Stream(x, g, v)
        BY <1>1 DEF Half, Stream
    <2>8. Fins(x, I, u)
        BY <1>1 DEF Half, Fins
    <2>9. Datas(c, x, g, I, v) /\ Syns(c, I)
        BY <1>1, <1>a DEF Half, Datas
    <2>10. Strange(c, x, I, u, J) /\ Calling(c, x, I, u, v, J)
        BY <1>2, <1>a DEF Strange, Calling
    <2> QED  BY <2>1, <2>2, <2>4, <2>5, <2>6, <2>7, <2>8, <2>9, <2>10 DEF Half
  <1> QED  BY <1>9, <1>12 DEF Whole

\* A new socket is connected.
LEMMA Calls ==
    ASSUME NEW c \in Roles, NEW t, NEW s, NEW g, NEW I, NEW u, NEW v, NEW k, NEW J,
           Whole(c, t, s, g, I, u, v, k, J),
           IsFresh(t), c = "caller",
           NEW x \in Tcbs, Resting(x), x.state = "SYN_SENT", x.peer, x.sendunack = Iss,
           x.sendnext = Iss, x.txbuf = <<>>, x.rxbuf = <<>>
    PROVE  Whole(c, x, s, g, I, u, v, k, J)
  <1>1. /\ Half(c, t, s, g, I, u, v, k, J)
        /\ Half(Other(c), u, v, k, J, t, s, g, I)
        /\ s \in Nat /\ g \in Nat /\ v \in Nat /\ k \in Nat /\ Typed(t, s, g, I) /\ Youth(c, t, s, g)
        /\ Calling(c, t, I, u, v, J)
      BY Parts
  <1>2. Other(c) = "listener"
      BY DEF Other
  <1>3. s = 0 /\ g = 0
      BY <1>1 DEF Youth, IsYoung
  <1>4. /\ u.state \in {"CLOSED", "LISTEN", "FREE"} /\ ~u.peer
        /\ \A z \in I \cup J : "RST" \in z.flags
        /\ ~IsOpen(u) /\ v = 0
      BY <1>1 DEF Calling
  <1>5. \A z \in I \cup J : ~IsAck(z)
      BY <1>4 DEF IsAck
  <1>6. ~MayAck(u)
      BY <1>4 DEF MayAck
  <1>a. /\ IsAlive(x) /\ IsTalking(x) /\ IsTalking(t) /\ ~IsFresh(x) /\ IsYoung(x)
        /\ ~IsOpen(x) /\ ~MayAck(x)
      BY DEF IsAlive, IsTalking, IsYoung, IsFresh, CONNINPROGRESS, IsOpen, SEND_OK, MayAck
  <1>7. Receiving(Other(c), u, k, x, s)
      BY <1>4 DEF Receiving, IsTaking
  <1>8. s >= s /\ g >= g
      BY <1>1
  <1>9. Half(Other(c), u, v, k, J, x, s, g, I)
    <2>1. Unheard(u, J)
        BY <1>4, <1>5 DEF Unheard
    <2>2. RolesKept(c, t, x)
        BY DEF RolesKept
    <2> QED  BY <1>1, <1>2, <1>7, <1>8, <1>a, <2>1, <2>2, PeerHalf
  <1>11. Len(x.rxbuf) = 0
      BY NoBytes
  <1>12. Half(c, x, s, g, I, u, v, k, J)
    <2>1. Typed(x, s, g, I)
        BY <1>1 DEF Typed
    <2>2. Sending(c, x, s, u, k) /\ Timed(c, x) /\ Flushing(c, x, s, u, k)
        BY <1>a DEF Sending, Timed, Flushing
    <2>3. AcksFit(c, x, s, I, u, k)
        BY <1>5, <1>6 DEF AcksFit
    <2>4. Youth(c, x, s, g)
        BY <1>1, <1>3 DEF Youth
    <2>5. SameAcks(c, x, I, u)
        BY DEF SameAcks
    <2>6. Receiving(c, x, g, u, v)
        BY DEF Receiving, IsTaking
    <2>7. Stream(x, g, v)
        BY <1>1, <1>3, <1>11 DEF Stream
    <2>8. Fins(x, I, u)
        BY <1>1 DEF Half, Fins
    <2>9. Datas(c, x, g, I, v) /\ Syns(c, I)
      <3>1. \A z \in I : "RST" \in z.flags /\ z.flags # {"ACK"}
          BY <1>4
      <3> QED  BY <1>1, <3>1 DEF Half, Datas
    <2>10. Strange(c, x, I, u, J) /\ Calling(c, x, I, u, v, J)
        BY <1>4, <1>5, <1>a DEF Strange, Calling
    <2> QED  BY <2>1, <2>2, <2>3, <2>4, <2>5, <2>6, <2>7, <2>8, <2>9, <2>10 DEF Half
  <1> QED  BY <1>9, <1>12 DEF Whole

\* A new socket listens.
LEMMA Listens ==
    ASSUME NEW c \in Roles, NEW t, NEW s, NEW g, NEW I, NEW u, NEW v, NEW k, NEW J,
           Whole(c, t, s, g, I, u, v, k, J),
           IsFresh(t), c = "listener",
           NEW x \in Tcbs, Resting(x), x.state = "LISTEN", ~x.peer, x.sendunack = 0,
           x.sendnext = 0, x.txbuf = <<>>, x.rxbuf = <<>>
    PROVE  Whole(c, x, s, g, I, u, v, k, J)
  <1>1. /\ Half(c, t, s, g, I, u, v, k, J)
        /\ Half(Other(c), u, v, k, J, t, s, g, I)
        /\ s \in Nat /\ g \in Nat /\ v \in Nat /\ k \in Nat /\ Typed(t, s, g, I) /\ Youth(c, t, s, g)
        /\ Strange(c, t, I, u, J) /\ SameAcks(c, t, I, u) /\ Calling(Other(c), u, J, t, s, I)
      BY Parts DEF Half
  <1>2. Other(c) = "caller"
      BY DEF Other
  <1>3. s = 0 /\ g = 0 /\ IsYoung(t)
      BY <1>1 DEF Youth, IsYoung
  <1>4. /\ u.state \in {"CLOSED", "SYN_SENT", "FREE"}
        /\ u.state = "CLOSED" => ~Behind(u)
        /\ \A z \in I : z.data = <<>> /\ ~IsAck(z)
        /\ \A z \in J : "RST" \in z.flags
      BY <1>1 DEF Strange, IsFresh
  <1>5. ~IsOpen(u) /\ \A z \in J : ~IsAck(z)
      BY <1>4 DEF IsAck, IsOpen, SEND_OK
  <1>a. /\ IsAlive(x) /\ IsTalking(x) /\ IsTalking(t) /\ ~IsFresh(x) /\ IsYoung(x)
        /\ ~IsOpen(x) /\ ~MayAck(x)
      BY DEF IsAlive, IsTalking, IsYoung, IsFresh, CONNINPROGRESS, IsOpen, SEND_OK, MayAck
  <1>7. Receiving(Other(c), u, k, x, s)
      BY <1>4 DEF Receiving, IsTaking
  <1>8. s >= s /\ g >= g
      BY <1>1
  <1>9. Half(Other(c), u, v, k, J, x, s, g, I)
    <2>1. Unheard(u, J)
        BY <1>4, <1>5 DEF Unheard
    <2>2. RolesKept(c, t, x)
        BY DEF RolesKept
    <2> QED  BY <1>1, <1>2, <1>3, <1>7, <1>8, <1>a, <2>1, <2>2, PeerHalf
  <1>11. Len(x.rxbuf) = 0
      BY NoBytes
  <1>12. Half(c, x, s, g, I, u, v, k, J)
    <2>1. Typed(x, s, g, I)
        BY <1>1 DEF Typed
    <2>2. Sending(c, x, s, u, k) /\ Timed(c, x) /\ Flushing(c, x, s, u, k) /\ AcksFit(c, x, s, I, u, k)
        BY <1>a DEF Sending, Timed, Flushing, AcksFit
    <2>4. Youth(c, x, s, g)
      <3>1. 2 * x.sendnext < SeqSize
          BY Sizes
      <3> QED  BY <1>3, <3>1 DEF Youth
    <2>5. SameAcks(c, x, I, u)
        BY <1>1, <1>3 DEF SameAcks
    <2>6. Receiving(c, x, g, u, v)
        BY DEF Receiving, IsTaking
    <2>7. Stream(x, g, v)
        BY <1>1, <1>3, <1>11 DEF Stream
    <2>8. Fins(x, I, u)
        BY <1>1 DEF Half, Fins
    <2>9. Datas(c, x, g, I, v) /\ Syns(c, I)
        BY <1>1, <1>4 DEF Half, Datas
    <2>10. Strange(c, x, I, u, J) /\ Calling(c, x, I, u, v, J)
        BY <1>4 DEF Strange, Calling
    <2> QED  BY <2>1, <2>2, <2>4, <2>5, <2>6, <2>7, <2>8, <2>9, <2>10 DEF Half
  <1> QED  BY <1>9, <1>12 DEF Whole

\* A RST takes a half-open connection back to LISTEN.
LEMMA Relistens ==
    ASSUME NEW c \in Roles, NEW t, NEW s, NEW g, NEW I, NEW u, NEW v, NEW k, NEW J,
           Whole(c, t, s, g, I, u, v, k, J),
           t.state = "SYN_RECEIVED",
           NEW x \in Tcbs, Resting(x), x.state = "LISTEN", x.peer, x.sendunack = t.sendunack,
           x.sendnext = t.sendnext, x.txbuf = t.txbuf, x.rxbuf = t.rxbuf
    PROVE  Whole(c, x, s, g, I, u, v, k, J)
  <1>1. /\ Half(c, t, s, g, I, u, v, k, J)
        /\ Half(Other(c), u, v, k, J, t, s, g, I)
        /\ s \in Nat /\ g \in Nat /\ v \in Nat /\ k \in Nat /\ Typed(t, s, g, I) /\ Youth(c, t, s, g)
        /\ Strange(c, t, I, u, J) /\ SameAcks(c, t, I, u) /\ Calling(c, t, I, u, v, J)
      BY Parts DEF Half
  <1>2. c = "listener"
      BY <1>1 DEF Youth
  <1>3. IsYoung(t) /\ s = 0 /\ g = 0
      BY <1>1 DEF Youth, IsYoung, CONNINPROGRESS
  <1>a. /\ IsAlive(x) /\ IsAlive(t) /\ IsTalking(x) /\ IsTalking(t) /\ ~IsFresh(x)
        /\ IsYoung(x) /\ ~IsOpen(x) /\ ~MayAck(x)
      BY DEF IsAlive, IsTalking, IsYoung, IsFresh, CONNINPROGRESS, IsOpen, SEND_OK, MayAck
  <1>4. Onward(c, t, s, g, x, s, g, u)
      BY <1>1, <1>2, <1>3, <1>a DEF Onward, RolesKept
  <1>9. Half(Other(c), u, v, k, J, x, s, g, I)
      BY <1>1, <1>4, Onwards
  <1>12. Half(c, x, s, g, I, u, v, k, J)
    <2>1. Typed(x, s, g, I)
        BY <1>1 DEF Typed
    <2>2. Sending(c, x, s, u, k) /\ Timed(c, x) /\ Flushing(c, x, s, u, k) /\ AcksFit(c, x, s, I, u, k)
        BY <1>a DEF Sending, Timed, Flushing, AcksFit
    <2>4. Youth(c, x, s, g)
        BY <1>1, <1>3 DEF Youth
    <2>5. SameAcks(c, x, I, u)
        BY <1>1, <1>3 DEF SameAcks
    <2>6. Receiving(c, x, g, u, v)
        BY DEF Receiving, IsTaking
    <2>7. Stream(x, g, v)
        BY <1>1 DEF Half, Stream
    <2>8. Fins(x, I, u)
        BY <1>1 DEF Half, Fins
    <2>9. Datas(c, x, g, I, v) /\ Syns(c, I)
        BY <1>1, <1>a DEF Half, Datas
    <2>10. Strange(c, x, I, u, J) /\ Calling(c, x, I, u, v, J)
        BY <1>2, <1>a DEF Strange, Calling
    <2> QED  BY <2>1, <2>2, <2>4, <2>5, <2>6, <2>7, <2>8, <2>9, <2>10 DEF Half
  <1> QED  BY <1>9, <1>12 DEF Whole

-----------------------------------------------------------------------------
(* A call under way                                                        *)

\* The segments a call has sent so far.
Out(h) == {h.out[i] : i \in 1..Len(h.out)}

LEMMA OutFacts ==
    ASSUME NEW h \in Handlers
    PROVE  /\ Out(h) \subseteq Segments
           /\ h.out = <<>> => Out(h) = {}
           /\ \A g : g.out = h.out => Out(g) = Out(h)
           /\ \A g : \A x \in Segments : g.out = Append(h.out, x) => Out(g) = Out(h) \cup {x}
           /\ \A g : \A q \in Seq(Segments) : g.out = h.out \o q
                 => Out(g) = Out(h) \cup {q[i] : i \in 1..Len(q)}
  <1> DEFINE o == h.out
  <1>1. o \in Seq(Segments) /\ Len(o) \in Nat
      BY DEF Handlers
  <1>2. Out(h) = {o[i] : i \in 1..Len(o)}
      BY DEF Out
  <1> HIDE DEF o
  <1>3. Out(h) \subseteq Segments
      BY <1>1, <1>2, ElementOfSeq
  <1>4. o = <<>> => Out(h) = {}
      BY <1>2
  <1>5. ASSUME NEW g, g.out = o
        PROVE  Out(g) = Out(h)
      BY <1>2, <1>5 DEF Out
  <1>6. ASSUME NEW g, NEW x \in Segments, g.out = Append(o, x)
        PROVE  Out(g) = Out(h) \cup {x}
    <2> DEFINE p == Append(o, x)
    <2>1. /\ Len(p) = Len(o) + 1 /\ p[Len(o) + 1] = x
          /\ \A i \in 1..Len(o) : p[i] = o[i]
        BY <1>1, AppendProperties
    <2>2. Out(g) = {p[i] : i \in 1..Len(p)}
        BY <1>6 DEF Out
    <2> HIDE DEF p
    <2>3. 1..Len(p) = 1..Len(o) \cup {Len(o) + 1}
        BY <1>1, <2>1
    <2> QED  BY <1>2, <2>1, <2>2, <2>3
  <1>7. ASSUME NEW g, NEW q \in Seq(Segments), g.out = o \o q
        PROVE  Out(g) = Out(h) \cup {q[i] : i \in 1..Len(q)}
    <2> DEFINE p == o \o q
               n == Len(o)
               m == Len(q)
    <2>1. /\ Len(p) = n + m
          /\ \A i \in 1..n + m : p[i] = IF i <= n THEN o[i] ELSE q[i - n]
        BY <1>1, ConcatProperties
    <2>2. Out(g) = {p[i] : i \in 1..Len(p)}
        BY <1>7 DEF Out
    <2>3. n \in Nat /\ m \in Nat
        BY <1>1
    <2>4. Out(h) = {o[i] : i \in 1..n}
        BY <1>2
    <2> HIDE DEF p, n
    <2>5. \A i \in 1..n : i \in 1..n + m /\ p[i] = o[i]
        BY <2>1, <2>3
    <2>6. \A i \in 1..m : n + i \in 1..n + m /\ p[n + i] = q[i]
        BY <2>1, <2>3
    <2>7. \A i \in 1..n + m : i \in 1..n \/ i - n \in 1..m
        BY <2>3
    <2> HIDE DEF m
    <2>8. {p[i] : i \in 1..n + m} = {o[i] : i \in 1..n} \cup {q[i] : i \in 1..m}
        BY <2>1, <2>3, <2>5, <2>6, <2>7
    <2> QED  BY <2>1, <2>2, <2>4, <2>8 DEF m
  <1> QED  BY <1>3, <1>4, <1>5, <1>6, <1>7 DEF o

\* What a call finds around its host: its role c, the bytes s accepted and r read,
\* the segments I on their way to it, those (J) on their way to the peer, and of the
\* peer its control block u, the bytes v accepted and k received.
World(w, h) == /\ w.c \in Roles /\ w.r \in Nat /\ h \in Handlers
               /\ Whole(w.c, h.t, w.s, w.r + Len(h.t.rxbuf), w.I, w.u, w.v, w.k, w.J \cup Out(h))

\* A call that only changes its control block keeps what it has sent.
LEMMA Renewed ==
    ASSUME NEW w, NEW h, World(w, h), NEW g, Renew(h, g),
           Whole(w.c, g.t, w.s, w.r + Len(g.t.rxbuf), w.I, w.u, w.v, w.k, w.J \cup Out(h))
    PROVE  World(w, g)
  <1>1. Out(g) = Out(h) /\ g \in Handlers
      BY OutFacts DEF World, Renew
  <1> QED  BY <1>1 DEF World

LEMMA WorldParts ==
    ASSUME NEW w, NEW h, World(w, h)
    PROVE  /\ w.c \in Roles /\ w.r \in Nat /\ h \in Handlers /\ h.t \in Tcbs
           /\ Whole(w.c, h.t, w.s, w.r + Len(h.t.rxbuf), w.I, w.u, w.v, w.k, w.J \cup Out(h))
           /\ w.s \in Nat /\ 2 * w.s < SeqSize /\ w.I \subseteq Segments
           /\ Len(h.t.rxbuf) \in Nat /\ w.r + Len(h.t.rxbuf) \in Nat /\ Len(h.t.txbuf) \in Nat
           /\ Resting(h.t) /\ Youth(w.c, h.t, w.s, w.r + Len(h.t.rxbuf))
           /\ Stream(h.t, w.r + Len(h.t.rxbuf), w.v)
           /\ Sending(w.c, h.t, w.s, w.u, w.k) /\ Timed(w.c, h.t)
           /\ Flushing(w.c, h.t, w.s, w.u, w.k)
           /\ Fins(h.t, w.I, w.u) /\ w.u \in Tcbs /\ w.k \in Nat
  <1>1. /\ w.c \in Roles /\ w.r \in Nat /\ h \in Handlers
        /\ Whole(w.c, h.t, w.s, w.r + Len(h.t.rxbuf), w.I, w.u, w.v, w.k, w.J \cup Out(h))
      BY DEF World
  <1>2. h.t \in Tcbs
      BY <1>1 DEF Handlers
  <1>3. Len(h.t.rxbuf) \in Nat /\ w.r + Len(h.t.rxbuf) \in Nat /\ Len(h.t.txbuf) \in Nat
      BY <1>1, <1>2, BufferFacts DEF Tcbs
  <1>4. /\ w.s \in Nat /\ 2 * w.s < SeqSize /\ w.I \subseteq Segments
        /\ Resting(h.t) /\ Youth(w.c, h.t, w.s, w.r + Len(h.t.rxbuf))
        /\ Stream(h.t, w.r + Len(h.t.rxbuf), w.v)
        /\ Sending(w.c, h.t, w.s, w.u, w.k) /\ Timed(w.c, h.t)
        /\ Flushing(w.c, h.t, w.s, w.u, w.k)
        /\ Fins(h.t, w.I, w.u) /\ w.u \in Tcbs /\ w.k \in Nat
      BY <1>1, Parts
  <1> QED  BY <1>1, <1>2, <1>3, <1>4

LEMMA RetagsWorld ==
    ASSUME NEW w, NEW h, World(w, h), NEW g, Renew(h, g), Kept(h.t, g.t),
           g.t.sendnext = h.t.sendnext, Resting(g.t),
           g.t.state = "ESTABLISHED" /\ h.t.retx => g.t.retx
    PROVE  World(w, g)
  <1>1. w.c \in Roles /\ g.t \in Tcbs /\ g.t.rxbuf = h.t.rxbuf
      BY WorldParts DEF Renew, Handlers, Kept
  <1>2. Whole(w.c, h.t, w.s, w.r + Len(h.t.rxbuf), w.I, w.u, w.v, w.k, w.J \cup Out(h))
      BY WorldParts
  <1>3. Whole(w.c, g.t, w.s, w.r + Len(h.t.rxbuf), w.I, w.u, w.v, w.k, w.J \cup Out(h))
      BY <1>1, <1>2, Retags
  <1> QED  BY <1>1, <1>3, Renewed

LEMMA SameWorld ==
    ASSUME NEW w, NEW h, World(w, h), NEW g, Renew(h, g), Same(h.t, g.t)
    PROVE  World(w, g) /\ Resting(g.t)
  <1>1. Kept(h.t, g.t) /\ g.t.sendnext = h.t.sendnext /\ g.t.retx = h.t.retx
      BY DEF Same
  <1>2. Resting(h.t)
      BY WorldParts
  <1>3. Resting(g.t)
      BY <1>2 DEF Same, Kept, Resting, IsOpen
  <1> QED  BY <1>1, <1>3, RetagsWorld

\* A control segment may be sent from t.
MayControl(t) ==
    /\ t.state \notin {"CLOSED", "LISTEN", "FREE"}
    /\ t.state = "SYN_SENT" => t.sendnext = Iss
    /\ t.state = "SYN_RECEIVED" => \/ t.txflags = {"ACK"}
                                   \/ t.txflags = {"SYN", "ACK"} /\ 2 * (t.sendnext + 1) < SeqSize

LEMMA ControlSendOk ==
    ASSUME NEW c \in Roles, NEW t \in Tcbs, NEW s, NEW g, NEW u, NEW k,
           Resting(t), Youth(c, t, s, g), MayControl(t),
           NEW x \in Segments, x.flags = t.txflags, x.seq = t.sendnext, x.ack = t.rcvnext, x.data = <<>>
    PROVE  SendOk(c, t, s, u, k, x)
  <1>1. t.state \in States
      BY DEF Tcbs
  <1>2. \/ t.state = "SYN_SENT"
        \/ t.state = "SYN_RECEIVED"
        \/ IsOpen(t)
        \/ t.state \in CLOSINGSTATES \cup {"TIME_WAIT"}
      BY <1>1 DEF MayControl, States, CONNINPROGRESS, RESETKEEPALIVE, SEND_OK, IsOpen
  <1>3. t.peer
      BY <1>1 DEF MayControl, Resting
  <1>4. t.state = "SYN_SENT" => x.flags = {"SYN"} /\ c = "caller" /\ x.seq = Iss
      BY DEF MayControl, Resting, Youth
  <1>5. t.state = "SYN_RECEIVED" => (x.flags = {"ACK"} \/ x.flags = {"SYN", "ACK"}) /\ c = "listener"
      BY DEF MayControl, Youth
  <1>6. IsOpen(t) => x.flags = {"ACK"}
      BY DEF Resting
  <1>7. t.state \in CLOSINGSTATES \cup {"TIME_WAIT"} => x.flags \subseteq {"ACK", "FIN"}
      BY DEF Resting
  <1>8. t.state # "SYN_SENT" => MayAck(t)
      BY DEF MayAck, MayControl
  <1>9. IsAck(x) => MayAck(t) /\ x.ack = t.rcvnext
      BY <1>4, <1>8 DEF IsAck
  <1>10. "SYN" \in x.flags => IF c = "caller" THEN x.seq = Iss
                                              ELSE "ACK" \in x.flags /\ "RST" \notin x.flags
      BY <1>2, <1>4, <1>5, <1>6, <1>7
  <1>11. "FIN" \in x.flags => t.state \in CLOSINGSTATES \cup {"TIME_WAIT"}
      BY <1>2, <1>4, <1>5, <1>6
  <1>12. t.state \in CLOSINGSTATES \cup {"TIME_WAIT"} => ~IsTalking(t)
      BY DEF IsTalking, IsYoung, IsFresh, CLOSINGSTATES, CONNINPROGRESS
  <1> QED  BY <1>3, <1>9, <1>10, <1>11, <1>12 DEF SendOk

LEMMA ProtosendWorld ==
    ASSUME NEW w, NEW h, World(w, h), MayControl(h.t)
    PROVE  World(w, Protosend(h))
  <1> DEFINE t == h.t
             p == Protosend(h)
             x == p.t
             r == w.r + Len(t.rxbuf)
             K == w.J \cup Out(h)
             seg == Segment(t, t.txflags, t.sendnext, <<>>)
  <1>1. CASE ~h.ebuf
    <2>1. p = h
        BY <1>1, WorldParts, ProtosendFacts
    <2> QED  BY <2>1
  <1>2. CASE h.ebuf
    <2>1. /\ w.c \in Roles /\ h \in Handlers /\ t \in Tcbs /\ w.s \in Nat /\ 2 * w.s < SeqSize
          /\ Whole(w.c, t, w.s, r, w.I, w.u, w.v, w.k, K) /\ r \in Nat
          /\ Resting(t) /\ Youth(w.c, t, w.s, r) /\ Stream(t, r, w.v)
          /\ Sending(w.c, t, w.s, w.u, w.k) /\ Timed(w.c, t)
          /\ Flushing(w.c, t, w.s, w.u, w.k)
        BY WorldParts
    <2>2. /\ p \in Handlers /\ Kept(t, x) /\ x.txflags = t.txflags /\ x.retx = t.retx
          /\ seg \in Segments /\ p.out = Append(h.out, seg)
          /\ x.flags = t.flags \ {"SENDMSG", "DLYACK"}
          /\ Counts(t.txflags) => x.sendnext = Plus(t.sendnext, 1)
          /\ ~Counts(t.txflags) => x.sendnext = t.sendnext
        BY <1>2, <2>1, ProtosendFacts
    <2>3. seg.flags = t.txflags /\ seg.seq = t.sendnext /\ seg.ack = t.rcvnext /\ seg.data = <<>>
        BY DEF Segment
    <2>b. w.c \in Roles /\ w.r \in Nat
        BY WorldParts
    <2> HIDE DEF p, x, seg
    <2>4. SendOk(w.c, t, w.s, w.u, w.k, seg)
        BY <2>1, <2>2, <2>3, ControlSendOk
    <2>5. Whole(w.c, t, w.s, r, w.I, w.u, w.v, w.k, K \cup {seg})
        BY <2>1, <2>2, <2>4, Sends
    <2>6. Out(p) = Out(h) \cup {seg}
        BY <2>1, <2>2, OutFacts
    <2> HIDE DEF r, t
    <2>7. /\ x.state = t.state /\ x.sock = t.sock /\ x.peer = t.peer
          /\ x.rcvnext = t.rcvnext /\ x.rxbuf = t.rxbuf /\ x.txbuf = t.txbuf
          /\ x.sendunack = t.sendunack
        BY <2>2 DEF Kept
    <2>8. x \in Tcbs
        BY <2>2 DEF x, Handlers
    <2>9. Outer(t, x) /\ Stream(x, r, w.v) /\ Resting(x)
      <3>1. Outer(t, x)
          BY <2>7 DEF Outer
      <3>2. Stream(x, r, w.v)
          BY <2>1, <2>7 DEF Stream
      <3>3. t.flags = {} => x.flags = {}
          BY <2>2
      <3>4. Resting(x)
          BY <2>1, <2>2, <2>7, <3>3 DEF Resting, IsOpen
      <3> QED  BY <3>1, <3>2, <3>4
    <2>10. IsOpen(t) => x.sendnext = t.sendnext
        BY <2>1, <2>2 DEF Resting, Counts
    <2>11. Sending(w.c, x, w.s, w.u, w.k)
        BY <2>1, <2>7, <2>10 DEF Sending, IsOpen
    <2>12. Timed(w.c, x)
      <3>1. t.state = "ESTABLISHED" => IsOpen(t)
          BY DEF IsOpen, SEND_OK
      <3> QED  BY <2>1, <2>2, <2>7, <2>10, <3>1 DEF Timed
    <2>13. x.state # "CLOSED" /\ x.state # "LISTEN"
        BY <2>7 DEF MayControl, t
    <2>14. Flushing(w.c, x, w.s, w.u, w.k)
        BY <2>13 DEF Flushing
    <2>15. Youth(w.c, x, w.s, r)
      <3>1. IsYoung(x) <=> IsYoung(t)
          BY <2>7 DEF IsYoung, IsFresh
      <3>2. IsYoung(x) => w.s = 0 /\ r = 0 /\ x.txbuf = <<>> /\ x.rxbuf = <<>>
          BY <2>1, <2>7, <3>1 DEF Youth
      <3>3. x.state = "SYN_SENT" => /\ w.c = "caller" /\ x.sendunack = Iss
                                    /\ x.sendnext = Iss \/ x.sendnext = Plus(Iss, 1)
          BY <2>1, <2>2, <2>7 DEF Youth, MayControl, t
      <3>4. ASSUME x.state = "SYN_RECEIVED"
            PROVE  /\ w.c = "listener" /\ x.sendunack = 0 /\ 2 * x.sendnext < SeqSize
                   /\ x.rcvnext = Base("caller")
        <4>1. /\ w.c = "listener" /\ t.sendunack = 0 /\ 2 * t.sendnext < SeqSize
              /\ t.rcvnext = Base("caller")
            BY <2>1, <2>7, <3>4 DEF Youth
        <4>2. CASE t.txflags = {"ACK"}
          <5>1. x.sendnext = t.sendnext
              BY <2>2, <4>2 DEF Counts
          <5> QED  BY <2>7, <4>1, <5>1
        <4>3. CASE t.txflags = {"SYN", "ACK"} /\ 2 * (t.sendnext + 1) < SeqSize
          <5>1. x.sendnext = (t.sendnext + 1) % SeqSize
              BY <2>2, <4>3 DEF Counts, Plus
          <5>2. t.sendnext \in 0 .. SeqSize - 1
              BY <2>1 DEF Tcbs, SeqNum
          <5>3. x.sendnext = t.sendnext + 1
              BY <4>3, <5>1, <5>2, Sizes
          <5> QED  BY <2>7, <4>1, <4>3, <5>3
        <4> QED  BY <2>7, <3>4, <4>2, <4>3 DEF MayControl, t
      <3> QED  BY <2>13, <3>2, <3>3, <3>4 DEF Youth
    <2>16. Whole(w.c, x, w.s, r, w.I, w.u, w.v, w.k, K \cup {seg})
      <3>1. w.s >= w.s /\ ~(w.s > w.s)
          BY <2>1
      <3> HIDE DEF K
      <3> QED  BY <2>1, <2>5, <2>8, <2>9, <2>11, <2>12, <2>13, <2>14, <2>15, <3>1, Adjusts
    <2>17. Whole(w.c, x, w.s, r, w.I, w.u, w.v, w.k, w.J \cup Out(p))
      <3>1. K \cup {seg} = w.J \cup Out(p)
          BY <2>6
      <3> QED  BY <2>16, <3>1
    <2>18. Whole(w.c, p.t, w.s, w.r + Len(p.t.rxbuf), w.I, w.u, w.v, w.k, w.J \cup Out(p))
        BY <2>7, <2>17 DEF r, x
    <2> QED  BY <2>2, <2>b, <2>18 DEF World, p
  <1> QED  BY <1>1, <1>2

-----------------------------------------------------------------------------
(* _tcp_output                                                             *)

\* What is in the transmit buffer, and where sendnext is in it or before it.
Queued(c, t, s, u, k) ==
    /\ MayAck(t) /\ t.peer
    /\ Off(c, t.sendunack) + Len(t.txbuf) <= s /\ Off(c, t.sendnext) <= s
    /\ \A j \in 1..Len(t.txbuf) : t.txbuf[j] = Off(c, t.sendunack) + j
    /\ IsAlive(u) => Off(c, t.sendunack) <= k

LEMMA QueuedNumbers ==
    ASSUME NEW c \in Roles, NEW t \in Tcbs, NEW s \in Nat, 2 * s < SeqSize, NEW u, NEW k,
           Queued(c, t, s, u, k)
    PROVE  /\ OutFirst(t) = Off(c, t.sendnext) - Off(c, t.sendunack)
           /\ \A n \in Int : OutFirst(t) <= n /\ n <= Len(t.txbuf)
                 => Off(c, Plus(t.sendunack, n)) = Off(c, t.sendunack) + n
           /\ Off(c, t.sendnext) \in Nat /\ Off(c, t.sendunack) \in Nat
           /\ Len(t.txbuf) \in Nat /\ Unacked(t) = Len(t.txbuf)
  <1>1. t.sendnext \in SeqNum /\ t.sendunack \in SeqNum /\ t.txbuf \in Buffers
      BY DEF Tcbs
  <1>2. /\ Off(c, t.sendnext) \in Nat /\ Off(c, t.sendnext) < SeqSize
        /\ Off(c, t.sendunack) \in Nat /\ Off(c, t.sendunack) < SeqSize
      BY <1>1, OffType
  <1>3. Len(t.txbuf) \in Nat
      BY <1>1, BufferFacts
  <1>4. Off(c, t.sendunack) + Len(t.txbuf) <= s /\ Off(c, t.sendnext) <= s
      BY DEF Queued
  <1>5. 2 * Off(c, t.sendnext) < SeqSize /\ 2 * Off(c, t.sendunack) < SeqSize
      BY <1>2, <1>3, <1>4, Sizes
  <1>6. OutFirst(t) = Off(c, t.sendnext) - Off(c, t.sendunack)
      BY <1>1, <1>5, DiffOfOffs DEF OutFirst
  <1>7. ASSUME NEW n \in Int, OutFirst(t) <= n, n <= Len(t.txbuf)
        PROVE  Off(c, Plus(t.sendunack, n)) = Off(c, t.sendunack) + n
    <2>1. Off(c, t.sendunack) + n >= 0 /\ Off(c, t.sendunack) + n < SeqSize
        BY <1>2, <1>3, <1>4, <1>6, <1>7, Sizes
    <2> QED  BY <1>1, <2>1, OffOfPlus
  <1> QED  BY <1>2, <1>3, <1>6, <1>7 DEF Unacked

LEMMA PieceSendOk ==
    ASSUME NEW c \in Roles, NEW t \in Tcbs, NEW s \in Nat, 2 * s < SeqSize, NEW u, NEW k \in Nat,
           Queued(c, t, s, u, k), NEW i \in 1 .. OutCount(t)
    PROVE  OutSegment(t, i) \in Segments /\ SendOk(c, t, s, u, k, OutSegment(t, i))
  <1> DEFINE d == Off(c, t.sendunack)
             a == OutAt(t, i)
             q == OutPiece(t, i)
             n == Plus(t.sendunack, a)
             f == {"ACK"}
             x == Segment(t, f, n, q)
  <1>0. OutSegment(t, i) = x
      BY DEF OutSegment
  <1>1. /\ a \in Int /\ a < Unacked(t) /\ OutFirst(t) <= a
        /\ q \in Loads /\ Len(q) > 0 /\ Len(q) <= Unacked(t) - a
        /\ \A j \in 1..Len(q) : q[j] = IF a + j < 1 THEN Junk ELSE t.txbuf[a + j]
      BY PieceFacts
  <1>2. /\ OutFirst(t) = Off(c, t.sendnext) - d
        /\ \A m \in Int : OutFirst(t) <= m /\ m <= Len(t.txbuf)
                 => Off(c, Plus(t.sendunack, m)) = d + m
        /\ Off(c, t.sendnext) \in Nat /\ d \in Nat
        /\ Len(t.txbuf) \in Nat /\ Unacked(t) = Len(t.txbuf)
      BY QueuedNumbers
  <1>3. n \in SeqNum
    <2>1. t.sendunack \in Int
        BY DEF Tcbs, SeqNum
    <2> QED  BY <1>1, <2>1, PlusType
  <1>4. f \in SUBSET HeaderFlags
      BY DEF HeaderFlags
  <1>d. f = {"ACK"}
      OBVIOUS
  <1> HIDE DEF f, a, q
  <1>5. Off(c, n) = d + a
      BY <1>1, <1>2
  <1> HIDE DEF n
  <1>6. /\ x \in Segments /\ x.flags = f /\ x.seq = n /\ x.ack = t.rcvnext /\ x.data = q
      BY <1>1, <1>3, <1>4, SegmentFacts
  <1> HIDE DEF x, d
  <1>7. /\ d + Len(t.txbuf) <= s
        /\ \A j \in 1..Len(t.txbuf) : t.txbuf[j] = d + j
        /\ IsAlive(u) => d <= k
        /\ MayAck(t) /\ t.peer
      BY DEF Queued, d
  <1>8. Len(q) \in Nat
      BY <1>1 DEF Loads
  <1>9. Off(c, x.seq) + Len(x.data) <= s
    <2>1. Off(c, x.seq) = d + a /\ Len(x.data) = Len(q)
        BY <1>5, <1>6
    <2>2. Len(q) <= Len(t.txbuf) - a /\ d + Len(t.txbuf) <= s
        BY <1>1, <1>2, <1>7
    <2>3. a \in Int /\ d \in Nat /\ Len(t.txbuf) \in Nat /\ Len(q) \in Nat
        BY <1>1, <1>2, <1>8
    <2> QED  BY <2>1, <2>2, <2>3
  <1>10. ASSUME IsAlive(u), NEW j \in 1..Len(q)
         PROVE  q[j] = d + a + j \/ d + a + j <= k
    <2>1. CASE a + j < 1
        BY <1>1, <1>2, <1>7, <1>8, <1>10, <2>1
    <2>2. CASE ~(a + j < 1)
      <3>1. a + j \in 1..Len(t.txbuf)
          BY <1>1, <1>2, <1>8, <2>2
      <3>2. q[j] = t.txbuf[a + j]
          BY <1>1, <2>2
      <3>3. q[j] = d + (a + j)
          BY <1>7, <3>1, <3>2
      <3>4. d + (a + j) = d + a + j
          BY <1>1, <1>2, <1>8
      <3> QED  BY <3>3, <3>4
    <2> QED  BY <2>1, <2>2
  <1>11. SendOk(c, t, s, u, k, x)
       BY <1>5, <1>6, <1>7, <1>9, <1>10, <1>d DEF SendOk
  <1> QED  BY <1>0, <1>6, <1>11

\* An empty buffer whose sendnext is not behind has nothing to be transmitted.
LEMMA NothingToOutput ==
    ASSUME NEW t \in Tcbs, t.txbuf = <<>>, ~Behind(t)
    PROVE  OutCount(t) = 0
  <1>1. OutFirst(t) \in Int /\ OutFirst(t) >= 0
      BY OutputNumbers DEF OutFirst, Behind
  <1>2. Unacked(t) = 0
      BY DEF Unacked
  <1>3. OutAllowed(t) \in Int /\ OutAllowed(t) <= 0 /\ OutCount(t) \in Nat
      BY <1>2, OutputNumbers
  <1>4. ~(OutCount(t) > 0)
      BY <1>1, <1>3, OutputNumbers
  <1> QED  BY <1>3, <1>4

LEMMA EndOfPieces ==
    ASSUME NEW t \in Tcbs, NEW q \in Nat
    PROVE  OutAt(t, q + 1) = OutFirst(t) + q * Mtu
  <1> DEFINE j == q + 1
  <1>1. OutAt(t, j) = OutFirst(t) + (j - 1) * Mtu
      BY DEF OutAt
  <1>2. j - 1 = q
      OBVIOUS
  <1> HIDE DEF j
  <1>3. OutAt(t, j) = OutFirst(t) + q * Mtu
      BY <1>1, <1>2
  <1> QED  BY <1>3 DEF j

\* Where sendnext is after the last piece.
LEMMA NextOfOutput ==
    ASSUME NEW c \in Roles, NEW t \in Tcbs, NEW s \in Nat, 2 * s < SeqSize, NEW u, NEW k,
           Queued(c, t, s, u, k), OutCount(t) > 0
    PROVE  Off(c, Plus(t.sendunack, Least(Unacked(t), OutAt(t, OutCount(t) + 1)))) <= s
  <1> DEFINE q == OutCount(t)
             f == OutFirst(t)
             a == OutAt(t, q + 1)
             l == Unacked(t)
             n == Least(l, a)
             d == Off(c, t.sendunack)
  <1>1. /\ q \in Nat /\ f \in Int /\ l \in Int
      BY OutputNumbers
  <1>2. /\ f = Off(c, t.sendnext) - d
        /\ \A m \in Int : f <= m /\ m <= Len(t.txbuf)
                 => Off(c, Plus(t.sendunack, m)) = d + m
        /\ Off(c, t.sendnext) \in Nat /\ d \in Nat
        /\ Len(t.txbuf) \in Nat /\ l = Len(t.txbuf)
      BY QueuedNumbers
  <1>3. a = f + q * Mtu
      BY <1>1, EndOfPieces
  <1>4. f < l
    <2>1. OutFirst(t) < OutAllowed(t) /\ OutAllowed(t) <= Unacked(t)
          /\ OutAllowed(t) \in Int
        BY OutputNumbers
    <2> QED  BY <1>1, <2>1
  <1> HIDE DEF q, f, a, l, d
  <1>6. q * Mtu \in Nat
      BY <1>1, Sizes, Multiples
  <1>7. a \in Int /\ a >= f
      BY <1>1, <1>3, <1>6
  <1>8. n \in Int /\ n <= l /\ n \in {l, a}
      BY <1>1, <1>7, LeastOfTwo
  <1> HIDE DEF n
  <1>9. f <= n /\ n <= Len(t.txbuf)
      BY <1>1, <1>2, <1>4, <1>7, <1>8
  <1>10. Off(c, Plus(t.sendunack, n)) = d + n
      BY <1>2, <1>8, <1>9
  <1>11. d + Len(t.txbuf) <= s
      BY DEF Queued, d
  <1>12. Off(c, Plus(t.sendunack, n)) <= s
      BY <1>2, <1>8, <1>9, <1>10, <1>11
  <1> QED  BY <1>12 DEF n, l, a, q

MayOutput(t) == IsOpen(t) \/ t.state \in CONNINPROGRESS \/ (t.state = "CLOSED" /\ t.sock /\ t.peer)

LEMMA OutputQueued ==
    ASSUME NEW c \in Roles, NEW t \in Tcbs, NEW s \in Nat, NEW g, NEW u, NEW k,
           Resting(t), Youth(c, t, s, g), Sending(c, t, s, u, k), Flushing(c, t, s, u, k),
           MayOutput(t), OutCount(t) > 0
    PROVE  /\ Queued(c, t, s, u, k)
           /\ IsOpen(t) \/ (t.state = "CLOSED" /\ t.sock /\ t.peer /\ Behind(t) /\ t.txbuf = <<>>)
  <1>1. CASE IsOpen(t)
    <2>1. t.state = "ESTABLISHED" \/ t.state = "CLOSE_WAIT"
        BY <1>1 DEF IsOpen, SEND_OK
    <2>2. MayAck(t) /\ t.peer
        BY <2>1 DEF MayAck, Resting
    <2>3. Len(t.txbuf) \in Nat /\ Off(c, t.sendunack) \in Nat
        BY BufferFacts, OffType DEF Tcbs
    <2>4. /\ s >= Len(t.txbuf)
          /\ Off(c, t.sendunack) = s - Len(t.txbuf)
          /\ Off(c, t.sendnext) <= s
          /\ \A j \in 1..Len(t.txbuf) : t.txbuf[j] = s - Len(t.txbuf) + j
          /\ IsAlive(u) => s - Len(t.txbuf) <= k
        BY <1>1 DEF Sending
    <2>5. Off(c, t.sendunack) + Len(t.txbuf) <= s
        BY <2>3, <2>4
    <2> QED  BY <1>1, <2>2, <2>4, <2>5 DEF Queued
  <1>2. CASE t.state \in CONNINPROGRESS
    <2>1. t.txbuf = <<>>
        BY <1>2 DEF Youth, IsYoung
    <2>2. OutCount(t) = 0
        BY <1>2, <2>1, YoungAreNotBehind, NothingToOutput
    <2> QED  BY <2>2
  <1>3. CASE t.state = "CLOSED" /\ t.sock /\ t.peer
    <2>1. t.txbuf = <<>>
        BY <1>3 DEF Resting
    <2>2. Behind(t)
        BY <2>1, NothingToOutput
    <2>3. MayAck(t)
        BY <1>3, <2>2 DEF MayAck
    <2>4. Off(c, t.sendunack) \in Nat /\ Len(t.txbuf) = 0
        BY <2>1, OffType, NoBytes DEF Tcbs
    <2>5. /\ Off(c, t.sendnext) <= s /\ Off(c, t.sendunack) <= s
          /\ IsAlive(u) => Off(c, t.sendunack) <= k
        BY <1>3, <2>2 DEF Flushing
    <2>6. Off(c, t.sendunack) + Len(t.txbuf) <= s
        BY <2>4, <2>5
    <2>7. \A j \in 1..Len(t.txbuf) : t.txbuf[j] = Off(c, t.sendunack) + j
        BY <2>4
    <2> QED  BY <1>3, <2>1, <2>2, <2>3, <2>5, <2>6, <2>7 DEF Queued
  <1> QED  BY <1>1, <1>2, <1>3 DEF MayOutput

LEMMA OutputWorld ==
    ASSUME NEW w, NEW h, World(w, h), MayOutput(h.t)
    PROVE  World(w, Output(h))
  <1> DEFINE t == h.t
             p == Output(h)
             x == p.t
             r == w.r + Len(t.rxbuf)
             K == w.J \cup Out(h)
  <1>1. /\ w.c \in Roles /\ w.r \in Nat /\ h \in Handlers /\ t \in Tcbs /\ w.s \in Nat
        /\ 2 * w.s < SeqSize
        /\ Whole(w.c, t, w.s, r, w.I, w.u, w.v, w.k, K) /\ r \in Nat
        /\ Resting(t) /\ Youth(w.c, t, w.s, r) /\ Stream(t, r, w.v)
        /\ Sending(w.c, t, w.s, w.u, w.k) /\ w.k \in Nat
        /\ Flushing(w.c, t, w.s, w.u, w.k)
      BY WorldParts
  <1>2. OutCount(t) \in Nat
      BY <1>1, OutputNumbers
  <1>3. CASE OutCount(t) = 0 \/ ~h.ebuf
    <2>1. p = h
        BY <1>1, <1>3, OutputFacts
    <2> QED  BY <2>1
  <1>4. CASE OutCount(t) > 0 /\ h.ebuf
    <2>1. /\ p \in Handlers /\ Kept(t, x) /\ x.txflags = t.txflags
          /\ \E q \in Seq(Segments) :
                   /\ p.out = h.out \o q /\ Len(q) = OutCount(t)
                   /\ \A i \in 1..OutCount(t) : q[i] = OutSegment(t, i)
          /\ x.sendnext = Plus(t.sendunack, Least(Unacked(t), OutAt(t, OutCount(t) + 1)))
          /\ x.retx /\ x.flags = t.flags \ {"DLYACK"}
        BY <1>1, <1>4, OutputFacts
    <2>2. PICK q \in Seq(Segments) :
                   /\ p.out = h.out \o q /\ Len(q) = OutCount(t)
                   /\ \A i \in 1..OutCount(t) : q[i] = OutSegment(t, i)
        BY <2>1
    <2>3. /\ Queued(w.c, t, w.s, w.u, w.k)
          /\ IsOpen(t) \/ (t.state = "CLOSED" /\ t.sock /\ t.peer /\ Behind(t) /\ t.txbuf = <<>>)
        BY <1>1, <1>4, OutputQueued
    <2> HIDE DEF p, x, r
    <2>4. \A i \in 1..OutCount(t) : /\ OutSegment(t, i) \in Segments
                                    /\ SendOk(w.c, t, w.s, w.u, w.k, OutSegment(t, i))
        BY <1>1, <2>3, PieceSendOk
    <2> DEFINE N == {q[i] : i \in 1..Len(q)}
    <2>5. N \in SUBSET Segments /\ \A y \in N : SendOk(w.c, t, w.s, w.u, w.k, y)
        BY <2>2, <2>4
    <2>6. Out(p) = Out(h) \cup N
      <3>1. h \in Handlers /\ q \in Seq(Segments) /\ p.out = h.out \o q
          BY <1>1, <2>2
      <3>2. \A g : \A s \in Seq(Segments) : g.out = h.out \o s
               => Out(g) = Out(h) \cup {s[i] : i \in 1..Len(s)}
          BY <3>1, OutFacts
      <3> HIDE DEF t, K
      <3> QED  BY <3>1, <3>2
    <2> HIDE DEF N
    <2>7. Whole(w.c, t, w.s, r, w.I, w.u, w.v, w.k, K \cup N)
        BY <1>1, <2>5, Sends
    <2>8. Off(w.c, x.sendnext) <= w.s
        BY <1>1, <1>4, <2>1, <2>3, NextOfOutput
    <2> HIDE DEF t
    <2>9. /\ x.state = t.state /\ x.sock = t.sock /\ x.peer = t.peer
          /\ x.rcvnext = t.rcvnext /\ x.rxbuf = t.rxbuf /\ x.txbuf = t.txbuf
          /\ x.sendunack = t.sendunack
        BY <2>1 DEF Kept
    <2>10. x \in Tcbs
        BY <2>1 DEF x, Handlers
    <2>11. Outer(t, x) /\ Stream(x, r, w.v) /\ Resting(x)
      <3>1. Outer(t, x)
          BY <2>9 DEF Outer
      <3>2. Stream(x, r, w.v)
          BY <1>1, <2>9 DEF Stream
      <3>3. t.flags = {} => x.flags = {}
          BY <2>1
      <3>4. Resting(x)
          BY <1>1, <2>1, <2>9, <3>3 DEF Resting, IsOpen
      <3> QED  BY <3>1, <3>2, <3>4
    <2>12. Sending(w.c, x, w.s, w.u, w.k)
        BY <1>1, <2>8, <2>9 DEF Sending, IsOpen
    <2>13. Timed(w.c, x)
        BY <2>1 DEF Timed
    <2>14. Flushing(w.c, x, w.s, w.u, w.k)
      <3>1. x.state = "CLOSED" => Behind(t) /\ t.sock /\ t.peer
          BY <2>3, <2>9 DEF IsOpen, SEND_OK
      <3>2. x.state = "CLOSED" => /\ Off(w.c, x.sendunack) <= w.s
                                  /\ IsAlive(w.u) => Off(w.c, x.sendunack) <= w.k
          BY <1>1, <2>9, <3>1 DEF Flushing
      <3> QED  BY <2>8, <3>2 DEF Flushing
    <2>15. Youth(w.c, x, w.s, r)
      <3>1. ~IsYoung(x) /\ x.state \notin {"LISTEN", "SYN_SENT", "SYN_RECEIVED"}
          BY <2>3, <2>9 DEF IsYoung, IsFresh, IsOpen, SEND_OK, CONNINPROGRESS
      <3> QED  BY <3>1 DEF Youth
    <2>16. /\ x.state = "CLOSED" /\ Behind(x) => Behind(t)
           /\ x.state # "LISTEN"
        BY <2>3, <2>9 DEF IsOpen, SEND_OK
    <2>17. Whole(w.c, x, w.s, r, w.I, w.u, w.v, w.k, K \cup N)
      <3>1. w.s >= w.s /\ ~(w.s > w.s)
          BY <1>1
      <3> HIDE DEF K
      <3> QED  BY <1>1, <2>7, <2>10, <2>11, <2>12, <2>13, <2>14, <2>15, <2>16, <3>1, Adjusts
    <2>18. Whole(w.c, x, w.s, r, w.I, w.u, w.v, w.k, w.J \cup Out(p))
      <3>1. K \cup N = w.J \cup Out(p)
          BY <2>6
      <3> QED  BY <2>17, <3>1
    <2>19. Whole(w.c, p.t, w.s, w.r + Len(p.t.rxbuf), w.I, w.u, w.v, w.k, w.J \cup Out(p))
        BY <2>9, <2>18 DEF r, x
    <2> QED  BY <1>1, <2>1, <2>19 DEF World, p
  <1> QED  BY <1>2, <1>3, <1>4

\* A call under way has kept World, and what Fits says since it began.
Goes(w, h, g) == World(w, g) /\ Fits(h, g)

LEMMA FitsItself == ASSUME NEW h \in Handlers PROVE Fits(h, h)
  BY DEF Fits

LEMMA GoesAgain ==
    ASSUME NEW w, NEW h, NEW g, NEW f, Goes(w, h, g), Goes(w, g, f)
    PROVE  Goes(w, h, f)
  <1>1. Fits(h, g) /\ Fits(g, f) /\ World(w, f)
      BY DEF Goes
  <1> QED  BY <1>1, FitsAgain DEF Goes

LEMMA OutputGoes ==
    ASSUME NEW w, NEW h, World(w, h), MayOutput(h.t)
    PROVE  Goes(w, h, Output(h))
  <1>1. h \in Handlers
      BY WorldParts
  <1> QED  BY <1>1, OutputWorld, OutputFits DEF Goes

LEMMA ProtosendGoes ==
    ASSUME NEW w, NEW h, NEW n, Renew(h, n), Calm(h.t) => Calm(n.t), World(w, n), MayControl(n.t)
    PROVE  Goes(w, h, Protosend(n))
  BY ProtosendWorld, SentFits DEF Goes

LEMMA SameGoes ==
    ASSUME NEW w, NEW h, World(w, h), NEW g, Renew(h, g), Same(h.t, g.t)
    PROVE  Goes(w, h, g)
  BY SameWorld, SameFits DEF Goes

LEMMA MovesWorld ==
    ASSUME NEW w, NEW h, World(w, h),
           h.t.state \in {"SYN_RECEIVED", "ESTABLISHED", "CLOSE_WAIT", "TIME_WAIT"} \cup CLOSINGSTATES,
           NEW n, Renew(h, n), Resting(n.t), n.t.rxbuf = h.t.rxbuf,
           n.t.state \in {"CLOSE_WAIT", "TIME_WAIT"} \cup CLOSINGSTATES,
           n.t.state = "CLOSE_WAIT" => /\ IsOpen(h.t) /\ n.t.sendunack = h.t.sendunack
                                       /\ n.t.sendnext = h.t.sendnext /\ n.t.txbuf = h.t.txbuf,
           IsTaking(n.t) => n.t.rcvnext = h.t.rcvnext /\ (IsTaking(h.t) \/ h.t.state = "SYN_RECEIVED"),
           n.t.rcvnext = h.t.rcvnext \/ ~IsTalking(w.u),
           IsTaking(n.t) \/ ~IsTalking(w.u)
    PROVE  World(w, n)
  <1>1. /\ w.c \in Roles
        /\ Whole(w.c, h.t, w.s, w.r + Len(h.t.rxbuf), w.I, w.u, w.v, w.k, w.J \cup Out(h))
      BY WorldParts
  <1>2. n.t \in Tcbs
      BY DEF Renew, Handlers
  <1>3. Whole(w.c, n.t, w.s, w.r + Len(h.t.rxbuf), w.I, w.u, w.v, w.k, w.J \cup Out(h))
      BY <1>1, <1>2, Moves
  <1> QED  BY <1>3, Renewed

LEMMA GoneWorld ==
    ASSUME NEW w, NEW h, World(w, h), NEW n, Gone(h, n)
    PROVE  World(w, n)
  <1>1. /\ w.c \in Roles /\ w.r \in Nat /\ Len(h.t.rxbuf) \in Nat
        /\ Whole(w.c, h.t, w.s, w.r + Len(h.t.rxbuf), w.I, w.u, w.v, w.k, w.J \cup Out(h))
      BY WorldParts
  <1>2. /\ Renew(h, n) /\ n.t.state = "FREE" /\ n.t.sock = FALSE /\ n.t.peer = FALSE
        /\ n.t.txbuf = <<>> /\ n.t.rxbuf = <<>> /\ n.t.flags = {}
      BY DEF Gone
  <1>3. n.t \in Tcbs
      BY <1>2 DEF Renew, Handlers
  <1>4. Len(n.t.rxbuf) = 0
      BY <1>2, NoBytes
  <1> DEFINE gx == w.r + Len(n.t.rxbuf)
  <1>5. gx \in Nat /\ gx <= w.r + Len(h.t.rxbuf)
      BY <1>1, <1>4
  <1> HIDE DEF gx
  <1>6. Whole(w.c, n.t, w.s, gx, w.I, w.u, w.v, w.k, w.J \cup Out(h))
    <2> DEFINE t == h.t
               x == n.t
               r == w.r + Len(t.rxbuf)
               K == w.J \cup Out(h)
    <2>1. /\ w.c \in Roles /\ x \in Tcbs /\ gx \in Nat /\ gx <= r
          /\ Whole(w.c, t, w.s, r, w.I, w.u, w.v, w.k, K)
          /\ x.state = "FREE" /\ x.sock = FALSE /\ x.peer = FALSE
          /\ x.txbuf = <<>> /\ x.rxbuf = <<>> /\ x.flags = {}
        BY <1>1, <1>2, <1>3, <1>5
    <2> HIDE DEF t, x, r, K
    <2>2. Whole(w.c, x, w.s, gx, w.I, w.u, w.v, w.k, K)
        BY <2>1, Frees
    <2> QED  BY <2>2 DEF x, K
  <1> QED  BY <1>2, <1>6, Renewed DEF gx

LEMMA GoneFits == ASSUME NEW h, NEW n, Gone(h, n) PROVE Fits(h, n)
  <1>1. n \in Handlers /\ n.ebuf = h.ebuf /\ n.t.flags = {} /\ n.t.state \notin RECV_OK
      BY DEF Gone, Renew, RECV_OK
  <1> QED  BY <1>1, EmptyFits

LEMMA GoneGoes ==
    ASSUME NEW w, NEW h, World(w, h), NEW n, Gone(h, n)
    PROVE  Goes(w, h, n)
  BY GoneWorld, GoneFits DEF Goes

-----------------------------------------------------------------------------
(* _tcp_close, on a socket that has been connected or listens              *)

LEMMA EndingGoes ==
    ASSUME NEW w, NEW q, World(w, q), NEW s \in {"FINWAIT_1", "LAST_ACK"},
           s = "FINWAIT_1" => q.t.state \in {"SYN_RECEIVED", "ESTABLISHED"},
           s = "LAST_ACK" => q.t.state = "CLOSE_WAIT",
           NEW n, Ending(q, n, s)
    PROVE  Goes(w, q, Protosend(n))
  <1>1. /\ Renew(q, n) /\ n.t.state = s /\ n.t.sock = FALSE /\ n.t.peer = q.t.peer
        /\ n.t.rcvnext = q.t.rcvnext /\ n.t.rxbuf = q.t.rxbuf
        /\ n.t.txflags = {"ACK", "FIN"} /\ n.t.flags = q.t.flags
      BY DEF Ending
  <1>2. Resting(q.t) /\ Fins(q.t, w.I, w.u)
      BY WorldParts
  <1>3. q.t.state \in {"SYN_RECEIVED", "ESTABLISHED", "CLOSE_WAIT"}
      OBVIOUS
  <1>4. q.t.peer
      BY <1>2, <1>3 DEF Resting
  <1>5. Resting(n.t)
      BY <1>1, <1>4 DEF Resting, IsOpen, SEND_OK, CONNINPROGRESS
  <1>6. s = "LAST_ACK" => ~IsTalking(w.u)
      BY <1>2 DEF Fins
  <1>7. /\ n.t.state \in {"CLOSE_WAIT", "TIME_WAIT"} \cup CLOSINGSTATES
        /\ n.t.state # "CLOSE_WAIT"
      BY <1>1 DEF CLOSINGSTATES
  <1>8. IsTaking(n.t) => n.t.rcvnext = q.t.rcvnext /\ (IsTaking(q.t) \/ q.t.state = "SYN_RECEIVED")
      BY <1>1 DEF IsTaking
  <1>9. IsTaking(n.t) \/ ~IsTalking(w.u)
      BY <1>1, <1>6 DEF IsTaking
  <1>10. World(w, n)
       BY <1>1, <1>3, <1>5, <1>7, <1>8, <1>9, MovesWorld
  <1>11. MayControl(n.t) /\ (Calm(q.t) => Calm(n.t))
       BY <1>1 DEF MayControl, Calm
  <1> QED  BY <1>1, <1>10, <1>11, ProtosendGoes

LEMMA CloseGoes ==
    ASSUME NEW w, NEW h, World(w, h), h.t.sock, ~IsFresh(h.t)
    PROVE  Goes(w, h, Close(h))
  <1> DEFINE q == Output(h)
  <1>1. h \in Handlers /\ h.t \in Tcbs /\ Resting(h.t)
      BY WorldParts
  <1>2. /\ h.t.state \in {"CLOSED", "LISTEN", "SYN_SENT", "SYN_RECEIVED", "ESTABLISHED", "CLOSE_WAIT"}
        /\ h.t.state = "CLOSED" => h.t.peer
    <2>1. h.t.state \in States
        BY <1>1 DEF Tcbs
    <2> QED  BY <1>1, <2>1 DEF Resting, IsFresh, States, CONNINPROGRESS, RESETKEEPALIVE, SEND_OK
  <1>3. MayOutput(h.t)
      BY <1>2 DEF MayOutput, IsOpen, SEND_OK, CONNINPROGRESS
  <1>4. Goes(w, h, q)
      BY <1>3, OutputGoes
  <1>5. q.t.state = h.t.state
      BY <1>1, OutputFits DEF Kept
  <1>6. /\ h.t.state \in {"SYN_RECEIVED", "ESTABLISHED"} =>
              \E n : Ending(q, n, "FINWAIT_1") /\ Close(h) = Protosend(n)
        /\ h.t.state = "CLOSE_WAIT" =>
              \E n : Ending(q, n, "LAST_ACK") /\ Close(h) = Protosend(n)
        /\ h.t.state \in {"CLOSED", "LISTEN", "SYN_SENT"} => Gone(q, Close(h))
      BY <1>1, CloseFacts
  <1> HIDE DEF q
  <1>7. World(w, q)
      BY <1>4 DEF Goes
  <1>8. Goes(w, q, Close(h))
    <2>1. CASE h.t.state \in {"SYN_RECEIVED", "ESTABLISHED"}
      <3>1. PICK n : Ending(q, n, "FINWAIT_1") /\ Close(h) = Protosend(n)
          BY <1>6, <2>1
      <3>2. Goes(w, q, Protosend(n))
          BY <1>5, <1>7, <2>1, <3>1, EndingGoes
      <3> QED  BY <3>1, <3>2
    <2>2. CASE h.t.state = "CLOSE_WAIT"
      <3>1. PICK n : Ending(q, n, "LAST_ACK") /\ Close(h) = Protosend(n)
          BY <1>6, <2>2
      <3>2. Goes(w, q, Protosend(n))
          BY <1>5, <1>7, <2>2, <3>1, EndingGoes
      <3> QED  BY <3>1, <3>2
    <2>3. CASE h.t.state \in {"CLOSED", "LISTEN", "SYN_SENT"}
        BY <1>6, <1>7, <2>3, GoneGoes
    <2> QED  BY <1>2, <2>1, <2>2, <2>3
  <1> QED  BY <1>4, <1>8, GoesAgain

-----------------------------------------------------------------------------
(* _tcp_connect and _tcp_listen, on a new socket                           *)

LEMMA ConnectGoes ==
    ASSUME NEW w, NEW h, World(w, h), IsFresh(h.t), w.c = "caller"
    PROVE  Goes(w, h, Connect(h, Iss))
  <1>1. /\ h \in Handlers /\ Resting(h.t) /\ w.c \in Roles /\ w.r \in Nat
        /\ Whole(w.c, h.t, w.s, w.r + Len(h.t.rxbuf), w.I, w.u, w.v, w.k, w.J \cup Out(h))
        /\ Youth(w.c, h.t, w.s, w.r + Len(h.t.rxbuf))
      BY WorldParts
  <1>2. h.t.flags = {} /\ h.t.rxbuf = <<>>
      BY <1>1 DEF Resting, IsFresh
  <1>3. Iss \in SeqNum
      BY BoundsAssumption DEF SeqNum
  <1>4. /\ \E n : /\ Renew(h, n) /\ Connect(h, Iss) = Protosend(n)
                  /\ n.t.state = "SYN_SENT" /\ n.t.peer = TRUE /\ n.t.txflags = {"SYN"}
                  /\ n.t.sendunack = Iss /\ n.t.sendnext = Iss /\ n.t.flags = {}
                  /\ n.t.txbuf = <<>> /\ n.t.rxbuf = <<>>
        /\ Fits(h, Connect(h, Iss))
      BY <1>1, <1>2, <1>3, ConnectFacts
  <1>5. PICK n : /\ Renew(h, n) /\ Connect(h, Iss) = Protosend(n)
                 /\ n.t.state = "SYN_SENT" /\ n.t.peer = TRUE /\ n.t.txflags = {"SYN"}
                 /\ n.t.sendunack = Iss /\ n.t.sendnext = Iss /\ n.t.flags = {}
                 /\ n.t.txbuf = <<>> /\ n.t.rxbuf = <<>>
      BY <1>4
  <1>6. n.t \in Tcbs
      BY <1>5 DEF Renew, Handlers
  <1>7. Resting(n.t)
      BY <1>5 DEF Resting, IsOpen, SEND_OK, CLOSINGSTATES
  <1>8. Whole(w.c, n.t, w.s, w.r + Len(h.t.rxbuf), w.I, w.u, w.v, w.k, w.J \cup Out(h))
      BY <1>1, <1>5, <1>6, <1>7, Calls
  <1>9. n.t.rxbuf = h.t.rxbuf
      BY <1>2, <1>5
  <1>10. World(w, n)
      BY <1>5, <1>8, <1>9, Renewed
  <1>11. MayControl(n.t)
      BY <1>5 DEF MayControl
  <1> QED  BY <1>4, <1>5, <1>10, <1>11, ProtosendWorld DEF Goes

LEMMA ListenGoes ==
    ASSUME NEW w, NEW h, World(w, h), IsFresh(h.t), w.c = "listener"
    PROVE  Goes(w, h, Listen(h))
  <1> DEFINE n == Listen(h)
  <1>1. /\ h \in Handlers /\ Resting(h.t) /\ w.c \in Roles /\ w.r \in Nat
        /\ Whole(w.c, h.t, w.s, w.r + Len(h.t.rxbuf), w.I, w.u, w.v, w.k, w.J \cup Out(h))
      BY WorldParts
  <1>2. h.t.flags = {} /\ h.t.rxbuf = <<>> /\ ~h.t.peer
      BY <1>1 DEF Resting, IsFresh
  <1>3. /\ Renew(h, n) /\ Fits(h, n)
        /\ n.t.state = "LISTEN" /\ n.t.peer = h.t.peer /\ n.t.sock = h.t.sock
        /\ n.t.sendunack = 0 /\ n.t.sendnext = 0 /\ n.t.flags = {}
        /\ n.t.txbuf = <<>> /\ n.t.rxbuf = <<>>
      BY <1>1, <1>2, ListenFacts
  <1> HIDE DEF n
  <1>4. n.t \in Tcbs
      BY <1>3 DEF Renew, Handlers
  <1>5. Resting(n.t)
      BY <1>3 DEF Resting, IsOpen, SEND_OK, CLOSINGSTATES
  <1>6. Whole(w.c, n.t, w.s, w.r + Len(h.t.rxbuf), w.I, w.u, w.v, w.k, w.J \cup Out(h))
      BY <1>1, <1>2, <1>3, <1>4, <1>5, Listens
  <1>7. n.t.rxbuf = h.t.rxbuf
      BY <1>2, <1>3
  <1> QED  BY <1>3, <1>6, <1>7, Renewed DEF Goes, n

-----------------------------------------------------------------------------
(* _tcp_send and _tcp_recv                                                 *)

\* Two worlds that differ in what the host has accepted or read only.
Beside(w, x) == /\ x.c = w.c /\ x.I = w.I /\ x.u = w.u /\ x.v = w.v /\ x.k = w.k /\ x.J = w.J

LEMMA SendGoes ==
    ASSUME NEW w, NEW h, World(w, h), IsOpen(h.t),
           NEW d \in Seq(Bytes), \A j \in 1..Len(d) : d[j] = w.s + j,
           NEW w2, Beside(w, w2), w2.r = w.r, w2.s = w.s + Len(Accepted(h.t, d)),
           2 * w2.s < SeqSize
    PROVE  Goes(w2, h, Send(h, d))
  <1> DEFINE t == h.t
             b == Accepted(t, d)
             r == w.r + Len(t.rxbuf)
             K == w.J \cup Out(h)
             L == Len(t.txbuf)
             n == Len(b)
  <1>1. /\ w.c \in Roles /\ w.r \in Nat /\ h \in Handlers /\ t \in Tcbs /\ w.s \in Nat
        /\ Whole(w.c, t, w.s, r, w.I, w.u, w.v, w.k, K) /\ r \in Nat
        /\ Resting(t) /\ Youth(w.c, t, w.s, r) /\ Stream(t, r, w.v)
        /\ Sending(w.c, t, w.s, w.u, w.k) /\ Timed(w.c, t)
      BY WorldParts
  <1>2. /\ b \in Seq(Bytes)
        /\ n \in Nat /\ n <= Len(d)
        /\ \A j \in 1..n : b[j] = d[j]
        /\ \E q : /\ Renew(h, q) /\ q.t.txbuf = h.t.txbuf \o b
                  /\ q.t.state = h.t.state /\ q.t.sock = h.t.sock /\ q.t.peer = h.t.peer
                  /\ q.t.sendunack = h.t.sendunack /\ q.t.sendnext = h.t.sendnext
                  /\ q.t.rcvnext = h.t.rcvnext /\ q.t.rcvack = h.t.rcvack
                  /\ q.t.rxbuf = h.t.rxbuf /\ q.t.retx = h.t.retx
                  /\ q.t.flags = h.t.flags /\ q.t.txflags = h.t.txflags
                  /\ Fits(h, q)
                  /\ Send(h, d) = IF h.t.txbuf = <<>> THEN Output(q) ELSE q
      BY <1>1, SendFacts
  <1>3. PICK q : /\ Renew(h, q) /\ q.t.txbuf = t.txbuf \o b
                 /\ q.t.state = t.state /\ q.t.sock = t.sock /\ q.t.peer = t.peer
                 /\ q.t.sendunack = t.sendunack /\ q.t.sendnext = t.sendnext
                 /\ q.t.rcvnext = t.rcvnext
                 /\ q.t.rxbuf = t.rxbuf /\ q.t.retx = t.retx
                 /\ q.t.flags = t.flags /\ q.t.txflags = t.txflags
                 /\ Fits(h, q)
                 /\ Send(h, d) = IF t.txbuf = <<>> THEN Output(q) ELSE q
      BY <1>2
  <1> DEFINE x == q.t
             sx == w.s + n
  <1>4. x \in Tcbs
      BY <1>3 DEF Renew, Handlers
  <1>5. w2.s = sx /\ 2 * sx < SeqSize /\ w2.r = w.r /\ IsOpen(t)
      OBVIOUS
  <1>6. \A j \in 1..n : b[j] = w.s + j
      BY <1>2
  <1> HIDE DEF b, n
  <1>7. t.txbuf \in Seq(Bytes) /\ L \in Nat
      BY <1>1, BufferFacts DEF Tcbs
  <1> HIDE DEF t
  <1>8. /\ Len(x.txbuf) = L + n
        /\ \A j \in 1..L + n : x.txbuf[j] = IF j <= L THEN t.txbuf[j] ELSE b[j - L]
    <2>1. x.txbuf = t.txbuf \o b
        BY <1>3
    <2> QED  BY <1>2, <1>7, <2>1, ConcatProperties DEF n
  <1> HIDE DEF L, x
  <1>9. sx \in Nat /\ sx >= w.s
      BY <1>1, <1>2
  <1>10. IsOpen(x) <=> IsOpen(t)
       BY <1>3 DEF IsOpen, x
  <1>11. Sending(w.c, x, sx, w.u, w.k)
    <2>1. /\ w.s >= L
          /\ Off(w.c, t.sendunack) = w.s - L
          /\ Off(w.c, t.sendnext) <= w.s
          /\ \A j \in 1..L : t.txbuf[j] = w.s - L + j
          /\ IsAlive(w.u) => w.s - L <= w.k
        BY <1>1, <1>5 DEF Sending, L
    <2>2. sx >= L + n /\ sx - (L + n) = w.s - L
      <3>1. w.s \in Nat /\ L \in Nat /\ n \in Nat /\ w.s >= L
          BY <1>1, <1>2, <1>7, <2>1
      <3> QED  BY <3>1
    <2>3. x.sendunack = t.sendunack /\ x.sendnext = t.sendnext
        BY <1>3 DEF x
    <2>4. Off(w.c, t.sendnext) <= sx
      <3>1. Off(w.c, t.sendnext) \in Nat
          BY <1>1, OffType DEF Tcbs
      <3> QED  BY <1>1, <1>9, <2>1, <3>1
    <2>5. ASSUME NEW j \in 1 .. L + n
          PROVE  x.txbuf[j] = sx - (L + n) + j
      <3>1. CASE j <= L
        <4>0. L \in Nat /\ n \in Nat /\ w.s \in Nat
            BY <1>1, <1>2, <1>7
        <4>1. j \in 1..L
            BY <3>1, <4>0
        <4>2. x.txbuf[j] = t.txbuf[j]
            BY <1>8, <3>1
        <4>3. t.txbuf[j] = w.s - L + j
            BY <2>1, <4>1
        <4> QED  BY <2>2, <4>2, <4>3
      <3>2. CASE ~(j <= L)
        <4>1. j - L \in 1..n
            BY <1>2, <1>7, <3>2
        <4>2. x.txbuf[j] = w.s + (j - L)
            BY <1>6, <1>8, <3>2, <4>1
        <4> QED
          <5>1. L \in Nat /\ n \in Nat /\ w.s \in Nat /\ sx \in Nat
              BY <1>1, <1>2, <1>7, <1>9
          <5> QED  BY <2>2, <4>2, <5>1
      <3> QED  BY <3>1, <3>2
    <2> QED  BY <1>8, <2>1, <2>2, <2>3, <2>4, <2>5 DEF Sending
  <1> HIDE DEF sx, r, K
  <1>12. /\ x.state = t.state /\ x.sock = t.sock /\ x.peer = t.peer /\ x.rcvnext = t.rcvnext
         /\ x.sendnext = t.sendnext /\ x.sendunack = t.sendunack /\ x.retx = t.retx
         /\ x.rxbuf = t.rxbuf /\ x.flags = t.flags /\ x.txflags = t.txflags
       BY <1>3 DEF x
  <1>13. Outer(t, x) /\ Stream(x, r, w.v) /\ Timed(w.c, x)
    <2>1. Outer(t, x)
        BY <1>12 DEF Outer
    <2>2. Stream(x, r, w.v)
        BY <1>1, <1>12 DEF Stream
    <2>3. Timed(w.c, x)
        BY <1>1, <1>12 DEF Timed
    <2> QED  BY <2>1, <2>2, <2>3
  <1>14. x.state \in {"ESTABLISHED", "CLOSE_WAIT"}
       BY <1>5, <1>10 DEF IsOpen, SEND_OK
  <1>15. Resting(x)
       BY <1>1, <1>12, <1>14 DEF Resting, IsOpen, SEND_OK, CLOSINGSTATES, CONNINPROGRESS
  <1>16. Youth(w.c, x, sx, r) /\ Flushing(w.c, x, sx, w.u, w.k)
       BY <1>14 DEF Youth, Flushing, IsYoung, IsFresh, CONNINPROGRESS
  <1>17. x.state # "CLOSED" /\ x.state # "LISTEN" /\ x \in Tcbs
       BY <1>4, <1>14 DEF x
  <1>18. Whole(w.c, x, sx, r, w.I, w.u, w.v, w.k, K)
       BY <1>1, <1>5, <1>9, <1>11, <1>13, <1>15, <1>16, <1>17, Adjusts
  <1>19. World(w2, q)
    <2>1. w2.r + Len(x.rxbuf) = r
        BY <1>5, <1>12 DEF r
    <2>2. Whole(w2.c, x, w2.s, w2.r + Len(x.rxbuf), w2.I, w2.u, w2.v, w2.k, w2.J \cup Out(h))
        BY <1>5, <1>18, <2>1 DEF Beside, K
    <2>3. q \in Handlers /\ Out(q) = Out(h)
        BY <1>1, <1>3, OutFacts DEF Renew
    <2>4. w2.c \in Roles /\ w2.r \in Nat
        BY <1>1, <1>5 DEF Beside
    <2> QED  BY <2>2, <2>3, <2>4 DEF World, x
  <1>20. CASE t.txbuf = <<>>
    <2>1. Send(h, d) = Output(q)
        BY <1>3, <1>20
    <2>2. MayOutput(q.t)
        BY <1>5, <1>10 DEF MayOutput, x
    <2>3. Goes(w2, q, Output(q))
        BY <1>19, <2>2, OutputGoes
    <2>4. Goes(w2, h, q)
        BY <1>3, <1>19 DEF Goes
    <2> QED  BY <2>1, <2>3, <2>4, GoesAgain
  <1>21. CASE t.txbuf # <<>>
    <2>1. Send(h, d) = q
        BY <1>3, <1>21
    <2> QED  BY <1>3, <1>19, <2>1 DEF Goes
  <1> QED  BY <1>20, <1>21

LEMMA RecvGoes ==
    ASSUME NEW w, NEW h, World(w, h), h.t.state \in RECV_OK,
           NEW want \in 0 .. Len(h.t.rxbuf),
           NEW w2, Beside(w, w2), w2.r = w.r + want, w2.s = w.s
    PROVE  Goes(w2, h, Recv(h, want))
  <1> DEFINE t == h.t
             q == Recv(h, want)
             x == q.t
             r == w.r + Len(t.rxbuf)
             K == w.J \cup Out(h)
             L == Len(t.rxbuf)
  <1>1. /\ w.c \in Roles /\ w.r \in Nat /\ h \in Handlers /\ t \in Tcbs /\ w.s \in Nat
        /\ Whole(w.c, t, w.s, r, w.I, w.u, w.v, w.k, K) /\ r \in Nat /\ L \in Nat
        /\ Resting(t) /\ Youth(w.c, t, w.s, r) /\ Stream(t, r, w.v)
        /\ Sending(w.c, t, w.s, w.u, w.k) /\ Timed(w.c, t) /\ 2 * w.s < SeqSize
      BY WorldParts
  <1>2. /\ Renew(h, q) /\ Fits(h, q)
        /\ x.rxbuf = SubSeq(t.rxbuf, want + 1, Len(t.rxbuf))
        /\ x.state = t.state /\ x.sock = t.sock /\ x.peer = t.peer
        /\ x.sendunack = t.sendunack /\ x.sendnext = t.sendnext
        /\ x.rcvnext = t.rcvnext /\ x.rcvack = t.rcvack
        /\ x.txbuf = t.txbuf /\ x.retx = t.retx
        /\ x.flags = t.flags /\ x.txflags = t.txflags
      BY <1>1, RecvFacts
  <1> HIDE DEF q
  <1>3. x \in Tcbs
      BY <1>2 DEF Renew, Handlers
  <1>4. t.rxbuf \in Buffers /\ want \in 0 .. L /\ want \in Nat
      BY <1>1 DEF Tcbs
  <1>s. t.state \in {"ESTABLISHED", "CLOSE_WAIT"}
      BY DEF RECV_OK
  <1> HIDE DEF t, x
  <1>5. /\ Len(x.rxbuf) = L - want
        /\ \A j \in 1 .. L - want : x.rxbuf[j] = t.rxbuf[want + j]
      BY <1>2, <1>4, DropFront
  <1>6. Stream(x, r, w.v)
    <2>1. /\ L <= r /\ r <= w.v
          /\ \A j \in 1..L : t.rxbuf[j] = r - L + j
        BY <1>1 DEF Stream
    <2>2. L - want <= r
        BY <1>1, <1>4, <2>1
    <2>3. ASSUME NEW j \in 1 .. L - want
          PROVE  x.rxbuf[j] = r - (L - want) + j
      <3>1. want + j \in 1..L
          BY <1>1, <1>4
      <3>2. x.rxbuf[j] = r - L + (want + j)
          BY <1>5, <2>1, <3>1
      <3> QED  BY <1>1, <1>4, <3>2
    <2> QED  BY <1>5, <2>1, <2>2, <2>3 DEF Stream
  <1> HIDE DEF L, r, K
  <1>7. x.state \in {"ESTABLISHED", "CLOSE_WAIT"}
      BY <1>2, <1>s
  <1>8. Outer(t, x) /\ Timed(w.c, x)
    <2>1. Outer(t, x)
        BY <1>2 DEF Outer
    <2>2. Timed(w.c, x)
        BY <1>1, <1>2 DEF Timed
    <2> QED  BY <2>1, <2>2
  <1>9. Sending(w.c, x, w.s, w.u, w.k)
      BY <1>1, <1>2 DEF Sending, IsOpen
  <1>10. Resting(x)
       BY <1>1, <1>2, <1>7 DEF Resting, IsOpen, SEND_OK, CLOSINGSTATES, CONNINPROGRESS
  <1>11. Youth(w.c, x, w.s, r) /\ Flushing(w.c, x, w.s, w.u, w.k)
       BY <1>7 DEF Youth, Flushing, IsYoung, IsFresh, CONNINPROGRESS
  <1>12. x.state # "CLOSED" /\ x.state # "LISTEN" /\ w.s >= w.s /\ ~(w.s > w.s)
       BY <1>1, <1>7
  <1>13. Whole(w.c, x, w.s, r, w.I, w.u, w.v, w.k, K)
       BY <1>1, <1>3, <1>6, <1>8, <1>9, <1>10, <1>11, <1>12, Adjusts
  <1>14. World(w2, q)
    <2>1. w2.r + Len(x.rxbuf) = r
        BY <1>1, <1>4, <1>5 DEF r, L
    <2>2. Whole(w2.c, x, w2.s, w2.r + Len(x.rxbuf), w2.I, w2.u, w2.v, w2.k, w2.J \cup Out(h))
        BY <1>13, <2>1 DEF Beside, K
    <2>3. q \in Handlers /\ Out(q) = Out(h)
        BY <1>1, <1>2, OutFacts DEF Renew
    <2>4. w2.c \in Roles /\ w2.r \in Nat
        BY <1>1, <1>4 DEF Beside
    <2> QED  BY <2>2, <2>3, <2>4 DEF World, x
  <1> QED  BY <1>2, <1>14 DEF Goes, q

-----------------------------------------------------------------------------
(* The timers (_tcp_poll)                                                  *)

\* A control segment without SYN, in any state in which a flag can be set.
LEMMA TaggedGoes ==
    ASSUME NEW w, NEW h, World(w, h), NEW n, NEW f, Tagged(h, n, f),
           h.t.state \notin {"CLOSED", "FREE"} \cup CONNINPROGRESS,
           f \subseteq {"ACK", "FIN"}, IsOpen(h.t) => f = {"ACK"},
           h.t.state = "ESTABLISHED" /\ h.t.retx => n.t.retx
    PROVE  Goes(w, h, Protosend(n))
  <1>1. /\ Renew(h, n) /\ Kept(h.t, n.t) /\ n.t.txflags = f
        /\ n.t.flags \subseteq h.t.flags /\ n.t.sendnext = h.t.sendnext
      BY DEF Tagged
  <1>2. Resting(h.t) /\ h \in Handlers
      BY WorldParts
  <1>3. /\ n.t.state = h.t.state /\ n.t.sock = h.t.sock /\ n.t.peer = h.t.peer
      BY <1>1 DEF Kept
  <1>4. h.t.state # "SYN_SENT" /\ h.t.state # "SYN_RECEIVED" /\ h.t.state # "LISTEN"
      BY DEF CONNINPROGRESS
  <1>5. Resting(n.t)
      BY <1>1, <1>2, <1>3, <1>4 DEF Resting, IsOpen
  <1>6. World(w, n)
      BY <1>1, <1>3, <1>5, RetagsWorld
  <1>7. MayControl(n.t)
      BY <1>3, <1>4 DEF MayControl
  <1>8. Fits(h, Protosend(n))
      BY <1>2, TaggedFits
  <1> QED  BY <1>6, <1>7, <1>8, ProtosendWorld DEF Goes

LEMMA FasttimoGoes ==
    ASSUME NEW w, NEW h, World(w, h)
    PROVE  Goes(w, h, Fasttimo(h)) /\ Fasttimo(h).t.state = h.t.state
  <1>1. h \in Handlers /\ Resting(h.t)
      BY WorldParts
  <1>2. /\ "DLYACK" \notin h.t.flags => Fasttimo(h) = h
        /\ "DLYACK" \in h.t.flags =>
              \E n : /\ Tagged(h, n, {"ACK"}) /\ n.t.retx = h.t.retx
                     /\ Fasttimo(h) = Protosend(n)
      BY <1>1, FasttimoFacts
  <1>3. CASE "DLYACK" \notin h.t.flags
      BY <1>1, <1>2, <1>3, FitsItself DEF Goes
  <1>4. CASE "DLYACK" \in h.t.flags
    <2>1. PICK n : /\ Tagged(h, n, {"ACK"}) /\ n.t.retx = h.t.retx
                   /\ Fasttimo(h) = Protosend(n)
        BY <1>2, <1>4
    <2>2. h.t.state \notin {"CLOSED", "FREE"} \cup CONNINPROGRESS
        BY <1>1, <1>4 DEF Resting
    <2> DEFINE f == {"ACK"}
    <2>3. f \subseteq {"ACK", "FIN"} /\ f = {"ACK"} /\ Tagged(h, n, f)
        BY <2>1
    <2> HIDE DEF f
    <2>4. Goes(w, h, Protosend(n))
        BY <2>1, <2>2, <2>3, TaggedGoes
    <2>5. Protosend(n).t.state = h.t.state
        BY <1>1, <2>3, TaggedFits
    <2> QED  BY <2>1, <2>4, <2>5
  <1> QED  BY <1>3, <1>4

\* sendnext goes back to the first unacknowledged byte.
LEMMA RewindWorld ==
    ASSUME NEW w, NEW h, World(w, h), h.t.state \in {"ESTABLISHED", "SYN_SENT"}
    PROVE  /\ World(w, RewindToUnacked(h)) /\ Fits(h, RewindToUnacked(h))
           /\ Renew(h, RewindToUnacked(h))
           /\ RewindToUnacked(h).t.state = h.t.state
           /\ h.t.state = "SYN_SENT" => RewindToUnacked(h).t.sendnext = Iss
  <1> DEFINE t == h.t
             g == RewindToUnacked(h)
             x == g.t
             r == w.r + Len(t.rxbuf)
             K == w.J \cup Out(h)
  <1>1. /\ w.c \in Roles /\ w.r \in Nat /\ h \in Handlers /\ t \in Tcbs /\ w.s \in Nat
        /\ Whole(w.c, t, w.s, r, w.I, w.u, w.v, w.k, K) /\ r \in Nat
        /\ Resting(t) /\ Youth(w.c, t, w.s, r) /\ Stream(t, r, w.v)
        /\ Sending(w.c, t, w.s, w.u, w.k) /\ 2 * w.s < SeqSize
      BY WorldParts
  <1>2. /\ Renew(h, g) /\ Kept(t, x) /\ x.sendnext = t.sendunack /\ x.retx = TRUE
        /\ x.flags = t.flags /\ x.txflags = t.txflags /\ x.rcvack = t.rcvack
      BY <1>1, RewindFacts
  <1> HIDE DEF g
  <1>3. x \in Tcbs
      BY <1>2 DEF Renew, Handlers
  <1>4. t.state \in {"ESTABLISHED", "SYN_SENT"}
      OBVIOUS
  <1> HIDE DEF t, x, r, K
  <1>5. /\ x.state = t.state /\ x.sock = t.sock /\ x.peer = t.peer /\ x.rcvnext = t.rcvnext
        /\ x.sendunack = t.sendunack /\ x.txbuf = t.txbuf /\ x.rxbuf = t.rxbuf
      BY <1>2 DEF Kept
  <1>6. Outer(t, x) /\ Stream(x, r, w.v) /\ Resting(x)
    <2>1. Outer(t, x)
        BY <1>5 DEF Outer
    <2>2. Stream(x, r, w.v)
        BY <1>1, <1>5 DEF Stream
    <2>3. Resting(x)
        BY <1>1, <1>2, <1>5 DEF Resting, IsOpen
    <2> QED  BY <2>1, <2>2, <2>3
  <1>7. Sending(w.c, x, w.s, w.u, w.k)
    <2>1. Len(t.txbuf) \in Nat
        BY <1>1, BufferFacts DEF Tcbs
    <2> QED  BY <1>1, <1>2, <1>5, <2>1 DEF Sending, IsOpen
  <1>8. Timed(w.c, x)
      BY <1>2 DEF Timed
  <1>9. Youth(w.c, x, w.s, r) /\ Flushing(w.c, x, w.s, w.u, w.k)
    <2>1. IsYoung(x) <=> IsYoung(t)
        BY <1>4, <1>5 DEF IsYoung, IsFresh
    <2>2. t.state = "SYN_SENT" => t.sendunack = Iss
        BY <1>1 DEF Youth
    <2>3. Youth(w.c, x, w.s, r)
        BY <1>1, <1>2, <1>4, <1>5, <2>1, <2>2 DEF Youth
    <2>4. Flushing(w.c, x, w.s, w.u, w.k)
        BY <1>4, <1>5 DEF Flushing
    <2> QED  BY <2>3, <2>4
  <1>10. x.state # "CLOSED" /\ x.state # "LISTEN" /\ w.s >= w.s /\ ~(w.s > w.s)
       BY <1>1, <1>4, <1>5
  <1>11. Whole(w.c, x, w.s, r, w.I, w.u, w.v, w.k, K)
       BY <1>1, <1>3, <1>6, <1>7, <1>8, <1>9, <1>10, Adjusts
  <1>12. World(w, g)
       BY <1>2, <1>5, <1>11, Renewed DEF r, t, x, K
  <1>13. Fits(h, g)
    <2>1. Calm(t) => Calm(x)
        BY <1>2 DEF Calm
    <2>2. Owed(t) => Owed(x)
        BY <1>2, <1>5 DEF Owed
    <2> QED  BY <1>2, <2>1, <2>2 DEF Fits, Renew, t, x
  <1>14. t.state = "SYN_SENT" => x.sendnext = Iss
       BY <1>1, <1>2 DEF Youth
  <1> QED  BY <1>2, <1>5, <1>12, <1>13, <1>14 DEF g, t, x

LEMMA RetxExpiredGoes ==
    ASSUME NEW w, NEW h, World(w, h)
    PROVE  Goes(w, h, RetxExpired(h)) /\ RetxExpired(h).t.state = h.t.state
  <1> DEFINE m == RewindToUnacked(h)
  <1>1. h \in Handlers /\ Resting(h.t)
      BY WorldParts
  <1>2. /\ h.t.state = "ESTABLISHED" => RetxExpired(h) = Output(m)
        /\ h.t.state = "SYN_SENT" => RetxExpired(h) = Protosend(m)
        /\ h.t.state \notin {"ESTABLISHED", "SYN_SENT"} => RetxExpired(h) = [h EXCEPT !.t.retx = FALSE]
      BY DEF RetxExpired
  <1>3. h.t.state \in {"ESTABLISHED", "SYN_SENT"} =>
           /\ World(w, m) /\ Fits(h, m) /\ Renew(h, m)
           /\ m.t.state = h.t.state
           /\ h.t.state = "SYN_SENT" => m.t.sendnext = Iss
      BY RewindWorld
  <1> HIDE DEF m
  <1>4. CASE h.t.state = "ESTABLISHED"
    <2>1. MayOutput(m.t)
        BY <1>3, <1>4 DEF MayOutput, IsOpen, SEND_OK
    <2>2. Goes(w, m, Output(m))
        BY <1>3, <1>4, <2>1, OutputGoes
    <2>3. Goes(w, h, m)
        BY <1>3, <1>4 DEF Goes
    <2>4. Output(m).t.state = m.t.state
      <3>1. m \in Handlers
          BY <1>3, <1>4 DEF Renew
      <3> QED  BY <3>1, OutputFits DEF Kept
    <2> QED  BY <1>2, <1>3, <1>4, <2>2, <2>3, <2>4, GoesAgain
  <1>5. CASE h.t.state = "SYN_SENT"
    <2>1. MayControl(m.t)
        BY <1>3, <1>5 DEF MayControl
    <2>2. Calm(h.t) => Calm(m.t)
        BY <1>3, <1>5 DEF Fits
    <2>3. Goes(w, h, Protosend(m)) /\ Protosend(m).t.state = m.t.state
        BY <1>3, <1>5, <2>1, <2>2, ProtosendGoes, SentFits
    <2> QED  BY <1>2, <1>3, <1>5, <2>3
  <1>6. CASE h.t.state \notin {"ESTABLISHED", "SYN_SENT"}
    <2> DEFINE g == [h EXCEPT !.t.retx = FALSE]
    <2>1. /\ Renew(h, g) /\ Kept(h.t, g.t) /\ g.t.sendnext = h.t.sendnext
          /\ g.t.flags = h.t.flags /\ g.t.txflags = h.t.txflags /\ g.t.rcvack = h.t.rcvack
        BY <1>1, UntimedFacts
    <2>2. RetxExpired(h) = g
        BY <1>2, <1>6
    <2> HIDE DEF g
    <2>3. /\ g.t.state = h.t.state /\ g.t.sock = h.t.sock /\ g.t.peer = h.t.peer
          /\ g.t.txbuf = h.t.txbuf /\ g.t.rxbuf = h.t.rxbuf /\ g.t.rcvnext = h.t.rcvnext
        BY <2>1 DEF Kept
    <2>4. Resting(g.t)
        BY <1>1, <2>1, <2>3 DEF Resting, IsOpen
    <2>5. World(w, g)
        BY <1>6, <2>1, <2>3, <2>4, RetagsWorld
    <2>6. Fits(h, g)
      <3>1. Calm(h.t) => Calm(g.t)
          BY <2>1 DEF Calm
      <3>2. Owed(h.t) => Owed(g.t)
          BY <2>1, <2>3 DEF Owed
      <3> QED  BY <2>1, <3>1, <3>2 DEF Fits, Renew
    <2> QED  BY <2>2, <2>3, <2>5, <2>6 DEF Goes
  <1> QED  BY <1>4, <1>5, <1>6

\* Block x is block t with its connection closed.
ClosedFrom(t, x) ==
    /\ x.state = "CLOSED" /\ x.txbuf = <<>> /\ x.rxbuf = <<>> /\ x.flags = {}
    /\ x.sock = t.sock /\ x.peer = t.peer
    /\ x.sendunack = t.sendunack /\ x.sendnext = t.sendnext /\ x.rcvnext = t.rcvnext

LEMMA ClosedWorld ==
    ASSUME NEW w, NEW h, World(w, h), h.t.state # "FREE",
           NEW K, Whole(w.c, h.t, w.s, w.r + Len(h.t.rxbuf), w.I, w.u, w.v, w.k, K),
           NEW g \in Handlers, K = w.J \cup Out(g), ClosedFrom(h.t, g.t)
    PROVE  World(w, g)
  <1> DEFINE t == h.t
             x == g.t
             r == w.r + Len(t.rxbuf)
             gx == w.r + Len(x.rxbuf)
  <1>1. /\ w.c \in Roles /\ w.r \in Nat /\ Len(t.rxbuf) \in Nat
      BY WorldParts
  <1>2. Len(x.rxbuf) = 0
      BY NoBytes DEF ClosedFrom
  <1>3. gx \in Nat /\ gx <= r
      BY <1>1, <1>2
  <1>4. x \in Tcbs
      BY DEF Handlers
  <1> HIDE DEF gx, r
  <1>5. Whole(w.c, x, w.s, gx, w.I, w.u, w.v, w.k, K)
    <2>1. /\ Whole(w.c, t, w.s, r, w.I, w.u, w.v, w.k, K) /\ t.state # "FREE"
          /\ x.state = "CLOSED" /\ x.txbuf = <<>> /\ x.rxbuf = <<>> /\ x.flags = {}
          /\ x.sock = t.sock /\ x.peer = t.peer
          /\ x.sendunack = t.sendunack /\ x.sendnext = t.sendnext /\ x.rcvnext = t.rcvnext
        BY DEF r, ClosedFrom
    <2> HIDE DEF t, x
    <2> QED  BY <1>1, <1>3, <1>4, <2>1, Closes
  <1> QED  BY <1>1, <1>5 DEF World, gx

\* A RST may be sent in any state.
LEMMA RstSendOk ==
    ASSUME NEW c, NEW t, NEW s, NEW u, NEW k, NEW x \in Segments,
           x.flags = {"ACK", "RST"}, x.data = <<>>
    PROVE  SendOk(c, t, s, u, k, x)
  <1>1. "RST" \in x.flags /\ "SYN" \notin x.flags /\ "FIN" \notin x.flags
      OBVIOUS
  <1>2. ~IsAck(x)
      BY <1>1 DEF IsAck
  <1> QED  BY <1>1, <1>2 DEF SendOk

LEMMA AbortGoes ==
    ASSUME NEW w, NEW h, World(w, h), h.t.state # "FREE"
    PROVE  Goes(w, h, Aborttcb(h))
  <1> DEFINE g == Aborttcb(h)
             K == w.J \cup Out(h)
  <1>1. /\ w.c \in Roles /\ h \in Handlers
        /\ Whole(w.c, h.t, w.s, w.r + Len(h.t.rxbuf), w.I, w.u, w.v, w.k, K)
      BY WorldParts
  <1>2. /\ Fits(h, g)
        /\ g.t.state = "CLOSED" /\ g.t.txbuf = <<>> /\ g.t.rxbuf = <<>> /\ g.t.flags = {}
        /\ g.t.sock = h.t.sock /\ g.t.peer = h.t.peer
        /\ g.t.sendunack = h.t.sendunack /\ g.t.sendnext = h.t.sendnext
        /\ g.t.rcvnext = h.t.rcvnext
        /\ \/ g.out = h.out
           \/ \E seg \in Segments : /\ g.out = Append(h.out, seg)
                                    /\ seg.flags = {"ACK", "RST"} /\ seg.data = <<>>
      BY <1>1, AborttcbFacts
  <1> HIDE DEF g
  <1>3. g \in Handlers
      BY <1>2 DEF Fits
  <1>4. CASE g.out = h.out
    <2>1. Out(g) = Out(h)
        BY <1>1, <1>4, OutFacts
    <2>2. K = w.J \cup Out(g)
        BY <2>1
    <2> HIDE DEF K
    <2>3. World(w, g)
      <3>1. ClosedFrom(h.t, g.t)
          BY <1>2 DEF ClosedFrom
      <3> QED  BY <1>1, <1>3, <2>2, <3>1, ClosedWorld
    <2> QED  BY <1>2, <2>3 DEF Goes, g
  <1>5. ASSUME NEW seg \in Segments, g.out = Append(h.out, seg),
               seg.flags = {"ACK", "RST"}, seg.data = <<>>
        PROVE  Goes(w, h, g)
    <2>1. Out(g) = Out(h) \cup {seg}
        BY <1>1, <1>5, OutFacts
    <2>2. SendOk(w.c, h.t, w.s, w.u, w.k, seg)
        BY <1>5, RstSendOk
    <2> DEFINE N == {seg}
    <2>3. N \in SUBSET Segments /\ \A x \in N : SendOk(w.c, h.t, w.s, w.u, w.k, x)
        BY <2>2
    <2>4. K \cup N = w.J \cup Out(g)
        BY <2>1
    <2> HIDE DEF K, N
    <2>5. Whole(w.c, h.t, w.s, w.r + Len(h.t.rxbuf), w.I, w.u, w.v, w.k, K \cup N)
        BY <1>1, <2>3, Sends
    <2>6. World(w, g)
      <3>1. ClosedFrom(h.t, g.t)
          BY <1>2 DEF ClosedFrom
      <3> QED  BY <1>3, <2>4, <2>5, <3>1, ClosedWorld
    <2> QED  BY <1>2, <2>6 DEF Goes
  <1> QED  BY <1>2, <1>4, <1>5 DEF g

LEMMA KeepExpiredGoes ==
    ASSUME NEW w, NEW h, World(w, h)
    PROVE  Goes(w, h, KeepExpired(h))
  <1> DEFINE no == FALSE
             m == [h EXCEPT !.t.keep = no]
  <1>1. h \in Handlers
      BY WorldParts
  <1>2. KeepExpired(h) = IF h.t.state \in CONNINPROGRESS THEN Aborttcb(m) ELSE m
      BY DEF KeepExpired
  <1>3. Renew(h, m) /\ Same(h.t, m.t)
      BY <1>1, KeepMslSame
  <1> HIDE DEF m, no
  <1>4. Goes(w, h, m)
      BY <1>3, SameGoes
  <1>5. CASE h.t.state \in CONNINPROGRESS
    <2>1. m.t.state # "FREE" /\ World(w, m)
        BY <1>3, <1>4, <1>5 DEF Same, Kept, CONNINPROGRESS, Goes
    <2>2. Goes(w, m, Aborttcb(m))
        BY <2>1, AbortGoes
    <2> QED  BY <1>2, <1>4, <1>5, <2>2, GoesAgain
  <1> QED  BY <1>2, <1>4, <1>5

LEMMA MslExpiredGoes ==
    ASSUME NEW w, NEW h, World(w, h)
    PROVE  Goes(w, h, MslExpired(h))
  <1> DEFINE no == FALSE
             m == [h EXCEPT !.t.msl = no]
  <1>1. h \in Handlers
      BY WorldParts
  <1>2. MslExpired(h) = IF h.t.state = "TIME_WAIT" THEN Freetcb(Closetcb(m)) ELSE m
      BY DEF MslExpired
  <1>3. Renew(h, m) /\ Same(h.t, m.t)
      BY <1>1, KeepMslSame
  <1> HIDE DEF m, no
  <1>4. Goes(w, h, m)
      BY <1>3, SameGoes
  <1>5. CASE h.t.state = "TIME_WAIT"
    <2>1. World(w, m) /\ m \in Handlers
        BY <1>3, <1>4 DEF Goes, Renew
    <2>2. Gone(m, Freetcb(Closetcb(m)))
        BY <2>1, GoneFacts
    <2>3. Goes(w, m, Freetcb(Closetcb(m)))
        BY <2>1, <2>2, GoneGoes
    <2> QED  BY <1>2, <1>4, <1>5, <2>3, GoesAgain
  <1> QED  BY <1>2, <1>4, <1>5

LEMMA PollGoes ==
    ASSUME NEW w, NEW h, World(w, h), NEW expired
    PROVE  Goes(w, h, Poll(h, expired))
  <1> DEFINE fast == IF "fast" \in expired THEN Fasttimo(h) ELSE h
             retx == IF "retx" \in expired THEN RetxExpired(fast) ELSE fast
             keep == IF "keep" \in expired THEN KeepExpired(retx) ELSE retx
             g == IF "msl" \in expired /\ keep.t.msl THEN MslExpired(keep) ELSE keep
  <1>1. Poll(h, expired) = g
      BY DEF Poll
  <1>2. \A f : World(w, f) => Goes(w, f, f)
      BY WorldParts, FitsItself DEF Goes
  <1>3. Goes(w, h, fast)
      BY <1>2, FasttimoGoes
  <1> HIDE DEF fast
  <1>4. World(w, fast)
      BY <1>3 DEF Goes
  <1>5. Goes(w, fast, retx)
      BY <1>2, <1>4, RetxExpiredGoes
  <1> HIDE DEF retx
  <1>6. World(w, retx)
      BY <1>5 DEF Goes
  <1>7. Goes(w, retx, keep)
      BY <1>2, <1>6, KeepExpiredGoes
  <1> HIDE DEF keep
  <1>8. World(w, keep)
      BY <1>7 DEF Goes
  <1>9. Goes(w, keep, g)
      BY <1>2, <1>8, MslExpiredGoes
  <1> HIDE DEF g
  <1>10. Goes(w, h, retx)
      BY <1>3, <1>5, GoesAgain
  <1>11. Goes(w, h, keep)
      BY <1>7, <1>10, GoesAgain
  <1>12. Goes(w, h, g)
      BY <1>9, <1>11, GoesAgain
  <1> QED  BY <1>1, <1>12

-----------------------------------------------------------------------------
(* _tcp_rx_callback: RST, and the handshake                                *)

\* What a segment without RST may do to the state.
Arrow(t, x) == x.state = t.state \/ <<t.state, x.state>> \in SegmentArrows

LEMMA ResetGoes ==
    ASSUME NEW w, NEW h, World(w, h), h.t.state # "FREE",
           NEW seg \in Segments, "RST" \in seg.flags
    PROVE  Goes(w, h, RxCallback(h, seg))
  <1> DEFINE m == Live(h)
             g == RxCallback(h, seg)
  <1>1. h \in Handlers
      BY WorldParts
  <1>2. Renew(h, m) /\ Same(h.t, m.t)
      BY <1>1, LiveSame
  <1>3. g = IF h.t.state = "SYN_RECEIVED" THEN Setstate(m, "LISTEN") ELSE Closetcb(m)
      BY RxCallbackIs
  <1> HIDE DEF m, g
  <1>4. Goes(w, h, m)
      BY <1>2, SameGoes
  <1>5. World(w, m) /\ m \in Handlers /\ m.t.state = h.t.state
      BY <1>2, <1>4 DEF Goes, Same, Kept, Renew
  <1>6. /\ w.c \in Roles /\ Resting(m.t) /\ Youth(w.c, m.t, w.s, w.r + Len(m.t.rxbuf)) /\ m.t \in Tcbs
        /\ Whole(w.c, m.t, w.s, w.r + Len(m.t.rxbuf), w.I, w.u, w.v, w.k, w.J \cup Out(m))
      BY <1>5, WorldParts
  <1>7. CASE h.t.state = "SYN_RECEIVED"
    <2> DEFINE s == "LISTEN"
    <2>1. s \in States /\ s \notin RECV_OK
        BY DEF States, CONNINPROGRESS, RECV_OK
    <2>d. s = "LISTEN" /\ g = Setstate(m, s)
        BY <1>3, <1>7
    <2> HIDE DEF s
    <2>2. /\ g \in Handlers /\ g.ebuf = m.ebuf /\ g.out = m.out
          /\ g.t = [m.t EXCEPT !.state = s]
        BY <1>5, <2>1, <2>d, SetstateFacts
    <2>3. /\ g.t \in Tcbs /\ g.t.state = s /\ g.t.peer = m.t.peer /\ g.t.sendunack = m.t.sendunack
          /\ g.t.sendnext = m.t.sendnext /\ g.t.txbuf = m.t.txbuf /\ g.t.rxbuf = m.t.rxbuf
          /\ g.t.flags = m.t.flags
        BY <1>6, <2>1, <2>2 DEF Tcbs, Handlers
    <2>4. m.t.flags = {} /\ m.t.peer
        BY <1>5, <1>6, <1>7 DEF Resting, CONNINPROGRESS
    <2>5. Resting(g.t)
        BY <2>3, <2>4, <2>d DEF Resting, IsOpen, SEND_OK, CLOSINGSTATES
    <2>6. Whole(w.c, g.t, w.s, w.r + Len(m.t.rxbuf), w.I, w.u, w.v, w.k, w.J \cup Out(m))
      <3> DEFINE t == m.t
                 x == g.t
                 r == w.r + Len(t.rxbuf)
                 K == w.J \cup Out(m)
      <3>1. /\ w.c \in Roles /\ x \in Tcbs /\ Resting(x) /\ t.state = "SYN_RECEIVED"
            /\ x.state = "LISTEN" /\ x.peer /\ x.sendunack = t.sendunack
            /\ x.sendnext = t.sendnext /\ x.txbuf = t.txbuf /\ x.rxbuf = t.rxbuf
            /\ Whole(w.c, t, w.s, r, w.I, w.u, w.v, w.k, K)
          BY <1>5, <1>6, <1>7, <2>3, <2>4, <2>5, <2>d
      <3> HIDE DEF t, x, r, K
      <3>2. Whole(w.c, x, w.s, r, w.I, w.u, w.v, w.k, K)
          BY <3>1, Relistens
      <3> QED  BY <3>2 DEF x, r, K, t
    <2>7. Renew(m, g)
        BY <2>2 DEF Renew
    <2>8. World(w, g)
        BY <1>5, <2>3, <2>6, <2>7, Renewed
    <2>9. Fits(m, g)
        BY <2>1, <2>2, <2>3, OtherFits DEF Calm
    <2>10. Goes(w, m, g)
        BY <2>8, <2>9 DEF Goes
    <2> QED  BY <1>4, <2>10, GoesAgain DEF g
  <1>8. CASE h.t.state # "SYN_RECEIVED"
    <2>1. g = Closetcb(m)
        BY <1>3, <1>8
    <2>2. /\ g \in Handlers /\ g.ebuf = m.ebuf /\ g.out = m.out
          /\ g.t.state = "CLOSED" /\ g.t.txbuf = <<>> /\ g.t.rxbuf = <<>> /\ g.t.flags = {}
          /\ g.t.sock = m.t.sock /\ g.t.peer = m.t.peer
          /\ g.t.sendunack = m.t.sendunack /\ g.t.sendnext = m.t.sendnext
          /\ g.t.rcvnext = m.t.rcvnext
        BY <1>5, <2>1, ClosetcbFacts
    <2>3. Out(g) = Out(m)
        BY <1>5, <2>2, OutFacts
    <2> DEFINE K == w.J \cup Out(m)
    <2>4. Whole(w.c, m.t, w.s, w.r + Len(m.t.rxbuf), w.I, w.u, w.v, w.k, K) /\ K = w.J \cup Out(g)
        BY <1>6, <2>3
    <2>5. m.t.state # "FREE"
        BY <1>5
    <2> HIDE DEF K
    <2>6. World(w, g)
      <3>1. ClosedFrom(m.t, g.t) /\ g \in Handlers
          BY <2>2 DEF ClosedFrom
      <3> QED  BY <1>5, <2>4, <2>5, <3>1, ClosedWorld
    <2>7. Fits(m, g)
      <3>1. g.t.state \notin RECV_OK
          BY <2>2 DEF RECV_OK
      <3> QED  BY <2>2, <3>1, EmptyFits
    <2>8. Goes(w, m, g)
        BY <2>6, <2>7 DEF Goes
    <2> QED  BY <1>4, <2>8, GoesAgain DEF g
  <1> QED  BY <1>7, <1>8

LEMMA RxListenGoes ==
    ASSUME NEW w, NEW h, World(w, h), h.t.state = "LISTEN", 2 * (h.t.sendnext + 1) < SeqSize,
           NEW seg \in w.I, "RST" \notin seg.flags
    PROVE  Goes(w, h, RxListen(h, seg)) /\ Arrow(h.t, RxListen(h, seg).t)
  <1>1. /\ w.c \in Roles /\ Resting(h.t) /\ h.t \in Tcbs /\ h \in Handlers /\ w.I \subseteq Segments
        /\ Whole(w.c, h.t, w.s, w.r + Len(h.t.rxbuf), w.I, w.u, w.v, w.k, w.J \cup Out(h))
      BY WorldParts
  <1>2. seg \in Segments
      BY <1>1
  <1>3. CASE "SYN" \notin seg.flags
    <2>1. RxListen(h, seg) = h
        BY <1>3 DEF RxListen
    <2> QED  BY <1>1, <2>1, FitsItself DEF Goes, Arrow
  <1>4. CASE "SYN" \in seg.flags
    <2>1. PICK n : /\ Renew(h, n) /\ RxListen(h, seg) = Protosend(n)
                   /\ n.t.state = "SYN_RECEIVED" /\ n.t.peer = TRUE /\ n.t.sock = h.t.sock
                   /\ n.t.rcvnext = Plus(seg.seq, 1)
                   /\ n.t.sendunack = h.t.sendunack /\ n.t.sendnext = h.t.sendnext
                   /\ n.t.txbuf = h.t.txbuf /\ n.t.rxbuf = h.t.rxbuf
                   /\ n.t.txflags = {"SYN", "ACK"} /\ n.t.flags = h.t.flags
        BY <1>1, <1>2, <1>4, RxListenFacts
    <2>2. n.t \in Tcbs
        BY <2>1 DEF Renew, Handlers
    <2>3. n.t.flags = {}
        BY <1>1, <2>1 DEF Resting, CONNINPROGRESS
    <2>4. Resting(n.t)
        BY <2>1, <2>3 DEF Resting, IsOpen, SEND_OK, CLOSINGSTATES
    <2>5. Whole(w.c, n.t, w.s, w.r + Len(h.t.rxbuf), w.I, w.u, w.v, w.k, w.J \cup Out(h))
      <3> DEFINE t == h.t
                 x == n.t
                 r == w.r + Len(t.rxbuf)
                 K == w.J \cup Out(h)
      <3>1. /\ w.c \in Roles /\ x \in Tcbs /\ Resting(x) /\ t.state = "LISTEN"
            /\ x.state = "SYN_RECEIVED" /\ x.sock = t.sock /\ x.peer /\ x.rcvnext = Plus(seg.seq, 1)
            /\ x.sendunack = t.sendunack
            /\ x.sendnext = t.sendnext /\ x.txbuf = t.txbuf /\ x.rxbuf = t.rxbuf
            /\ Whole(w.c, t, w.s, r, w.I, w.u, w.v, w.k, K)
          BY <1>1, <2>1, <2>2, <2>4
      <3> HIDE DEF t, x, r, K
      <3>2. Whole(w.c, x, w.s, r, w.I, w.u, w.v, w.k, K)
          BY <1>4, <3>1, Answers
      <3> QED  BY <3>2 DEF x, r, K, t
    <2>6. World(w, n)
        BY <2>1, <2>5, Renewed
    <2>7. MayControl(n.t) /\ (Calm(h.t) => Calm(n.t))
        BY <2>1 DEF MayControl, Calm
    <2>8. Goes(w, h, Protosend(n)) /\ Protosend(n).t.state = n.t.state
        BY <2>1, <2>6, <2>7, ProtosendGoes, SentFits
    <2> QED  BY <2>1, <2>8 DEF Arrow, SegmentArrows
  <1> QED  BY <1>3, <1>4

LEMMA RxSynSentGoes ==
    ASSUME NEW w, NEW h, World(w, h), h.t.state = "SYN_SENT",
           NEW seg \in w.I, "RST" \notin seg.flags
    PROVE  Goes(w, h, RxSynSent(h, seg)) /\ Arrow(h.t, RxSynSent(h, seg).t)
  <1>1. /\ w.c \in Roles /\ Resting(h.t) /\ h.t \in Tcbs /\ h \in Handlers /\ w.I \subseteq Segments
        /\ Whole(w.c, h.t, w.s, w.r + Len(h.t.rxbuf), w.I, w.u, w.v, w.k, w.J \cup Out(h))
      BY WorldParts
  <1>2. seg \in Segments
      BY <1>1
  <1>3. CASE "SYN" \notin seg.flags
    <2>1. RxSynSent(h, seg) = h
        BY <1>3 DEF RxSynSent
    <2> QED  BY <1>1, <2>1, FitsItself DEF Goes, Arrow
  <1>4. CASE "SYN" \in seg.flags
    <2>a. "ACK" \in seg.flags /\ AcksOneMore(h.t, seg)
        BY <1>1, <1>4, SynAnswer
    <2>1. PICK n : /\ Renew(h, n) /\ RxSynSent(h, seg) = Protosend(n)
                   /\ n.t.state = "ESTABLISHED" /\ n.t.peer = h.t.peer /\ n.t.sock = h.t.sock
                   /\ n.t.sendunack = seg.ack /\ n.t.sendnext = seg.ack
                   /\ n.t.txbuf = h.t.txbuf /\ n.t.rxbuf = h.t.rxbuf
                   /\ n.t.txflags = {"ACK"} /\ n.t.flags = h.t.flags
        BY <1>1, <1>2, <1>4, <2>a, RxSynSentFacts
    <2>2. n.t \in Tcbs
        BY <2>1 DEF Renew, Handlers
    <2>3. n.t.flags = {} /\ n.t.peer
        BY <1>1, <2>1 DEF Resting, CONNINPROGRESS
    <2>4. Resting(n.t)
        BY <2>1, <2>3 DEF Resting, IsOpen, SEND_OK, CLOSINGSTATES
    <2>5. Whole(w.c, n.t, w.s, w.r + Len(h.t.rxbuf), w.I, w.u, w.v, w.k, w.J \cup Out(h))
      <3> DEFINE t == h.t
                 x == n.t
                 r == w.r + Len(t.rxbuf)
                 K == w.J \cup Out(h)
      <3>1. /\ w.c \in Roles /\ x \in Tcbs /\ Resting(x) /\ t.state = "SYN_SENT"
            /\ x.state = "ESTABLISHED" /\ x.sock = t.sock /\ x.peer = t.peer
            /\ x.sendunack = seg.ack
            /\ x.sendnext = seg.ack /\ x.txbuf = t.txbuf /\ x.rxbuf = t.rxbuf
            /\ Whole(w.c, t, w.s, r, w.I, w.u, w.v, w.k, K)
          BY <1>1, <2>1, <2>2, <2>4
      <3> HIDE DEF t, x, r, K
      <3>2. Whole(w.c, x, w.s, r, w.I, w.u, w.v, w.k, K)
          BY <1>4, <3>1, Opens
      <3> QED  BY <3>2 DEF x, r, K, t
    <2>6. World(w, n)
        BY <2>1, <2>5, Renewed
    <2>7. MayControl(n.t) /\ (Calm(h.t) => Calm(n.t))
        BY <2>1 DEF MayControl, Calm
    <2>8. Goes(w, h, Protosend(n)) /\ Protosend(n).t.state = n.t.state
        BY <2>1, <2>6, <2>7, ProtosendGoes, SentFits
    <2> QED  BY <2>1, <2>8 DEF Arrow, SegmentArrows
  <1> QED  BY <1>3, <1>4

\* A control segment that answers from SYN_RECEIVED.
LEMMA AnswerGoes ==
    ASSUME NEW w, NEW h, World(w, h), h.t.state = "SYN_RECEIVED",
           NEW f, f = {"ACK"} \/ (f = {"SYN", "ACK"} /\ 2 * (h.t.sendnext + 1) < SeqSize),
           NEW timer \in {"set", "clear"}
    PROVE  LET g == Sendctlmsg(h, f, timer) IN
           /\ Goes(w, h, g) /\ g.t.state = "SYN_RECEIVED" /\ g.t.sendunack = h.t.sendunack
           /\ g.ebuf = h.ebuf /\ g.t.flags \subseteq h.t.flags
           /\ h.ebuf => g.t.rcvack = g.t.rcvnext
  <1> DEFINE g == Sendctlmsg(h, f, timer)
  <1>1. f \in SUBSET HeaderFlags /\ timer \in {"set", "clear", "leave"}
      BY DEF HeaderFlags
  <1>2. h \in Handlers /\ Resting(h.t)
      BY WorldParts
  <1>3. PICK n : Poised(h, n, f, timer) /\ g = Protosend(n)
      BY <1>1, <1>2, SendctlmsgIs
  <1> HIDE DEF g
  <1>4. /\ Renew(h, n) /\ Kept(h.t, n.t) /\ n.t.txflags = f
        /\ n.t.flags = h.t.flags /\ n.t.sendnext = h.t.sendnext
      BY <1>3 DEF Poised
  <1>5. n.t.state = "SYN_RECEIVED" /\ n.t.sock = h.t.sock /\ n.t.peer = h.t.peer
      BY <1>4 DEF Kept
  <1>6. Resting(n.t)
      BY <1>2, <1>4, <1>5 DEF Resting, IsOpen, SEND_OK, CLOSINGSTATES
  <1>7. World(w, n)
      BY <1>4, <1>5, <1>6, RetagsWorld
  <1>8. MayControl(n.t) /\ (Calm(h.t) => Calm(n.t))
      BY <1>4, <1>5 DEF MayControl, Calm
  <1>9. Goes(w, h, g)
      BY <1>3, <1>4, <1>7, <1>8, ProtosendGoes
  <1>10. n \in Handlers /\ n.ebuf = h.ebuf
      BY <1>4 DEF Renew
  <1>11. /\ Kept(n.t, g.t) /\ g.ebuf = n.ebuf
         /\ ~n.ebuf => g = n
         /\ n.ebuf => g.t.flags = n.t.flags \ {"SENDMSG", "DLYACK"} /\ g.t.rcvack = n.t.rcvnext
       BY <1>3, <1>10, ProtosendFacts
  <1>12. g.t.state = "SYN_RECEIVED" /\ g.t.sendunack = h.t.sendunack /\ g.t.rcvnext = n.t.rcvnext
       BY <1>4, <1>5, <1>11 DEF Kept
  <1>13. g.t.flags \subseteq h.t.flags
       BY <1>4, <1>11
  <1> QED  BY <1>9, <1>10, <1>11, <1>12, <1>13 DEF g

LEMMA RxSynReceivedGoes ==
    ASSUME NEW w, NEW h, World(w, h), h.t.state = "SYN_RECEIVED", 2 * (h.t.sendnext + 1) < SeqSize,
           NEW seg \in w.I, "RST" \notin seg.flags
    PROVE  Goes(w, h, RxSynReceived(h, seg)) /\ Arrow(h.t, RxSynReceived(h, seg).t)
  <1> DEFINE a == SynAnswered(h, seg)
             b == SynAcked(h, seg)
             g == RxSynReceived(h, seg)
  <1>1. /\ Resting(h.t) /\ h \in Handlers /\ w.I \subseteq Segments
      BY WorldParts
  <1>2. seg \in Segments
      BY <1>1
  <1>3. /\ Goes(w, h, a) /\ a.t.state = "SYN_RECEIVED" /\ a.t.sendunack = h.t.sendunack
        /\ a.ebuf = h.ebuf /\ a.t.flags \subseteq h.t.flags
    <2>1. CASE "SYN" \notin seg.flags
      <3>1. a = h
          BY <2>1 DEF SynAnswered
      <3> QED  BY <1>1, <3>1, FitsItself DEF Goes
    <2>2. CASE "SYN" \in seg.flags
      <3> DEFINE f == {"SYN", "ACK"}  timer == "set"
      <3>1. a = Sendctlmsg(h, f, timer)
          BY <2>2 DEF SynAnswered
      <3>2. f = {"SYN", "ACK"} /\ timer \in {"set", "clear"}
          OBVIOUS
      <3> HIDE DEF f, timer, a
      <3> QED  BY <3>1, <3>2, AnswerGoes
    <2> QED  BY <2>1, <2>2
  <1>4. b = Sendctlmsg(a, {"ACK"}, "clear")
      BY DEF SynAcked
  <1>5. h.t.flags = {}
      BY <1>1 DEF Resting, CONNINPROGRESS
  <1> HIDE DEF a
  <1>6. World(w, a)
      BY <1>3 DEF Goes
  <1>7. /\ Goes(w, a, b) /\ b.t.state = "SYN_RECEIVED" /\ b.t.sendunack = a.t.sendunack
        /\ b.ebuf = a.ebuf /\ b.t.flags \subseteq a.t.flags
        /\ a.ebuf => b.t.rcvack = b.t.rcvnext
    <2> DEFINE f == {"ACK"}  timer == "clear"
    <2>1. b = Sendctlmsg(a, f, timer)
        BY <1>4
    <2>2. f = {"ACK"} /\ timer \in {"set", "clear"}
        OBVIOUS
    <2> HIDE DEF f, timer, b
    <2> QED  BY <1>3, <1>6, <2>1, <2>2, AnswerGoes
  <1> HIDE DEF b
  <1>8. World(w, b) /\ b \in Handlers
      BY <1>7, WorldParts DEF Goes
  <1>9. /\ ~("ACK" \in seg.flags /\ AcksOneMore(h.t, seg)) => g = a
        /\ "ACK" \in seg.flags /\ AcksOneMore(h.t, seg) =>
              /\ Renew(b, g) /\ g.t.state = "ESTABLISHED"
              /\ g.t.sock = b.t.sock /\ g.t.peer = b.t.peer
              /\ g.t.rcvnext = b.t.rcvnext /\ g.t.rcvack = b.t.rcvack
              /\ g.t.sendunack = seg.ack /\ g.t.sendnext = seg.ack
              /\ g.t.txbuf = b.t.txbuf /\ g.t.rxbuf = b.t.rxbuf
              /\ g.t.txflags = b.t.txflags /\ g.t.flags = b.t.flags
      BY <1>1, <1>2, <1>8, RxSynReceivedFacts DEF a, b
  <1>t. "ACK" \in seg.flags /\ AcksOneMore(h.t, seg) => g.t.txflags = {"ACK"}
    <2> DEFINE f == {"ACK"}  timer == "clear"
    <2>1. b = Sendctlmsg(a, f, timer) /\ a \in Handlers
        BY <1>4, <1>6, WorldParts
    <2>2. f \in SUBSET HeaderFlags /\ timer \in {"set", "clear", "leave"}
        BY DEF HeaderFlags
    <2>d. f = {"ACK"}
        OBVIOUS
    <2> HIDE DEF f, timer
    <2>3. Controls(a, b, f)
        BY <2>1, <2>2, SendctlmsgFacts
    <2>4. b.t.txflags = f
        BY <2>3 DEF Controls
    <2> QED  BY <1>9, <2>4, <2>d
  <1> HIDE DEF g
  <1>10. CASE ~("ACK" \in seg.flags /\ AcksOneMore(h.t, seg))
      BY <1>3, <1>9, <1>10 DEF Arrow, g
  <1>11. CASE "ACK" \in seg.flags /\ AcksOneMore(h.t, seg)
    <2>1. /\ w.c \in Roles /\ b.t \in Tcbs /\ Resting(b.t)
          /\ Whole(w.c, b.t, w.s, w.r + Len(b.t.rxbuf), w.I, w.u, w.v, w.k, w.J \cup Out(b))
        BY <1>8, WorldParts
    <2>2. /\ Renew(b, g) /\ g.t.state = "ESTABLISHED"
          /\ g.t.sock = b.t.sock /\ g.t.peer = b.t.peer
          /\ g.t.rcvnext = b.t.rcvnext /\ g.t.rcvack = b.t.rcvack
          /\ g.t.sendunack = seg.ack /\ g.t.sendnext = seg.ack
          /\ g.t.txbuf = b.t.txbuf /\ g.t.rxbuf = b.t.rxbuf
          /\ g.t.txflags = {"ACK"} /\ g.t.flags = b.t.flags
        BY <1>9, <1>11, <1>t
    <2>3. g.t \in Tcbs
        BY <2>2 DEF Renew, Handlers
    <2>4. g.t.peer /\ g.t.flags = {}
        BY <1>3, <1>5, <1>7, <2>1, <2>2 DEF Resting
    <2>5. Resting(g.t)
        BY <2>2, <2>4 DEF Resting, IsOpen, SEND_OK, CLOSINGSTATES, CONNINPROGRESS
    <2>6. IsAck(seg) /\ AcksOneMore(b.t, seg)
        BY <1>3, <1>7, <1>11 DEF IsAck, AcksOneMore
    <2>7. Whole(w.c, g.t, w.s, w.r + Len(b.t.rxbuf), w.I, w.u, w.v, w.k, w.J \cup Out(b))
      <3> DEFINE t == b.t
                 x == g.t
                 r == w.r + Len(t.rxbuf)
                 K == w.J \cup Out(b)
      <3>1. /\ w.c \in Roles /\ x \in Tcbs /\ Resting(x) /\ t.state = "SYN_RECEIVED"
            /\ x.state = "ESTABLISHED" /\ x.sock = t.sock /\ x.peer = t.peer
            /\ x.rcvnext = t.rcvnext /\ x.sendunack = seg.ack
            /\ x.sendnext = seg.ack /\ x.txbuf = t.txbuf /\ x.rxbuf = t.rxbuf
            /\ IsAck(seg) /\ AcksOneMore(t, seg)
            /\ Whole(w.c, t, w.s, r, w.I, w.u, w.v, w.k, K)
          BY <1>7, <2>1, <2>2, <2>3, <2>5, <2>6
      <3> HIDE DEF t, x, r, K
      <3>2. Whole(w.c, x, w.s, r, w.I, w.u, w.v, w.k, K)
          BY <3>1, Completes
      <3> QED  BY <3>2 DEF x, r, K, t
    <2>8. World(w, g)
        BY <1>8, <2>2, <2>7, Renewed
    <2>9. Fits(h, g)
      <3>1. g \in Handlers /\ g.ebuf = h.ebuf
          BY <1>3, <1>7, <2>2 DEF Renew
      <3>2. h.ebuf => Owed(g.t)
          BY <1>3, <1>7, <2>2 DEF Owed
      <3>3. Calm(g.t)
          BY <2>4 DEF Calm
      <3> QED  BY <3>1, <3>2, <3>3 DEF Fits
    <2> QED  BY <2>2, <2>8, <2>9 DEF Goes, Arrow, SegmentArrows, g
  <1> QED  BY <1>10, <1>11

-----------------------------------------------------------------------------
(* _tcp_procack                                                            *)

LEMMA SettlesWorld ==
    ASSUME NEW w, NEW h, World(w, h), h.t.state \in CLOSINGSTATES \cup {"TIME_WAIT"},
           NEW s, NEW g, Settles(h, g, s),
           s \in {"FINWAIT_2", "TIME_WAIT"}, s = "FINWAIT_2" => h.t.state = "FINWAIT_1",
           s = "TIME_WAIT" => ~IsTalking(w.u)
    PROVE  World(w, g)
  <1>1. /\ Renew(h, g) /\ g.t.state = s
        /\ g.t.sock = h.t.sock /\ g.t.peer = h.t.peer
        /\ g.t.rcvnext = h.t.rcvnext /\ g.t.rxbuf = h.t.rxbuf
        /\ g.t.txflags \in {h.t.txflags, {"ACK"}}
      BY DEF Settles
  <1>2. Resting(h.t)
      BY WorldParts
  <1>3. ~h.t.sock /\ h.t.peer /\ h.t.txflags \subseteq {"ACK", "FIN"}
      BY <1>2 DEF Resting, CLOSINGSTATES
  <1>4. g.t.txflags \subseteq {"ACK", "FIN"}
      BY <1>1, <1>3
  <1>5. Resting(g.t)
      BY <1>1, <1>3, <1>4 DEF Resting, IsOpen, SEND_OK, CONNINPROGRESS
  <1>6. /\ g.t.state \in {"CLOSE_WAIT", "TIME_WAIT"} \cup CLOSINGSTATES /\ g.t.state # "CLOSE_WAIT"
        /\ IsTaking(g.t) => g.t.rcvnext = h.t.rcvnext /\ (IsTaking(h.t) \/ h.t.state = "SYN_RECEIVED")
        /\ IsTaking(g.t) \/ ~IsTalking(w.u)
      BY <1>1 DEF CLOSINGSTATES, IsTaking
  <1>7. h.t.state \in {"SYN_RECEIVED", "ESTABLISHED", "CLOSE_WAIT", "TIME_WAIT"} \cup CLOSINGSTATES
      OBVIOUS
  <1> QED  BY <1>1, <1>5, <1>6, <1>7, MovesWorld

LEMMA FinMeans ==
    ASSUME NEW w, NEW h, World(w, h), NEW seg \in w.I, "FIN" \in seg.flags, "RST" \notin seg.flags
    PROVE  ~IsTalking(w.u)
  <1>1. Fins(h.t, w.I, w.u)
      BY WorldParts
  <1> QED  BY <1>1 DEF Fins

LEMMA ProcackTakes ==
    ASSUME NEW w, NEW h, World(w, h), Calm(h.t), IsTaking(h.t), NEW seg \in w.I, IsAck(seg)
    PROVE  LET g == Procack(h, seg) IN
           /\ World(w, g) /\ Steady(h, g) /\ (Calm(g.t) \/ g.t.state = "ESTABLISHED")
           /\ \/ g.t.state = h.t.state
              \/ h.t.state = "FINWAIT_1" /\ g.t.state = "FINWAIT_2"
              \/ h.t.state = "FINWAIT_1" /\ g.t.state = "TIME_WAIT" /\ "FIN" \in seg.flags
  <1> DEFINE g == Procack(h, seg)
  <1>1. /\ w.c \in Roles /\ Resting(h.t) /\ h.t \in Tcbs /\ h \in Handlers /\ w.I \subseteq Segments
        /\ Whole(w.c, h.t, w.s, w.r + Len(h.t.rxbuf), w.I, w.u, w.v, w.k, w.J \cup Out(h))
      BY WorldParts
  <1>2. seg \in Segments /\ "RST" \notin seg.flags
      BY <1>1 DEF IsAck
  <1>i. Steady(h, h)
      BY <1>1 DEF Steady
  <1>3. CASE h.t.state = "ESTABLISHED"
    <2>1. CASE ~AckInRange(h.t, seg)
      <3>1. g = h
          BY <1>3, <2>1 DEF Procack
      <3> QED  BY <1>i, <3>1
    <2>2. CASE AckInRange(h.t, seg)
      <3>1. g = ProcackEstablished(h, seg)
          BY <1>3, <2>2 DEF Procack
      <3>2. Diff(seg.ack, h.t.sendunack) \in 0 .. Len(h.t.txbuf)
          BY <1>1, <1>3, <2>2, AckAmount
      <3>3. /\ Renew(h, g) /\ Alike(h.t, g.t) /\ g.t.rxbuf = h.t.rxbuf
            /\ g.t.sendunack = seg.ack /\ g.t.sendnext = h.t.sendnext
            /\ g.t.txbuf = SubSeq(h.t.txbuf, Diff(seg.ack, h.t.sendunack) + 1, Len(h.t.txbuf))
            /\ g.t.txbuf # <<>> => g.t.retx = h.t.retx
            /\ g.t.txflags \in {h.t.txflags, {"ACK"}}
            /\ g.t.flags \in {h.t.flags, h.t.flags \cup {"OUTPUT"}}
          BY <1>1, <1>2, <3>1, <3>2, ProcackEstablishedFacts
      <3> HIDE DEF g
      <3>4. /\ g.t.state = h.t.state /\ g.t.sock = h.t.sock /\ g.t.peer = h.t.peer
            /\ g.t.rcvnext = h.t.rcvnext /\ g.t.rcvack = h.t.rcvack
          BY <3>3 DEF Alike
      <3>5. g.t \in Tcbs
          BY <3>3 DEF Renew, Handlers
      <3>6. Resting(g.t)
        <4>1. h.t.txflags = {"ACK"} /\ h.t.peer
            BY <1>1, <1>3 DEF Resting, IsOpen, SEND_OK
        <4> QED
            BY <1>3, <3>3, <3>4, <4>1 DEF Resting, IsOpen, SEND_OK, CLOSINGSTATES, CONNINPROGRESS
      <3>7. Whole(w.c, g.t, w.s, w.r + Len(h.t.rxbuf), w.I, w.u, w.v, w.k, w.J \cup Out(h))
        <4> DEFINE t == h.t
                   x == g.t
                   r == w.r + Len(t.rxbuf)
                   K == w.J \cup Out(h)
        <4>1. Outer(t, x)
            BY <3>4 DEF Outer
        <4>2. /\ w.c \in Roles /\ x \in Tcbs /\ Resting(x) /\ t.state = "ESTABLISHED"
              /\ AckInRange(t, seg) /\ x.rxbuf = t.rxbuf
              /\ x.sendunack = seg.ack /\ x.sendnext = t.sendnext
              /\ x.txbuf = SubSeq(t.txbuf, Diff(seg.ack, t.sendunack) + 1, Len(t.txbuf))
              /\ x.txbuf # <<>> => x.retx = t.retx
              /\ Whole(w.c, t, w.s, r, w.I, w.u, w.v, w.k, K)
            BY <1>1, <1>3, <2>2, <3>3, <3>5, <3>6
        <4> HIDE DEF t, x, r, K
        <4>3. Whole(w.c, x, w.s, r, w.I, w.u, w.v, w.k, K)
            BY <4>1, <4>2, Acked
        <4> QED  BY <4>3 DEF x, r, K, t
      <3>8. World(w, g)
          BY <3>3, <3>7, Renewed
      <3>9. Steady(h, g)
        <4>1. Owed(h.t) => Owed(g.t)
            BY <3>3, <3>4 DEF Owed
        <4> QED  BY <3>3, <4>1 DEF Steady, Renew
      <3> QED  BY <1>3, <3>4, <3>8, <3>9 DEF g
    <2> QED  BY <2>1, <2>2
  <1>4. CASE h.t.state = "FINWAIT_1"
    <2>1. \/ g = h
          \/ Settles(h, g, "FINWAIT_2") /\ g.t.flags = h.t.flags
          \/ Settles(h, g, "TIME_WAIT") /\ "FIN" \in seg.flags
        BY <1>1, <1>2, <1>4, ProcackFinwaitFacts
    <2> HIDE DEF g
    <2>2. CASE g = h
        BY <1>i, <2>2 DEF g
    <2>3. ASSUME NEW s, Settles(h, g, s), s \in {"FINWAIT_2", "TIME_WAIT"},
                 s = "TIME_WAIT" => "FIN" \in seg.flags
          PROVE  World(w, g) /\ Steady(h, g) /\ Calm(g.t) /\ g.t.state = s
      <3>1. s = "TIME_WAIT" => ~IsTalking(w.u)
          BY <1>2, <2>3, FinMeans
      <3>2. h.t.state \in CLOSINGSTATES \cup {"TIME_WAIT"}
          BY <1>4 DEF CLOSINGSTATES
      <3>3. World(w, g)
          BY <1>4, <2>3, <3>1, <3>2, SettlesWorld
      <3>4. /\ g \in Handlers /\ g.ebuf = h.ebuf /\ g.t.state = s
            /\ g.t.flags \in {h.t.flags, h.t.flags \cup {"SENDMSG"}}
          BY <2>3 DEF Settles, Renew
      <3>5. Calm(g.t)
          BY <3>4 DEF Calm
      <3>6. Steady(h, g)
          BY <2>3, <3>4 DEF Steady, Owed, RECV_OK
      <3> QED  BY <3>3, <3>4, <3>5, <3>6
    <2>4. CASE Settles(h, g, "FINWAIT_2")
      <3>1. World(w, g) /\ Steady(h, g) /\ Calm(g.t) /\ g.t.state = "FINWAIT_2"
          BY <2>3, <2>4
      <3> QED  BY <1>4, <3>1 DEF g
    <2>5. CASE Settles(h, g, "TIME_WAIT") /\ "FIN" \in seg.flags
      <3>1. World(w, g) /\ Steady(h, g) /\ Calm(g.t) /\ g.t.state = "TIME_WAIT"
          BY <2>3, <2>5
      <3> QED  BY <1>4, <2>5, <3>1 DEF g
    <2> QED  BY <2>1, <2>2, <2>4, <2>5
  <1>5. CASE h.t.state = "FINWAIT_2"
    <2>1. g = h
        BY <1>5 DEF Procack
    <2> QED  BY <1>i, <2>1
  <1> QED  BY <1>3, <1>4, <1>5 DEF IsTaking

-----------------------------------------------------------------------------
(* _tcp_procdata                                                           *)

LEMMA TakeDataTakes ==
    ASSUME NEW w, NEW h, World(w, h), IsTaking(h.t),
           NEW seg \in w.I, seg.data # <<>>, InSequence(h.t, seg)
    PROVE  World(w, TakeData(h, seg)) /\ Fits(h, TakeData(h, seg))
           /\ TakeData(h, seg).t.state = h.t.state /\ seg.flags = {"ACK"}
  <1> DEFINE g == TakeData(h, seg)
             t == h.t
             x == g.t
             r == w.r + Len(t.rxbuf)
             K == w.J \cup Out(h)
             b == NewData(t, seg)
  <1>1. /\ w.c \in Roles /\ w.r \in Nat /\ Resting(t) /\ t \in Tcbs /\ h \in Handlers
        /\ w.I \subseteq Segments
        /\ Whole(w.c, t, w.s, r, w.I, w.u, w.v, w.k, K)
      BY WorldParts
  <1>2. seg \in Segments
      BY <1>1
  <1>3. /\ seg.flags = {"ACK"}
        /\ b \in Seq(Bytes) /\ Len(b) \in Nat /\ Len(b) <= Window(t)
    <2> HIDE DEF r, K
    <2>1. IsTaking(t)
        OBVIOUS
    <2> HIDE DEF t
    <2> QED  BY <1>1, <2>1, NewDataFacts DEF t
  <1>4. /\ Renew(h, g) /\ Fits(h, g)
        /\ x.state = t.state /\ x.sock = t.sock /\ x.peer = t.peer
        /\ x.sendunack = t.sendunack /\ x.sendnext = t.sendnext
        /\ x.txbuf = t.txbuf /\ x.retx = t.retx
        /\ x.rxbuf = t.rxbuf \o b
        /\ x.rcvnext = Plus(t.rcvnext, Len(b))
        /\ x.txflags \in {t.txflags, {"ACK"}}
      BY <1>1, <1>2, <1>3, TakeDataFacts
  <1> HIDE DEF g
  <1>5. x \in Tcbs
      BY <1>4 DEF Renew, Handlers
  <1>6. t.rxbuf \in Seq(Bytes) /\ Len(t.rxbuf) \in Nat
      BY <1>1, BufferFacts DEF Tcbs
  <1>7. t.state \in {"ESTABLISHED", "FINWAIT_1", "FINWAIT_2"} /\ seg.data # <<>> /\ InSequence(t, seg)
      BY DEF IsTaking
  <1> HIDE DEF t, x, r, K, b
  <1>8. Len(x.rxbuf) = Len(t.rxbuf) + Len(b)
      BY <1>3, <1>4, <1>6, ConcatProperties
  <1>9. Resting(x)
    <2>1. t.peer /\ (t.state # "ESTABLISHED" => ~t.sock) /\ t.txflags \subseteq {"ACK", "FIN"}
          /\ (t.state = "ESTABLISHED" => t.txflags = {"ACK"})
        BY <1>1, <1>7 DEF Resting, IsOpen, SEND_OK, CLOSINGSTATES
    <2>2. /\ x.txflags \subseteq {"ACK", "FIN"}
          /\ t.state = "ESTABLISHED" => x.txflags = {"ACK"}
        BY <1>4, <2>1
    <2> QED  BY <1>4, <1>7, <2>1, <2>2 DEF Resting, IsOpen, SEND_OK, CLOSINGSTATES, CONNINPROGRESS
  <1>10. Whole(w.c, x, w.s, r + Len(b), w.I, w.u, w.v, w.k, K)
    <2>1. IsTaking(t)
        BY <1>7 DEF IsTaking
    <2>2. /\ x.rxbuf = t.rxbuf \o NewData(t, seg)
          /\ x.rcvnext = Plus(t.rcvnext, Len(NewData(t, seg)))
        BY <1>4 DEF b
    <2>3. Whole(w.c, x, w.s, r + Len(NewData(t, seg)), w.I, w.u, w.v, w.k, K)
        BY <1>1, <1>4, <1>5, <1>7, <1>9, <2>1, <2>2, TakesData
    <2> QED  BY <2>3 DEF b
  <1>11. r + Len(b) = w.r + Len(x.rxbuf)
      BY <1>1, <1>3, <1>6, <1>8 DEF r
  <1>12. World(w, g)
      BY <1>4, <1>10, <1>11, Renewed DEF x, K
  <1> QED  BY <1>3, <1>4, <1>12 DEF g, x, t

LEMMA TakeFinTakes ==
    ASSUME NEW w, NEW h, World(w, h), IsTaking(h.t) \/ h.t.state = "TIME_WAIT",
           NEW seg \in w.I, "FIN" \in seg.flags, "RST" \notin seg.flags
    PROVE  LET g == TakeFin(h, seg) IN
           /\ World(w, g) /\ Steady(h, g)
           /\ Calm(h.t) => Calm(g.t)
           /\ \/ h.t.state = "ESTABLISHED" /\ g.t.state = "CLOSE_WAIT"
              \/ h.t.state = "FINWAIT_1" /\ g.t.state \in {"CLOSING", "TIME_WAIT"}
              \/ h.t.state \in {"FINWAIT_2", "TIME_WAIT"} /\ g.t.state = "TIME_WAIT"
  <1> DEFINE g == TakeFin(h, seg)
  <1>1. /\ Resting(h.t) /\ h.t \in Tcbs /\ h \in Handlers /\ w.I \subseteq Segments
      BY WorldParts
  <1>2. seg \in Segments
      BY <1>1
  <1>3. ~IsTalking(w.u)
      BY FinMeans
  <1>4. CASE h.t.state = "ESTABLISHED"
    <2>0. PICK n : FinTaken(h, n) /\ g = Protosend(n)
      <3>1. h \in Handlers /\ seg \in Segments
          BY <1>1, <1>2
      <3> QED  BY <1>4, <3>1, TakeFinFacts
    <2> HIDE DEF g
    <2>1. /\ Renew(h, n) /\ g = Protosend(n)
          /\ n.t.state = "CLOSE_WAIT"
          /\ n.t.sock = h.t.sock /\ n.t.peer = h.t.peer
          /\ n.t.sendunack = h.t.sendunack /\ n.t.sendnext = h.t.sendnext
          /\ n.t.txbuf = h.t.txbuf /\ n.t.rxbuf = h.t.rxbuf
          /\ n.t.txflags = {"ACK"} /\ n.t.flags \subseteq h.t.flags
        BY <2>0 DEF FinTaken
    <2>2. h.t.peer /\ IsOpen(h.t)
        BY <1>1, <1>4 DEF Resting, IsOpen, SEND_OK
    <2>3. Resting(n.t)
        BY <2>1, <2>2 DEF Resting, IsOpen, SEND_OK, CLOSINGSTATES, CONNINPROGRESS
    <2>4. /\ ~IsTaking(n.t) /\ n.t.state \in {"CLOSE_WAIT", "TIME_WAIT"} \cup CLOSINGSTATES
          /\ h.t.state \in {"SYN_RECEIVED", "ESTABLISHED", "CLOSE_WAIT", "TIME_WAIT"} \cup CLOSINGSTATES
        BY <1>4, <2>1 DEF IsTaking
    <2>5. World(w, n)
        BY <1>3, <2>1, <2>2, <2>3, <2>4, MovesWorld
    <2>6. MayControl(n.t) /\ (Calm(h.t) => Calm(n.t))
        BY <2>1 DEF MayControl, Calm
    <2>7. Goes(w, h, g) /\ g.t.state = "CLOSE_WAIT"
        BY <2>1, <2>5, <2>6, ProtosendGoes, SentFits
    <2> QED  BY <1>4, <2>7, FitsAreSteady DEF Goes, Fits, g
  <1>5. CASE h.t.state # "ESTABLISHED"
    <2>1. /\ Renew(h, g)
          /\ g.t.sock = h.t.sock /\ g.t.peer = h.t.peer /\ g.t.rxbuf = h.t.rxbuf
          /\ g.t.txflags \in {h.t.txflags, {"ACK"}}
          /\ g.t.flags \in {h.t.flags, h.t.flags \cup {"SENDMSG"}}
          /\ h.t.state = "FINWAIT_1" => g.t.state \in {"CLOSING", "TIME_WAIT"}
          /\ h.t.state = "FINWAIT_2" => g.t.state = "TIME_WAIT"
          /\ h.t.state \notin {"FINWAIT_1", "FINWAIT_2"} => g.t.state = h.t.state
        BY <1>1, <1>2, <1>5, TakeFinFacts
    <2> HIDE DEF g
    <2>2. h.t.state \in {"FINWAIT_1", "FINWAIT_2", "TIME_WAIT"}
        BY <1>5 DEF IsTaking
    <2>3. g.t.state \in {"CLOSING", "TIME_WAIT"}
        BY <2>1, <2>2
    <2>4. ~h.t.sock /\ h.t.peer /\ h.t.txflags \subseteq {"ACK", "FIN"}
        BY <1>1, <2>2 DEF Resting, CLOSINGSTATES
    <2>5. g.t.txflags \subseteq {"ACK", "FIN"}
        BY <2>1, <2>4
    <2>6. Resting(g.t)
        BY <2>1, <2>3, <2>4, <2>5 DEF Resting, IsOpen, SEND_OK, CONNINPROGRESS
    <2>7. /\ ~IsTaking(g.t) /\ g.t.state \in {"CLOSE_WAIT", "TIME_WAIT"} \cup CLOSINGSTATES
          /\ g.t.state # "CLOSE_WAIT"
          /\ h.t.state \in {"SYN_RECEIVED", "ESTABLISHED", "CLOSE_WAIT", "TIME_WAIT"} \cup CLOSINGSTATES
        BY <2>2, <2>3 DEF IsTaking, CLOSINGSTATES
    <2>8. World(w, g)
        BY <1>3, <2>1, <2>6, <2>7, MovesWorld
    <2>9. Steady(h, g)
        BY <2>1, <2>3 DEF Steady, Owed, RECV_OK, Renew
    <2>10. Calm(h.t) => Calm(g.t)
        BY <2>1 DEF Calm
    <2> QED  BY <2>1, <2>2, <2>8, <2>9, <2>10 DEF g
  <1> QED  BY <1>4, <1>5

\* What a segment of an established or half-closed connection may do to the state.
DataArrow(s, n) == \/ n = s
                   \/ s = "ESTABLISHED" /\ n = "CLOSE_WAIT"
                   \/ s = "FINWAIT_1" /\ n \in {"FINWAIT_2", "CLOSING", "TIME_WAIT"}
                   \/ s = "FINWAIT_2" /\ n = "TIME_WAIT"

LEMMA ProcdataTakes ==
    ASSUME NEW w, NEW h, World(w, h), Calm(h.t) \/ h.t.state = "ESTABLISHED",
           NEW seg \in w.I, "RST" \notin seg.flags,
           IsTaking(h.t) \/ (h.t.state = "TIME_WAIT" /\ "FIN" \in seg.flags)
    PROVE  LET g == Procdata(h, seg) IN
           /\ World(w, g) /\ Steady(h, g) /\ (Calm(g.t) \/ IsOpen(g.t))
           /\ \/ g.t.state = h.t.state
              \/ h.t.state = "ESTABLISHED" /\ g.t.state = "CLOSE_WAIT"
              \/ h.t.state = "FINWAIT_1" /\ g.t.state \in {"CLOSING", "TIME_WAIT"}
              \/ h.t.state = "FINWAIT_2" /\ g.t.state = "TIME_WAIT"
  <1> DEFINE g == Procdata(h, seg)
  <1>1. h \in Handlers /\ w.I \subseteq Segments /\ w.c \in Roles
      BY WorldParts
  <1>i. /\ Steady(h, h) /\ (h.t.state = "ESTABLISHED" => IsOpen(h.t))
      BY <1>1 DEF Steady, IsOpen, SEND_OK
  <1>2. /\ seg.data # <<>> /\ ~InSequence(h.t, seg) => g = h
        /\ seg.data # <<>> /\ InSequence(h.t, seg) /\ "FIN" \notin seg.flags => g = TakeData(h, seg)
        /\ seg.data = <<>> /\ "FIN" \in seg.flags => g = TakeFin(h, seg)
        /\ seg.data = <<>> /\ "FIN" \notin seg.flags => g = h
      BY DEF Procdata
  <1>3. seg.data # <<>> => "FIN" \notin seg.flags
    <2>1. Whole(w.c, h.t, w.s, w.r + Len(h.t.rxbuf), w.I, w.u, w.v, w.k, w.J \cup Out(h))
        BY WorldParts
    <2>2. Datas(w.c, h.t, w.r + Len(h.t.rxbuf), w.I, w.v)
        BY <1>1, <2>1, Parts
    <2>3. seg.data # <<>> => seg.flags = {"ACK"}
        BY <2>2 DEF Datas
    <2> QED  BY <2>3
  <1> HIDE DEF g
  <1>4. CASE g = h
      BY <1>i, <1>4 DEF g
  <1>5. CASE seg.data # <<>> /\ InSequence(h.t, seg)
    <2>1. g = TakeData(h, seg)
        BY <1>2, <1>3, <1>5
    <2>2. IsTaking(h.t)
        BY <1>3, <1>5
    <2>3. World(w, g) /\ Fits(h, g) /\ g.t.state = h.t.state
        BY <1>5, <2>1, <2>2, TakeDataTakes
    <2>4. Calm(g.t) \/ IsOpen(g.t)
        BY <2>3 DEF Fits, IsOpen, SEND_OK
    <2> QED  BY <2>3, <2>4, FitsAreSteady DEF g
  <1>6. CASE seg.data = <<>> /\ "FIN" \in seg.flags
    <2>1. g = TakeFin(h, seg)
        BY <1>2, <1>6
    <2>2. /\ World(w, g) /\ Steady(h, g)
          /\ Calm(h.t) => Calm(g.t)
          /\ \/ h.t.state = "ESTABLISHED" /\ g.t.state = "CLOSE_WAIT"
             \/ h.t.state = "FINWAIT_1" /\ g.t.state \in {"CLOSING", "TIME_WAIT"}
             \/ h.t.state \in {"FINWAIT_2", "TIME_WAIT"} /\ g.t.state = "TIME_WAIT"
        BY <1>6, <2>1, TakeFinTakes
    <2>3. Calm(g.t) \/ IsOpen(g.t)
        BY <2>2 DEF IsOpen, SEND_OK
    <2> QED  BY <2>2, <2>3 DEF g
  <1> QED  BY <1>2, <1>4, <1>5, <1>6

LEMMA RxDataTakes ==
    ASSUME NEW w, NEW h, World(w, h), Calm(h.t), IsTaking(h.t),
           NEW seg \in w.I, "RST" \notin seg.flags
    PROVE  LET g == RxData(h, seg) IN
           /\ World(w, g) /\ Steady(h, g) /\ (Calm(g.t) \/ IsOpen(g.t))
           /\ DataArrow(h.t.state, g.t.state)
  <1> DEFINE m == IF "ACK" \in seg.flags THEN Procack(h, seg) ELSE h
             g == Procdata(m, seg)
  <1>1. RxData(h, seg) = g
      BY DEF RxData
  <1>2. h \in Handlers
      BY WorldParts
  <1>3. /\ World(w, m) /\ Steady(h, m) /\ (Calm(m.t) \/ m.t.state = "ESTABLISHED")
        /\ \/ m.t.state = h.t.state
           \/ h.t.state = "FINWAIT_1" /\ m.t.state = "FINWAIT_2"
           \/ h.t.state = "FINWAIT_1" /\ m.t.state = "TIME_WAIT" /\ "FIN" \in seg.flags
    <2>1. CASE "ACK" \in seg.flags
      <3>1. IsAck(seg) /\ m = Procack(h, seg)
          BY <2>1 DEF IsAck
      <3> HIDE DEF m
      <3> QED  BY <3>1, ProcackTakes
    <2>2. CASE "ACK" \notin seg.flags
      <3>1. m = h
          BY <2>2
      <3> QED  BY <1>2, <3>1 DEF Steady
    <2> QED  BY <2>1, <2>2
  <1> HIDE DEF m
  <1>4. IsTaking(m.t) \/ (m.t.state = "TIME_WAIT" /\ "FIN" \in seg.flags)
      BY <1>3 DEF IsTaking
  <1>5. /\ World(w, g) /\ Steady(m, g) /\ (Calm(g.t) \/ IsOpen(g.t))
        /\ \/ g.t.state = m.t.state
           \/ m.t.state = "ESTABLISHED" /\ g.t.state = "CLOSE_WAIT"
           \/ m.t.state = "FINWAIT_1" /\ g.t.state \in {"CLOSING", "TIME_WAIT"}
           \/ m.t.state = "FINWAIT_2" /\ g.t.state = "TIME_WAIT"
      BY <1>3, <1>4, ProcdataTakes
  <1> HIDE DEF g
  <1>6. Steady(h, g)
      BY <1>3, <1>5, SteadyAgain
  <1>7. DataArrow(h.t.state, g.t.state)
      BY <1>3, <1>5 DEF DataArrow
  <1> QED  BY <1>1, <1>5, <1>6, <1>7

-----------------------------------------------------------------------------
(* The way out of _tcp_rx_callback                                         *)

LEMMA FlushTakes ==
    ASSUME NEW w, NEW h, World(w, h), Calm(h.t) \/ IsOpen(h.t)
    PROVE  LET g == Flush(h) IN
           /\ World(w, g) /\ Steady(h, g) /\ Calm(g.t) /\ g.t.state = h.t.state
  <1>1. h \in Handlers /\ Resting(h.t) /\ h.t \in Tcbs
      BY WorldParts
  <1>2. CASE "OUTPUT" \in h.t.flags
    <2> DEFINE q == Output(h)
               g == Flushed(h)
    <2>1. IsOpen(h.t) /\ MayOutput(h.t)
        BY <1>2 DEF Calm, MayOutput
    <2>2. World(w, q)
        BY <2>1, OutputWorld
    <2>3. /\ Renew(q, g) /\ Kept(q.t, g.t) /\ g.t.sendnext = q.t.sendnext
          /\ g.t.txflags = q.t.txflags /\ g.t.retx = q.t.retx
          /\ g.t.flags \subseteq q.t.flags /\ Calm(g.t) /\ "SENDMSG" \notin g.t.flags
          /\ Fits(h, g) /\ g.t.state = h.t.state
        BY <1>1, FlushedFacts
    <2>4. Resting(q.t)
        BY <2>2, WorldParts
    <2>5. Flush(h) = g
        BY <1>2, <2>3, FlushIs
    <2> HIDE DEF q, g
    <2>6. g.t.state = q.t.state /\ g.t.sock = q.t.sock /\ g.t.peer = q.t.peer
          /\ g.t.txbuf = q.t.txbuf /\ g.t.rxbuf = q.t.rxbuf
        BY <2>3 DEF Kept
    <2>7. Resting(g.t)
        BY <2>3, <2>4, <2>6 DEF Resting, IsOpen
    <2>8. World(w, g)
        BY <2>2, <2>3, <2>7, RetagsWorld
    <2> QED  BY <2>3, <2>5, <2>8, FitsAreSteady
  <1>3. CASE "OUTPUT" \notin h.t.flags /\ "SENDMSG" \in h.t.flags
    <2>1. Flush(h) = Protosend(h)
        BY <1>3, FlushIs
    <2>2. h.t.state \notin {"CLOSED", "FREE"} \cup CONNINPROGRESS
        BY <1>1, <1>3 DEF Resting
    <2>3. MayControl(h.t)
        BY <2>2 DEF MayControl, CONNINPROGRESS
    <2>4. Renew(h, h) /\ (Calm(h.t) => Calm(h.t))
        BY <1>1 DEF Renew
    <2>5. Goes(w, h, Protosend(h)) /\ Protosend(h).t.state = h.t.state
        BY <2>3, <2>4, ProtosendGoes, SentFits
    <2>6. Calm(h.t)
        BY <1>3 DEF Calm
    <2> QED  BY <2>1, <2>5, <2>6, FitsAreSteady DEF Goes, Fits
  <1>4. CASE "OUTPUT" \notin h.t.flags /\ "SENDMSG" \notin h.t.flags
    <2>1. Flush(h) = h
        BY <1>4, FlushIs
    <2> QED  BY <1>1, <1>4, <2>1 DEF Steady, Calm
  <1> QED  BY <1>2, <1>3, <1>4

-----------------------------------------------------------------------------
(* _tcp_rx_callback                                                        *)

\* The reaction to a segment and what is transmitted on the way out.
LEMMA FlushedGoes ==
    ASSUME NEW w, NEW h, NEW m, World(w, m), Steady(h, m), Calm(m.t) \/ IsOpen(m.t)
    PROVE  Goes(w, h, Flush(m)) /\ Flush(m).t.state = m.t.state
  <1>1. World(w, Flush(m)) /\ Steady(m, Flush(m)) /\ Calm(Flush(m).t) /\ Flush(m).t.state = m.t.state
      BY FlushTakes
  <1>2. Steady(h, Flush(m))
      BY <1>1, SteadyAgain
  <1> QED  BY <1>1, <1>2 DEF Goes, Fits, Steady

\* The states of the close: the FIN of the peer has come, or is not looked for.
LEMMA RxClosingGoes ==
    ASSUME NEW w, NEW h, World(w, h), Calm(h.t),
           h.t.state \in {"CLOSING", "LAST_ACK", "TIME_WAIT", "CLOSED", "CLOSE_WAIT"},
           NEW seg \in w.I, NEW g,
           h.t.state = "CLOSING" => g = Flush(RxClosing(h, seg)),
           h.t.state = "LAST_ACK" => g = Flush(RxLastAck(h, seg)),
           h.t.state = "TIME_WAIT" => g = Flush(RxTimeWait(h, seg)),
           h.t.state \in {"CLOSED", "CLOSE_WAIT"} => g = Flush(h)
    PROVE  Goes(w, h, g) /\ Arrow(h.t, g.t)
  <1>1. h \in Handlers /\ w.I \subseteq Segments /\ Fins(h.t, w.I, w.u)
      BY WorldParts
  <1>2. seg \in Segments
      BY <1>1
  <1>3. ASSUME NEW m, g = Flush(m), Goes(w, h, m), Arrow(h.t, m.t)
        PROVE  Goes(w, h, g) /\ Arrow(h.t, g.t)
    <2>1. World(w, m) /\ Steady(h, m) /\ Calm(m.t)
        BY <1>3, FitsAreSteady DEF Goes, Fits
    <2>2. Goes(w, h, Flush(m)) /\ Flush(m).t.state = m.t.state
        BY <2>1, FlushedGoes
    <2> QED  BY <1>3, <2>2 DEF Arrow
  <1>4. ASSUME NEW n, NEW f, Tagged(h, n, f), f \subseteq {"ACK", "FIN"},
               h.t.state \in {"LAST_ACK", "TIME_WAIT"}
        PROVE  Goes(w, h, Protosend(n)) /\ Arrow(h.t, Protosend(n).t)
    <2>1. h.t.state \notin {"CLOSED", "FREE"} \cup CONNINPROGRESS /\ ~IsOpen(h.t)
          /\ h.t.state # "ESTABLISHED"
        BY <1>4 DEF CONNINPROGRESS, IsOpen, SEND_OK
    <2>2. Goes(w, h, Protosend(n))
        BY <1>4, <2>1, TaggedGoes
    <2>3. Protosend(n).t.state = h.t.state
        BY <1>1, <1>4, TaggedFits
    <2> QED  BY <2>2, <2>3 DEF Arrow
  <1>5. CASE h.t.state = "CLOSING"
    <2> DEFINE m == RxClosing(h, seg)
    <2>1. m = h \/ Settles(h, m, "TIME_WAIT")
        BY <1>1, <1>2, RxClosingFacts
    <2>2. g = Flush(m)
        BY <1>5
    <2> HIDE DEF m
    <2>3. CASE m = h
      <3>1. Goes(w, h, m) /\ Arrow(h.t, m.t)
          BY <1>1, <2>3, FitsItself DEF Goes, Arrow
      <3> QED  BY <1>3, <2>2, <3>1
    <2>4. CASE Settles(h, m, "TIME_WAIT")
      <3> DEFINE s == "TIME_WAIT"
      <3>1. ~IsTalking(w.u)
          BY <1>1, <1>5 DEF Fins
      <3>2. h.t.state \in CLOSINGSTATES \cup {"TIME_WAIT"}
          BY <1>5 DEF CLOSINGSTATES
      <3>3. s \in {"FINWAIT_2", "TIME_WAIT"} /\ s # "FINWAIT_2" /\ Settles(h, m, s) /\ s = "TIME_WAIT"
          BY <2>4
      <3> HIDE DEF s
      <3>4. World(w, m)
          BY <3>1, <3>2, <3>3, SettlesWorld
      <3>5. /\ m \in Handlers /\ m.ebuf = h.ebuf /\ m.t.state = "TIME_WAIT"
            /\ m.t.flags \in {h.t.flags, h.t.flags \cup {"SENDMSG"}}
          BY <3>3 DEF Settles, Renew
      <3>6. Calm(m.t) /\ m.t.state \notin RECV_OK
          BY <3>5 DEF Calm, RECV_OK
      <3>7. Goes(w, h, m)
          BY <3>4, <3>5, <3>6, OtherFits DEF Goes
      <3>8. Arrow(h.t, m.t)
          BY <1>5, <3>5 DEF Arrow, SegmentArrows
      <3> QED  BY <1>3, <2>2, <3>7, <3>8
    <2> QED  BY <2>1, <2>3, <2>4
  <1>6. CASE h.t.state = "LAST_ACK"
    <2> DEFINE m == RxLastAck(h, seg)
    <2>1. \/ Gone(h, m)
          \/ \E n : Tagged(h, n, {"ACK", "FIN"}) /\ m = Protosend(n)
        BY <1>1, <1>2, RxLastAckFacts
    <2>2. g = Flush(m)
        BY <1>6
    <2> HIDE DEF m
    <2>3. CASE Gone(h, m)
      <3>1. Goes(w, h, m)
          BY <2>3, GoneGoes
      <3>2. Arrow(h.t, m.t)
          BY <1>6, <2>3 DEF Arrow, SegmentArrows, Gone
      <3> QED  BY <1>3, <2>2, <3>1, <3>2
    <2>4. ASSUME NEW n, Tagged(h, n, {"ACK", "FIN"}), m = Protosend(n)
          PROVE  Goes(w, h, g) /\ Arrow(h.t, g.t)
      <3> DEFINE f == {"ACK", "FIN"}
      <3>1. Tagged(h, n, f) /\ f \subseteq {"ACK", "FIN"}
          BY <2>4
      <3> HIDE DEF f
      <3>2. Goes(w, h, m) /\ Arrow(h.t, m.t)
          BY <1>4, <1>6, <2>4, <3>1
      <3> QED  BY <1>3, <2>2, <3>2
    <2> QED  BY <2>1, <2>3, <2>4
  <1>7. CASE h.t.state = "TIME_WAIT"
    <2> DEFINE f == {"ACK"}
    <2>1. PICK n : Tagged(h, n, f) /\ RxTimeWait(h, seg) = Protosend(n)
        BY <1>1, RxTimeWaitFacts
    <2>2. g = Flush(Protosend(n))
        BY <1>7, <2>1
    <2>3. f \subseteq {"ACK", "FIN"}
        OBVIOUS
    <2> HIDE DEF f
    <2>4. Goes(w, h, Protosend(n)) /\ Arrow(h.t, Protosend(n).t)
        BY <1>4, <1>7, <2>1, <2>3
    <2> QED  BY <1>3, <2>2, <2>4
  <1>8. CASE h.t.state \in {"CLOSED", "CLOSE_WAIT"}
    <2>1. Goes(w, h, h) /\ Arrow(h.t, h.t)
        BY <1>1, FitsItself DEF Goes, Arrow
    <2> QED  BY <1>3, <1>8, <2>1
  <1> QED  BY <1>5, <1>6, <1>7, <1>8

LEMMA RxCallbackGoes ==
    ASSUME NEW w, NEW h, World(w, h), Calm(h.t), h.t.state # "FREE", NEW seg \in w.I,
           h.t.state \in {"LISTEN", "SYN_RECEIVED"} => 2 * (h.t.sendnext + 1) < SeqSize
    PROVE  /\ Goes(w, h, RxCallback(h, seg))
           /\ "RST" \notin seg.flags => Arrow(h.t, RxCallback(h, seg).t)
  <1> DEFINE m == Told(h, seg)
             g == RxCallback(h, seg)
  <1>1. h \in Handlers /\ w.I \subseteq Segments /\ h.t \in Tcbs
      BY WorldParts
  <1>2. seg \in Segments /\ h.t.state \in States
      BY <1>1 DEF Tcbs
  <1>3. CASE "RST" \in seg.flags
      BY <1>2, <1>3, ResetGoes
  <1>4. CASE "RST" \notin seg.flags
    <2>1. Renew(h, m) /\ Same(h.t, m.t)
        BY <1>1, <1>2, ToldSame
    <2>2. /\ h.t.state = "LISTEN" => g = RxListen(m, seg)
          /\ h.t.state = "SYN_SENT" => g = RxSynSent(m, seg)
          /\ h.t.state = "SYN_RECEIVED" => g = RxSynReceived(m, seg)
          /\ h.t.state \in {"ESTABLISHED", "FINWAIT_1", "FINWAIT_2"} => g = Flush(RxData(m, seg))
          /\ h.t.state = "CLOSING" => g = Flush(RxClosing(m, seg))
          /\ h.t.state = "LAST_ACK" => g = Flush(RxLastAck(m, seg))
          /\ h.t.state = "TIME_WAIT" => g = Flush(RxTimeWait(m, seg))
          /\ h.t.state \in {"FREE", "CLOSED", "CLOSE_WAIT"} => g = Flush(m)
        BY <1>4, RxCallbackIs
    <2> HIDE DEF m, g
    <2>3. Goes(w, h, m)
        BY <2>1, SameGoes
    <2>4. World(w, m) /\ m.t.state = h.t.state /\ m.t.sendnext = h.t.sendnext /\ Calm(m.t)
        BY <2>1, <2>3 DEF Goes, Fits, Same, Kept
    <2>5. Goes(w, m, g) /\ Arrow(m.t, g.t)
      <3>1. CASE h.t.state = "LISTEN"
          BY <1>4, <2>2, <2>4, <3>1, RxListenGoes
      <3>2. CASE h.t.state = "SYN_SENT"
          BY <1>4, <2>2, <2>4, <3>2, RxSynSentGoes
      <3>3. CASE h.t.state = "SYN_RECEIVED"
          BY <1>4, <2>2, <2>4, <3>3, RxSynReceivedGoes
      <3>4. CASE h.t.state \in {"ESTABLISHED", "FINWAIT_1", "FINWAIT_2"}
        <4> DEFINE d == RxData(m, seg)
        <4>1. IsTaking(m.t)
            BY <2>4, <3>4 DEF IsTaking
        <4>2. /\ World(w, d) /\ Steady(m, d) /\ (Calm(d.t) \/ IsOpen(d.t))
              /\ DataArrow(m.t.state, d.t.state)
            BY <1>4, <2>4, <4>1, RxDataTakes
        <4>3. g = Flush(d)
            BY <2>2, <3>4
        <4> HIDE DEF d
        <4>4. Goes(w, m, g) /\ g.t.state = d.t.state
            BY <4>2, <4>3, FlushedGoes
        <4>5. Arrow(m.t, g.t)
            BY <4>2, <4>4 DEF Arrow, DataArrow, SegmentArrows
        <4> QED  BY <4>4, <4>5
      <3>5. CASE h.t.state \in {"CLOSING", "LAST_ACK", "TIME_WAIT", "CLOSED", "CLOSE_WAIT"}
          BY <2>2, <2>4, <3>5, RxClosingGoes
      <3>6. \/ h.t.state \in {"LISTEN", "SYN_SENT", "SYN_RECEIVED"}
            \/ h.t.state \in {"ESTABLISHED", "FINWAIT_1", "FINWAIT_2"}
            \/ h.t.state \in {"CLOSING", "LAST_ACK", "TIME_WAIT", "CLOSED", "CLOSE_WAIT"}
          BY <1>2 DEF States, CONNINPROGRESS, RESETKEEPALIVE, SEND_OK, CLOSINGSTATES
      <3> QED  BY <3>1, <3>2, <3>3, <3>4, <3>5, <3>6
    <2>6. Goes(w, h, g)
        BY <2>3, <2>5, GoesAgain
    <2>7. Arrow(h.t, g.t)
        BY <2>4, <2>5 DEF Arrow
    <2> QED  BY <2>6, <2>7 DEF g
  <1> QED  BY <1>3, <1>4

-----------------------------------------------------------------------------
(* The two hosts                                                           *)

LEMMA PeerFacts ==
    ASSUME NEW e \in Host
    PROVE  /\ Peer(e) \in Host /\ Peer(e) # e /\ Peer(Peer(e)) = e
           /\ \A f \in Host : f = e \/ f = Peer(e)
  BY HostAssumption DEF Host, Peer

LEMMA RoleFacts ==
    ASSUME NEW e \in Host, OneCaller
    PROVE  Role(e) \in Roles /\ Role(Peer(e)) = Other(Role(e))
  <1>1. PICK a \in Host : Connecting = {a}
      BY DEF OneCaller
  <1>2. e \in Connecting <=> Peer(e) \notin Connecting
      BY <1>1, PeerFacts
  <1> QED  BY <1>2 DEF Role, Roles, Other

LEMMA ElemsOfConcat ==
    ASSUME NEW q \in Seq(Segments), NEW p \in Seq(Segments)
    PROVE  Elems(q \o p) = Elems(q) \cup Elems(p) /\ q \o p \in Seq(Segments)
  <1> DEFINE n == Len(q)
             m == Len(p)
             o == q \o p
  <1>1. /\ o \in Seq(Segments) /\ Len(o) = n + m
        /\ \A i \in 1 .. n + m : o[i] = IF i <= n THEN q[i] ELSE p[i - n]
      BY ConcatProperties
  <1>2. n \in Nat /\ m \in Nat
      OBVIOUS
  <1>3. Elems(q) = {q[i] : i \in 1..n} /\ Elems(p) = {p[i] : i \in 1..m}
        /\ Elems(o) = {o[i] : i \in 1..Len(o)}
      BY DEF Elems
  <1> HIDE DEF o, n, m
  <1>4. \A i \in 1..n : i \in 1..n + m /\ o[i] = q[i]
      BY <1>1, <1>2
  <1>5. \A i \in 1..m : n + i \in 1..n + m /\ o[n + i] = p[i]
      BY <1>1, <1>2
  <1>6. \A i \in 1..n + m : i \in 1..n \/ i - n \in 1..m
      BY <1>2
  <1>7. {o[i] : i \in 1..n + m} = {q[i] : i \in 1..n} \cup {p[i] : i \in 1..m}
    <2>1. ASSUME NEW i \in 1..n + m
          PROVE  o[i] \in {q[j] : j \in 1..n} \cup {p[j] : j \in 1..m}
      <3>1. CASE i \in 1..n
          BY <1>4, <3>1
      <3>2. CASE i - n \in 1..m
        <4>1. n + (i - n) = i
            BY <1>2
        <4>2. o[n + (i - n)] = p[i - n]
            BY <1>5, <3>2
        <4>3. o[i] = p[i - n]
            BY <4>1, <4>2
        <4> QED  BY <3>2, <4>3
      <3> QED  BY <1>6, <3>1, <3>2
    <2>2. ASSUME NEW j \in 1..n
          PROVE  q[j] \in {o[i] : i \in 1..n + m}
        BY <1>4
    <2>3. ASSUME NEW j \in 1..m
          PROVE  p[j] \in {o[i] : i \in 1..n + m}
        BY <1>5
    <2> QED  BY <2>1, <2>2, <2>3
  <1> QED  BY <1>1, <1>3, <1>7 DEF o, n, m

\* Fewer segments on their way mean less to be reckoned with.
LEMMA Loses ==
    ASSUME NEW c \in Roles, NEW t, NEW s, NEW g, NEW I, NEW u, NEW v, NEW k, NEW J,
           Whole(c, t, s, g, I, u, v, k, J), NEW L, L \subseteq I
    PROVE  Whole(c, t, s, g, L, u, v, k, J)
  <1> DEFINE o == Other(c)
  <1>1. Half(c, t, s, g, I, u, v, k, J) /\ Half(o, u, v, k, J, t, s, g, I)
      BY DEF Whole
  <1> HIDE DEF o
  <1>2. /\ Typed(t, s, g, I) /\ Resting(t) /\ Youth(c, t, s, g)
        /\ Sending(c, t, s, u, k) /\ Timed(c, t) /\ Flushing(c, t, s, u, k)
        /\ Receiving(c, t, g, u, v) /\ Stream(t, g, v)
        /\ AcksFit(c, t, s, I, u, k) /\ SameAcks(c, t, I, u)
        /\ Fins(t, I, u) /\ Datas(c, t, g, I, v) /\ Syns(c, I)
        /\ Strange(c, t, I, u, J) /\ Calling(c, t, I, u, v, J)
      BY <1>1 DEF Half
  <1>3. /\ Typed(u, v, k, J) /\ Resting(u) /\ Youth(o, u, v, k)
        /\ Sending(o, u, v, t, g) /\ Timed(o, u) /\ Flushing(o, u, v, t, g)
        /\ Receiving(o, u, k, t, s) /\ Stream(u, k, s)
        /\ AcksFit(o, u, v, J, t, g) /\ SameAcks(o, u, J, t)
        /\ Fins(u, J, t) /\ Datas(o, u, k, J, s) /\ Syns(o, J)
        /\ Strange(o, u, J, t, I) /\ Calling(o, u, J, t, s, I)
      BY <1>1 DEF Half
  <1>4. Typed(t, s, g, L)
      BY <1>2 DEF Typed
  <1>5. AcksFit(c, t, s, L, u, k)
      BY <1>2 DEF AcksFit
  <1>6. SameAcks(c, t, L, u)
      BY <1>2 DEF SameAcks
  <1>7. Fins(t, L, u)
      BY <1>2 DEF Fins
  <1>8. Datas(c, t, g, L, v)
      BY <1>2 DEF Datas
  <1>9. Syns(c, L)
      BY <1>2 DEF Syns
  <1>10. Strange(c, t, L, u, J)
      BY <1>2 DEF Strange
  <1>11. Calling(c, t, L, u, v, J)
      BY <1>2 DEF Calling
  <1>12. Strange(o, u, J, t, L)
      BY <1>3 DEF Strange
  <1>13. Calling(o, u, J, t, s, L)
      BY <1>3 DEF Calling
  <1>14. Half(c, t, s, g, L, u, v, k, J)
      BY <1>2, <1>4, <1>5, <1>6, <1>7, <1>8, <1>9, <1>10, <1>11 DEF Half
  <1>15. Half(o, u, v, k, J, t, s, g, L)
      BY <1>3, <1>12, <1>13 DEF Half
  <1> QED  BY <1>14, <1>15 DEF Whole, o

LEMMA WholeOf ==
    ASSUME OneCaller, NEW T, NEW N, NEW S, NEW R, Hold(T, N, S, R), NEW e \in Host
    PROVE  Whole(Role(e), T[e], S[e], Len(R[e]) + Len(T[e].rxbuf), Elems(N[e]),
                 T[Peer(e)], S[Peer(e)], Len(R[Peer(e)]) + Len(T[Peer(e)].rxbuf), Elems(N[Peer(e)]))
  <1> DEFINE p == Peer(e)
  <1>1. p \in Host /\ Peer(p) = e /\ Role(p) = Other(Role(e))
      BY PeerFacts, RoleFacts
  <1> HIDE DEF p
  <1>2. Half(Role(e), T[e], S[e], Len(R[e]) + Len(T[e].rxbuf), Elems(N[e]),
             T[Peer(e)], S[Peer(e)], Len(R[Peer(e)]) + Len(T[Peer(e)].rxbuf), Elems(N[Peer(e)]))
      BY DEF Hold
  <1>3. Half(Role(p), T[p], S[p], Len(R[p]) + Len(T[p].rxbuf), Elems(N[p]),
             T[Peer(p)], S[Peer(p)], Len(R[Peer(p)]) + Len(T[Peer(p)].rxbuf), Elems(N[Peer(p)]))
      BY <1>1 DEF Hold
  <1>4. Half(Other(Role(e)), T[p], S[p], Len(R[p]) + Len(T[p].rxbuf), Elems(N[p]),
             T[e], S[e], Len(R[e]) + Len(T[e].rxbuf), Elems(N[e]))
      BY <1>1, <1>3
  <1> QED  BY <1>2, <1>4 DEF Whole, p

\* What the world of host e is, but for what e itself has accepted and read.
Around(w, e, T, N, S, R) ==
    /\ w.c = Role(e) /\ w.I = Elems(N[e]) /\ w.u = T[Peer(e)] /\ w.v = S[Peer(e)]
    /\ w.k = Len(R[Peer(e)]) + Len(T[Peer(e)].rxbuf) /\ w.J = Elems(N[Peer(e)])

LEMMA WorldOf ==
    ASSUME OneCaller, NEW T, NEW N, NEW S, NEW R, Hold(T, N, S, R), NEW e \in Host,
           NEW w, Around(w, e, T, N, S, R), w.s = S[e], w.r = Len(R[e]),
           NEW h, h.t = T[e], h.out = <<>>, h \in Handlers
    PROVE  World(w, h)
  <1>1. Whole(Role(e), T[e], S[e], Len(R[e]) + Len(T[e].rxbuf), Elems(N[e]),
              T[Peer(e)], S[Peer(e)], Len(R[Peer(e)]) + Len(T[Peer(e)].rxbuf), Elems(N[Peer(e)]))
      BY WholeOf
  <1>2. Out(h) = {}
      BY OutFacts
  <1>3. w.J \cup Out(h) = Elems(N[Peer(e)])
      BY <1>2 DEF Around
  <1>4. Role(e) \in Roles
      BY RoleFacts
  <1>5. w.r \in Nat
    <2>1. R[e] \in Seq(Bytes)
        BY DEF Hold
    <2> QED  BY <2>1
  <1> QED  BY <1>1, <1>3, <1>4, <1>5 DEF World, Around

\* Host e has now accepted w.s bytes and read w.r, in order; its peer's S and R are as they were.
Accounted(w, e, S, R, S2, R2) ==
    /\ S2 \in [Host -> Nat] /\ S2[Peer(e)] = S[Peer(e)] /\ S2[e] = w.s /\ w.s <= Quota[e]
    /\ R2 \in [Host -> Seq(Bytes)] /\ R2[Peer(e)] = R[Peer(e)] /\ Len(R2[e]) = w.r
    /\ \A i \in 1..Len(R2[e]) : R2[e][i] = i

LEMMA HoldStep ==
    ASSUME OneCaller, NEW T, NEW N, NEW S, NEW R, Hold(T, N, S, R), NEW e \in Host,
           NEW w, Around(w, e, T, N, S, R), NEW g, World(w, g), Calm(g.t),
           NEW S2, NEW R2, Accounted(w, e, S, R, S2, R2),
           NEW rest \in Seq(Segments), Elems(rest) \subseteq Elems(N[e])
    PROVE  Hold([T EXCEPT ![e] = g.t], [N EXCEPT ![e] = rest, ![Peer(e)] = @ \o g.out], S2, R2)
  <1> DEFINE p == Peer(e)
             T2 == [T EXCEPT ![e] = g.t]
             N2 == [N EXCEPT ![e] = rest, ![p] = @ \o g.out]
  <1>1. p \in Host /\ p # e /\ Peer(p) = e /\ \A f \in Host : f = e \/ f = p
      BY PeerFacts
  <1>2. T \in [Host -> Tcbs] /\ N \in [Host -> Seq(Segments)]
      BY DEF Hold
  <1>3. g \in Handlers /\ g.t \in Tcbs /\ g.out \in Seq(Segments)
    <2>1. g \in Handlers
        BY WorldParts
    <2> QED  BY <2>1 DEF Handlers
  <1>d. p = Peer(e)
      OBVIOUS
  <1> HIDE DEF p
  <1>h. /\ S2 \in [Host -> Nat] /\ S2[p] = S[p] /\ S2[e] = w.s /\ w.s <= Quota[e]
        /\ R2 \in [Host -> Seq(Bytes)] /\ R2[p] = R[p] /\ Len(R2[e]) = w.r
        /\ \A i \in 1..Len(R2[e]) : R2[e][i] = i
      BY <1>d DEF Accounted
  <1>4. T2[e] = g.t /\ T2[p] = T[p] /\ T2 \in [Host -> Tcbs]
      BY <1>1, <1>2, <1>3
  <1>5. Elems(N[p] \o g.out) = Elems(N[p]) \cup Elems(g.out) /\ N[p] \o g.out \in Seq(Segments)
      BY <1>1, <1>2, <1>3, ElemsOfConcat
  <1>6. N2[e] = rest /\ N2[p] = N[p] \o g.out /\ N2 \in [Host -> Seq(Segments)]
      BY <1>1, <1>2, <1>5
  <1>7. Elems(g.out) = Out(g)
      BY DEF Elems, Out
  <1>8. Elems(N2[p]) = w.J \cup Out(g)
      BY <1>5, <1>6, <1>7, <1>d DEF Around
  <1>9. w.c \in Roles /\ Whole(w.c, g.t, w.s, w.r + Len(g.t.rxbuf), w.I, w.u, w.v, w.k, w.J \cup Out(g))
      BY WorldParts
  <1>10. Elems(N2[e]) \subseteq w.I
      BY <1>6 DEF Around
  <1> HIDE DEF T2, N2
  <1>11. Whole(w.c, g.t, w.s, w.r + Len(g.t.rxbuf), Elems(N2[e]), w.u, w.v, w.k, w.J \cup Out(g))
      BY <1>9, <1>10, Loses
  <1>12. Whole(Role(e), T2[e], S2[e], Len(R2[e]) + Len(T2[e].rxbuf), Elems(N2[e]),
               T2[p], S2[p], Len(R2[p]) + Len(T2[p].rxbuf), Elems(N2[p]))
      BY <1>4, <1>8, <1>11, <1>d, <1>h DEF Around
  <1>13. Role(p) = Other(Role(e))
      BY RoleFacts, <1>d
  <1>14. /\ Half(Role(e), T2[e], S2[e], Len(R2[e]) + Len(T2[e].rxbuf), Elems(N2[e]),
                 T2[p], S2[p], Len(R2[p]) + Len(T2[p].rxbuf), Elems(N2[p]))
         /\ Half(Role(p), T2[p], S2[p], Len(R2[p]) + Len(T2[p].rxbuf), Elems(N2[p]),
                 T2[e], S2[e], Len(R2[e]) + Len(T2[e].rxbuf), Elems(N2[e]))
      BY <1>12, <1>13 DEF Whole
  <1>15. Calm(T2[p]) /\ S2[p] <= Quota[p] /\ \A i \in 1..Len(R2[p]) : R2[p][i] = i
    <2>1. Calm(T[p]) /\ S[p] <= Quota[p] /\ \A i \in 1..Len(R[p]) : R[p][i] = i
        BY <1>1 DEF Hold
    <2> QED  BY <1>4, <1>h, <2>1
  <1>16. Calm(T2[e]) /\ S2[e] <= Quota[e] /\ \A i \in 1..Len(R2[e]) : R2[e][i] = i
      BY <1>4, <1>h
  <1>17. ASSUME NEW f \in Host
        PROVE  /\ Calm(T2[f]) /\ S2[f] <= Quota[f]
               /\ \A i \in 1..Len(R2[f]) : R2[f][i] = i
               /\ Half(Role(f), T2[f], S2[f], Len(R2[f]) + Len(T2[f].rxbuf), Elems(N2[f]),
                       T2[Peer(f)], S2[Peer(f)], Len(R2[Peer(f)]) + Len(T2[Peer(f)].rxbuf), Elems(N2[Peer(f)]))
    <2>1. CASE f = e
        BY <1>14, <1>16, <1>d, <2>1
    <2>2. CASE f = p
        BY <1>1, <1>14, <1>15, <2>2
    <2> QED  BY <1>1, <2>1, <2>2
  <1>18. Hold(T2, N2, S2, R2)
      BY <1>4, <1>6, <1>17, <1>h DEF Hold
  <1> QED  BY <1>18 DEF T2, N2, p

-----------------------------------------------------------------------------
(* The actions                                                             *)

\* SYNs and SYN|ACKs have not carried a listener's numbers half around the circle.
FewSyns == \A e \in Host : tcb[e].state \in {"LISTEN", "SYN_RECEIVED"} => 2 * (tcb[e].sendnext + 1) < SeqSize

\* The world of host e when it has accepted s bytes and read r.
WorldAt(e, s, r) ==
    [c |-> Role(e), s |-> s, r |-> r, I |-> Elems(net[e]), u |-> tcb[Peer(e)],
     v |-> sent[Peer(e)], k |-> Len(read[Peer(e)]) + Len(tcb[Peer(e)].rxbuf), J |-> Elems(net[Peer(e)])]
WorldNow(e) == WorldAt(e, sent[e], Len(read[e]))

LEMMA WorldAtFacts ==
    ASSUME NEW e, NEW s, NEW r
    PROVE  /\ Around(WorldAt(e, s, r), e, tcb, net, sent, read)
           /\ WorldAt(e, s, r).s = s /\ WorldAt(e, s, r).r = r
           /\ WorldAt(e, s, r).c = Role(e) /\ WorldAt(e, s, r).I = Elems(net[e])
           /\ \A s2, r2 : Beside(WorldAt(e, s, r), WorldAt(e, s2, r2))
  BY DEF WorldAt, Around, Beside

LEMMA HandlerFacts ==
    ASSUME WInv, NEW e \in Host, NEW b \in BOOLEAN
    PROVE  /\ Handler(e, b) \in Handlers /\ Handler(e, b).t = tcb[e]
           /\ Handler(e, b).out = <<>> /\ Handler(e, b).ebuf = b
  <1> DEFINE o == <<>>
  <1>1. tcb[e] \in Tcbs
      BY DEF WInv, Hold
  <1>2. o \in Seq(Segments)
      OBVIOUS
  <1>3. Handler(e, b) = [t |-> tcb[e], out |-> o, ebuf |-> b]
      BY DEF Handler
  <1>4. o = <<>>
      OBVIOUS
  <1> HIDE DEF o
  <1>5. /\ Handler(e, b) \in Handlers /\ Handler(e, b).t = tcb[e]
        /\ Handler(e, b).out = o /\ Handler(e, b).ebuf = b
      BY <1>1, <1>2, <1>3 DEF Handlers
  <1> QED  BY <1>4, <1>5

LEMMA WInvFacts ==
    ASSUME WInv, NEW e \in Host
    PROVE  /\ tcb[e] \in Tcbs /\ net[e] \in Seq(Segments) /\ sent[e] \in Nat
           /\ read[e] \in Seq(Bytes) /\ Len(read[e]) \in Nat
           /\ sent \in [Host -> Nat] /\ read \in [Host -> Seq(Bytes)] /\ tcb \in [Host -> Tcbs]
           /\ net \in [Host -> Seq(Segments)]
           /\ Calm(tcb[e]) /\ sent[e] <= Quota[e]
           /\ \A i \in 1..Len(read[e]) : read[e][i] = i
           /\ tcb[e].rxbuf \in Buffers /\ tcb[e].txbuf \in Buffers
  <1>1. /\ tcb[e] \in Tcbs /\ net[e] \in Seq(Segments) /\ sent[e] \in Nat
        /\ read[e] \in Seq(Bytes)
        /\ sent \in [Host -> Nat] /\ read \in [Host -> Seq(Bytes)] /\ tcb \in [Host -> Tcbs]
        /\ net \in [Host -> Seq(Segments)]
        /\ Calm(tcb[e]) /\ sent[e] <= Quota[e]
        /\ \A i \in 1..Len(read[e]) : read[e][i] = i
      BY DEF WInv, Hold
  <1> QED  BY <1>1 DEF Tcbs

LEMMA WorldBefore ==
    ASSUME OneCaller, WInv, NEW e \in Host, NEW b \in BOOLEAN
    PROVE  World(WorldNow(e), Handler(e, b))
  <1> DEFINE w == WorldNow(e)
             h == Handler(e, b)
  <1>1. Around(w, e, tcb, net, sent, read) /\ w.s = sent[e] /\ w.r = Len(read[e])
      BY WorldAtFacts DEF WorldNow
  <1>2. h \in Handlers /\ h.t = tcb[e] /\ h.out = <<>>
      BY HandlerFacts
  <1>3. Hold(tcb, net, sent, read)
      BY DEF WInv
  <1> HIDE DEF w, h
  <1>4. World(w, h)
      BY <1>1, <1>2, <1>3, WorldOf
  <1> QED  BY <1>4 DEF w, h

\* What a step of host e does to the peer's control block, and to the ack it owes.
Minded(e) == /\ tcb'[Peer(e)] = tcb[Peer(e)]
             /\ "noebuf" \notin Faults /\ Owed(tcb[e]) => Owed(tcb'[e])

\* The end of a call.
LEMMA CallEnds ==
    ASSUME OneCaller, WInv, NEW e \in Host, NEW b \in BOOLEAN, b \/ "noebuf" \in Faults,
           NEW w, Around(w, e, tcb, net, sent, read),
           Accounted(w, e, sent, read, sent', read'),
           NEW g, Goes(w, Handler(e, b), g),
           NEW rest \in Seq(Segments), Elems(rest) \subseteq Elems(net[e]), Ends(e, g, rest)
    PROVE  Hold(tcb', net', sent', read') /\ Minded(e) /\ tcb'[e] = g.t
  <1> DEFINE h == Handler(e, b)
             S2 == sent'
             R2 == read'
  <1>1. h \in Handlers /\ h.t = tcb[e] /\ h.ebuf = b
      BY HandlerFacts
  <1>2. World(w, g) /\ Fits(h, g)
      BY DEF Goes
  <1>3. Calm(tcb[e]) /\ tcb \in [Host -> Tcbs]
      BY WInvFacts
  <1> HIDE DEF h
  <1>4. Calm(g.t) /\ (b /\ Owed(tcb[e]) => Owed(g.t))
      BY <1>1, <1>2, <1>3 DEF Fits
  <1>5. Accounted(w, e, sent, read, S2, R2)
      OBVIOUS
  <1>6. Hold(tcb, net, sent, read)
      BY DEF WInv
  <1>7. /\ tcb' = [tcb EXCEPT ![e] = g.t]
        /\ net' = [net EXCEPT ![e] = rest, ![Peer(e)] = @ \o g.out]
      BY DEF Ends
  <1> HIDE DEF S2, R2
  <1>8. Hold([tcb EXCEPT ![e] = g.t], [net EXCEPT ![e] = rest, ![Peer(e)] = @ \o g.out], S2, R2)
      BY <1>2, <1>4, <1>5, <1>6, HoldStep
  <1>9. Hold(tcb', net', sent', read')
      BY <1>7, <1>8 DEF S2, R2
  <1>10. tcb'[e] = g.t /\ tcb'[Peer(e)] = tcb[Peer(e)]
      BY <1>3, <1>7, PeerFacts
  <1> QED  BY <1>4, <1>9, <1>10 DEF Minded

\* A call that neither accepts bytes nor hands any over.
LEMMA QuietCallEnds ==
    ASSUME OneCaller, WInv, NEW e \in Host, NEW b \in BOOLEAN, b \/ "noebuf" \in Faults,
           NEW g, Goes(WorldNow(e), Handler(e, b), g),
           NEW rest \in Seq(Segments), Elems(rest) \subseteq Elems(net[e]), Ends(e, g, rest),
           UNCHANGED <<sent, read>>
    PROVE  Hold(tcb', net', sent', read') /\ Minded(e) /\ tcb'[e] = g.t
  <1> DEFINE w == WorldNow(e)
  <1>1. Around(w, e, tcb, net, sent, read) /\ w.s = sent[e] /\ w.r = Len(read[e])
      BY WorldAtFacts DEF WorldNow
  <1>2. Goes(w, Handler(e, b), g)
      OBVIOUS
  <1>3. /\ sent[e] <= Quota[e] /\ sent \in [Host -> Nat] /\ read \in [Host -> Seq(Bytes)]
        /\ \A i \in 1..Len(read[e]) : read[e][i] = i
      BY WInvFacts
  <1>4. sent' = sent /\ read' = read
      OBVIOUS
  <1> HIDE DEF w
  <1>5. Accounted(w, e, sent, read, sent', read')
      BY <1>1, <1>3, <1>4 DEF Accounted
  <1> QED  BY <1>1, <1>2, <1>5, CallEnds

LEMMA PoolFacts ==
    ASSUME NEW b \in BOOLEAN, Pool(b)
    PROVE  b \/ "noebuf" \in Faults
  BY DEF Pool, Fault

LEMMA UserConnectHolds ==
    ASSUME OneCaller, WInv, NEW e \in Host, UserConnect(e)
    PROVE  Hold(tcb', net', sent', read') /\ Minded(e)
  <1> DEFINE h == Handler(e, TRUE)
             w == WorldNow(e)
             g == Connect(h, Iss)
  <1>1. World(w, h)
      BY WorldBefore
  <1>2. h.t = tcb[e] /\ w.c = Role(e)
    <2>1. h.t = tcb[e]
        BY HandlerFacts
    <2>2. w.c = Role(e)
        BY WorldAtFacts DEF WorldNow
    <2> QED  BY <2>1, <2>2
  <1>3. IsFresh(h.t) /\ w.c = "caller"
      BY <1>2 DEF UserConnect, Fresh, IsFresh, Role
  <1>4. Goes(w, h, g)
    <2> HIDE DEF h, w
    <2> QED  BY <1>1, <1>3, ConnectGoes
  <1>5. Ends(e, g, net[e]) /\ UNCHANGED <<sent, read>> /\ net[e] \in Seq(Segments)
      BY WInvFacts DEF UserConnect
  <1> HIDE DEF g
  <1> QED  BY <1>4, <1>5, QuietCallEnds

LEMMA UserListenHolds ==
    ASSUME OneCaller, WInv, NEW e \in Host, UserListen(e)
    PROVE  Hold(tcb', net', sent', read') /\ Minded(e)
  <1> DEFINE h == Handler(e, TRUE)
             w == WorldNow(e)
             g == Listen(h)
  <1>1. World(w, h)
      BY WorldBefore
  <1>2. h.t = tcb[e] /\ w.c = Role(e)
    <2>1. h.t = tcb[e]
        BY HandlerFacts
    <2>2. w.c = Role(e)
        BY WorldAtFacts DEF WorldNow
    <2> QED  BY <2>1, <2>2
  <1>3. IsFresh(h.t) /\ w.c = "listener"
      BY <1>2 DEF UserListen, Fresh, IsFresh, Role
  <1>4. Goes(w, h, g)
    <2> HIDE DEF h, w
    <2> QED  BY <1>1, <1>3, ListenGoes
  <1>5. Ends(e, g, net[e]) /\ UNCHANGED <<sent, read>> /\ net[e] \in Seq(Segments)
      BY WInvFacts DEF UserListen
  <1> HIDE DEF g
  <1> QED  BY <1>4, <1>5, QuietCallEnds

LEMMA UserCloseHolds ==
    ASSUME OneCaller, WInv, NEW e \in Host, NEW b \in BOOLEAN, UserClose(e, b)
    PROVE  Hold(tcb', net', sent', read') /\ Minded(e)
  <1> DEFINE h == Handler(e, b)
             w == WorldNow(e)
             g == Close(h)
  <1>1. World(w, h)
      BY WorldBefore
  <1>2. h.t = tcb[e]
      BY HandlerFacts
  <1>3. h.t.sock /\ ~IsFresh(h.t)
      BY <1>2 DEF UserClose, Fresh, IsFresh
  <1>4. Goes(w, h, g)
    <2> HIDE DEF h, w
    <2> QED  BY <1>1, <1>3, CloseGoes
  <1>5. Ends(e, g, net[e]) /\ UNCHANGED <<sent, read>> /\ net[e] \in Seq(Segments)
      BY WInvFacts DEF UserClose
  <1>6. b \/ "noebuf" \in Faults
      BY PoolFacts DEF UserClose
  <1> HIDE DEF g
  <1> QED  BY <1>4, <1>5, <1>6, QuietCallEnds

LEMMA TimerPollHolds ==
    ASSUME OneCaller, WInv, NEW e \in Host, NEW expired, TimerPoll(e, expired)
    PROVE  Hold(tcb', net', sent', read') /\ Minded(e)
  <1>1. PICK b \in BOOLEAN : /\ Ends(e, Poll(Handler(e, b), expired), net[e])
                             /\ Pool(b) \/ b
      BY DEF TimerPoll
  <1> DEFINE h == Handler(e, b)
             w == WorldNow(e)
             g == Poll(h, expired)
  <1>2. World(w, h)
      BY WorldBefore
  <1>3. Goes(w, h, g)
    <2> HIDE DEF h, w
    <2> QED  BY <1>2, PollGoes
  <1>4. Ends(e, g, net[e]) /\ UNCHANGED <<sent, read>> /\ net[e] \in Seq(Segments)
      BY <1>1, WInvFacts DEF TimerPoll
  <1>5. b \/ "noebuf" \in Faults
      BY <1>1, PoolFacts
  <1> HIDE DEF g
  <1> QED  BY <1>3, <1>4, <1>5, QuietCallEnds

LEMMA LoseHolds ==
    ASSUME OneCaller, WInv, NEW e \in Host, Lose(e)
    PROVE  Hold(tcb', net', sent', read') /\ tcb' = tcb
  <1> DEFINE h == Handler(e, TRUE)
             w == WorldNow(e)
             rest == Tail(net[e])
  <1>1. World(w, h)
      BY WorldBefore
  <1>2. h \in Handlers /\ h.t = tcb[e] /\ h.out = <<>>
      BY HandlerFacts
  <1>3. /\ net[e] \in Seq(Segments) /\ net[e] # <<>> /\ net \in [Host -> Seq(Segments)]
        /\ net' = [net EXCEPT ![e] = rest] /\ tcb' = tcb /\ sent' = sent /\ read' = read
        /\ tcb \in [Host -> Tcbs]
      BY WInvFacts DEF Lose
  <1>4. rest \in Seq(Segments) /\ Elems(rest) \subseteq Elems(net[e])
    <2>1. /\ rest \in Seq(Segments) /\ Len(rest) = Len(net[e]) - 1
          /\ \A i \in 1..Len(rest) : rest[i] = net[e][i + 1]
        BY <1>3, HeadTailProperties
    <2>2. Len(net[e]) \in Nat
        BY <1>3
    <2> HIDE DEF rest
    <2> QED  BY <2>1, <2>2 DEF Elems
  <1>5. Goes(w, h, h)
      BY <1>1, <1>2, FitsItself DEF Goes
  <1>6. Ends(e, h, rest)
    <2> HIDE DEF rest
    <2>1. [tcb EXCEPT ![e] = h.t] = tcb
        BY <1>2, <1>3
    <2>2. /\ Peer(e) \in Host /\ Peer(e) # e
        BY PeerFacts
    <2>3. net[Peer(e)] \o h.out = net[Peer(e)]
      <3>1. net[Peer(e)] \in Seq(Segments)
          BY <1>3, <2>2
      <3> DEFINE q == net[Peer(e)]
      <3> HIDE DEF q
      <3>2. q \in Seq(Segments)
          BY <3>1 DEF q
      <3>3. q \o <<>> = q
          BY <3>2, ConcatEmptySeq
      <3> QED  BY <1>2, <3>3 DEF q
    <2>4. [net EXCEPT ![e] = rest, ![Peer(e)] = @ \o h.out] = [net EXCEPT ![e] = rest]
        BY <1>3, <2>2, <2>3
    <2> QED  BY <1>3, <2>1, <2>4 DEF Ends
  <1> HIDE DEF h, rest
  <1>7. Hold(tcb', net', sent', read')
      BY <1>3, <1>4, <1>5, <1>6, QuietCallEnds DEF h
  <1> QED  BY <1>3, <1>7

LEMMA UserSendHolds ==
    ASSUME OneCaller, ModestQuota, WInv, NEW e \in Host, NEW n \in 1 .. Quota[e] - sent[e],
           NEW b \in BOOLEAN, UserSend(e, n, b)
    PROVE  Hold(tcb', net', sent', read') /\ Minded(e)
  <1> DEFINE s == sent[e]
             d == [i \in 1..n |-> s + i]
             h == Handler(e, b)
             l == Len(Accepted(h.t, d))
             w == WorldNow(e)
             w2 == WorldAt(e, s + l, Len(read[e]))
             g == Send(h, d)
  <1>1. World(w, h)
      BY WorldBefore
  <1>2. h.t = tcb[e] /\ h \in Handlers
      BY HandlerFacts
  <1>3. s \in Nat /\ s <= Quota[e] /\ sent \in [Host -> Nat] /\ read \in [Host -> Seq(Bytes)]
        /\ net[e] \in Seq(Segments) /\ \A i \in 1..Len(read[e]) : read[e][i] = i
      BY WInvFacts
  <1>4. Quota[e] \in Nat /\ 2 * Quota[e] < SeqSize
      BY BoundsAssumption DEF ModestQuota
  <1>5. n \in Nat /\ s + n <= Quota[e]
      BY <1>3, <1>4
  <1>s. s = sent[e]
      OBVIOUS
  <1> HIDE DEF s
  <1>6. d \in Seq(Bytes) /\ Len(d) = n /\ \A j \in 1..Len(d) : d[j] = s + j
    <2>1. \A i \in 1..n : s + i \in Bytes
        BY <1>3, <1>5, <1>s DEF Bytes
    <2>2. d \in [1..n -> Bytes]
        BY <2>1
    <2>3. d \in Seq(Bytes) /\ Len(d) = n
        BY <1>5, <2>2
    <2> QED  BY <2>3
  <1> HIDE DEF d
  <1>7. l \in Nat /\ l <= n
    <2> HIDE DEF h
    <2> QED  BY <1>2, <1>6, SendFacts
  <1>8. /\ w.s = s /\ w.r = Len(read[e]) /\ w2.s = s + l /\ w2.r = Len(read[e])
        /\ Beside(w, w2) /\ Around(w2, e, tcb, net, sent, read)
      BY WorldAtFacts, <1>s DEF WorldNow
  <1>9. IsOpen(h.t)
      BY <1>2 DEF UserSend, IsOpen
  <1>l. l = Len(Accepted(h.t, d))
      OBVIOUS
  <1>10. /\ sent' = [sent EXCEPT ![e] = s + l] /\ read' = read
         /\ Ends(e, g, net[e]) /\ Pool(b)
    <2>1. d = [i \in 1..n |-> sent[e] + i]
        BY <1>s DEF d
    <2>2. /\ sent' = [sent EXCEPT ![e] = @ + Len(Accepted(tcb[e], d))]
          /\ Ends(e, Send(Handler(e, b), d), net[e]) /\ Pool(b) /\ read' = read
        BY <2>1 DEF UserSend
    <2>3. l = Len(Accepted(tcb[e], d))
        BY <1>2, <1>l
    <2> HIDE DEF h, l
    <2> QED  BY <1>s, <2>2, <2>3 DEF h
  <1> HIDE DEF l, w, w2, g, h
  <1>11. w2.s <= Quota[e] /\ 2 * w2.s < SeqSize
      BY <1>3, <1>4, <1>5, <1>7, <1>8, Sizes
  <1>12. Goes(w2, h, g)
      BY <1>1, <1>6, <1>8, <1>9, <1>11, <1>l, SendGoes DEF g
  <1>13. sent' \in [Host -> Nat] /\ sent'[Peer(e)] = sent[Peer(e)] /\ sent'[e] = w2.s
      BY <1>3, <1>7, <1>8, <1>10, PeerFacts
  <1>14. b \/ "noebuf" \in Faults
      BY <1>10, PoolFacts
  <1>15. Elems(net[e]) \subseteq Elems(net[e])
      OBVIOUS
  <1>16. Accounted(w2, e, sent, read, sent', read')
      BY <1>3, <1>8, <1>10, <1>11, <1>13 DEF Accounted
  <1> QED  BY <1>3, <1>8, <1>10, <1>12, <1>14, <1>15, <1>16, CallEnds DEF h

LEMMA UserRecvHolds ==
    ASSUME OneCaller, WInv, NEW e \in Host, NEW want \in 1 .. Len(tcb[e].rxbuf), UserRecv(e, want)
    PROVE  Hold(tcb', net', sent', read') /\ Minded(e)
  <1> DEFINE q == tcb[e].rxbuf
             r == read[e]
             a == SubSeq(q, 1, want)
             h == Handler(e, TRUE)
             w == WorldNow(e)
             w2 == WorldAt(e, sent[e], Len(r) + want)
             g == Recv(h, want)
  <1>1. World(w, h)
      BY WorldBefore
  <1>2. h.t = tcb[e] /\ h \in Handlers
      BY HandlerFacts
  <1>3. /\ sent[e] <= Quota[e] /\ sent \in [Host -> Nat] /\ read \in [Host -> Seq(Bytes)]
        /\ net[e] \in Seq(Segments) /\ \A i \in 1..Len(r) : r[i] = i
        /\ r \in Seq(Bytes) /\ q \in Buffers
      BY WInvFacts
  <1>4. q \in Seq(Bytes) /\ Len(q) \in Nat /\ Len(r) \in Nat /\ want \in Nat
        /\ want <= Len(q) /\ want \in 0..Len(q)
      BY <1>3, BufferFacts
  <1>5. \A j \in 1..Len(q) : q[j] = Len(r) + j
    <2> DEFINE t == h.t
    <2>0. w.r = Len(r)
        BY WorldAtFacts DEF WorldNow
    <2>1. Stream(t, w.r + Len(t.rxbuf), w.v) /\ w.r = Len(r)
      <3> HIDE DEF w, h, r
      <3> QED  BY <1>1, <2>0, WorldParts
    <2>2. t.rxbuf = q
        BY <1>2
    <2> HIDE DEF t, q
    <2>3. \A j \in 1..Len(q) : q[j] = Len(r) + Len(q) - Len(q) + j
        BY <2>1, <2>2 DEF Stream
    <2> QED  BY <1>4, <2>3
  <1>6. a \in Seq(Bytes) /\ Len(a) = want /\ \A j \in 1..want : a[j] = q[j]
    <2>1. \A i \in 1..want : q[i] \in Bytes
      <3> HIDE DEF q
      <3> QED  BY <1>4, ElementOfSeq
    <2> HIDE DEF q
    <2>2. /\ a \in Seq(Bytes) /\ Len(a) = IF 1 <= want THEN want - 1 + 1 ELSE 0
          /\ \A i \in 1 .. want - 1 + 1 : a[i] = q[1 + i - 1]
        BY <1>4, <2>1, SubSeqProperties
    <2>3. want - 1 + 1 = want /\ 1 <= want /\ \A i \in 1..want : 1 + i - 1 = i
        BY <1>4
    <2> HIDE DEF a
    <2> QED  BY <2>2, <2>3
  <1>7. /\ w.r = Len(r) /\ w.s = sent[e] /\ w2.s = sent[e] /\ w2.r = Len(r) + want
        /\ Beside(w, w2) /\ Around(w2, e, tcb, net, sent, read)
      BY WorldAtFacts DEF WorldNow
  <1>8. h.t.state \in RECV_OK /\ want \in 0 .. Len(h.t.rxbuf)
      BY <1>2, <1>4 DEF UserRecv
  <1>9. read' = [read EXCEPT ![e] = r \o a] /\ sent' = sent /\ Ends(e, g, net[e])
      BY DEF UserRecv
  <1>10. /\ r \o a \in Seq(Bytes) /\ Len(r \o a) = Len(r) + want
         /\ \A i \in 1..Len(r \o a) : (r \o a)[i] = i
    <2> HIDE DEF r, a, q
    <2>1. /\ r \o a \in Seq(Bytes) /\ Len(r \o a) = Len(r) + Len(a)
          /\ \A i \in 1 .. Len(r) + Len(a) : (r \o a)[i] = IF i <= Len(r) THEN r[i] ELSE a[i - Len(r)]
        BY <1>3, <1>6, ConcatProperties
    <2>2. ASSUME NEW i \in 1..Len(r) + want
          PROVE  (r \o a)[i] = i
      <3>1. CASE i <= Len(r)
          BY <1>3, <1>4, <1>6, <2>1, <3>1
      <3>2. CASE i > Len(r)
        <4>1. i - Len(r) \in 1..want /\ i - Len(r) \in 1..Len(q) /\ Len(r) + (i - Len(r)) = i
            BY <1>4, <3>2
        <4>2. a[i - Len(r)] = Len(r) + (i - Len(r))
            BY <1>5, <1>6, <4>1
        <4>3. (r \o a)[i] = a[i - Len(r)]
            BY <1>4, <1>6, <2>1, <3>2
        <4> QED  BY <4>1, <4>2, <4>3
      <3>3. Len(r) \in Nat /\ i \in Nat
          BY <1>4
      <3>4. i <= Len(r) \/ i > Len(r)
          BY <3>3
      <3> QED  BY <3>1, <3>2, <3>4
    <2> QED  BY <1>6, <2>1, <2>2
  <1> HIDE DEF w, w2, g, h, a
  <1>11. Goes(w2, h, g)
      BY <1>1, <1>7, <1>8, RecvGoes DEF g
  <1>12. /\ read' \in [Host -> Seq(Bytes)] /\ read'[Peer(e)] = read[Peer(e)] /\ read'[e] = r \o a
      BY <1>3, <1>9, <1>10, PeerFacts
  <1>13. Elems(net[e]) \subseteq Elems(net[e])
      OBVIOUS
  <1>14. TRUE \in BOOLEAN
      OBVIOUS
  <1>15. Len(read'[e]) = w2.r /\ \A i \in 1..Len(read'[e]) : read'[e][i] = i
      BY <1>7, <1>10, <1>12
  <1>16. sent' \in [Host -> Nat] /\ sent'[Peer(e)] = sent[Peer(e)] /\ sent'[e] = w2.s /\ w2.s <= Quota[e]
      BY <1>3, <1>7, <1>9
  <1>17. Accounted(w2, e, sent, read, sent', read')
      BY <1>12, <1>15, <1>16 DEF Accounted
  <1> QED  BY <1>3, <1>7, <1>9, <1>11, <1>13, <1>14, <1>17, CallEnds DEF h

\* The answer to a segment that finds no control block.
LEMMA ResetSegment ==
    ASSUME NEW seg \in Segments
    PROVE  Reset(seg) \in Segments /\ Reset(seg).flags = {"ACK", "RST"} /\ Reset(seg).data = <<>>
  <1> DEFINE f == {"RST", "ACK"}
             a == Plus(seg.seq, 1)
             e == <<>>
  <1>1. f \in SUBSET HeaderFlags /\ f = {"ACK", "RST"}
      BY DEF HeaderFlags
  <1>2. a \in SeqNum /\ 0 \in SeqNum
    <2>1. seg.seq \in SeqNum
        BY DEF Segments
    <2>2. seg.seq \in Int /\ 1 \in Int /\ 0 \in SeqNum
        BY <2>1, Sizes DEF SeqNum
    <2> QED  BY <2>2, PlusType
  <1>3. e \in Loads /\ e = <<>> /\ 0 \in 0..BufSize
      BY NoBytes, Sizes
  <1>4. Reset(seg) = [flags |-> f, seq |-> 0, ack |-> a, win |-> 0, data |-> e]
      BY DEF Reset
  <1> HIDE DEF f, a, e
  <1>5. Reset(seg) \in Segments /\ Reset(seg).flags = f /\ Reset(seg).data = e
      BY <1>1, <1>2, <1>3, <1>4 DEF Segments
  <1> QED  BY <1>1, <1>3, <1>5

LEMMA UnfoundGoes ==
    ASSUME NEW w, NEW h, World(w, h), h.out = <<>>, NEW seg \in Segments,
           NEW g, g = [h EXCEPT !.out = IF h.ebuf THEN <<Reset(seg)>> ELSE <<>>]
    PROVE  Goes(w, h, g) /\ g.t = h.t
  <1> DEFINE x == Reset(seg)
             o == IF h.ebuf THEN <<x>> ELSE <<>>
             r == w.r + Len(h.t.rxbuf)
             N == Out(g)
  <1>1. x \in Segments /\ x.flags = {"ACK", "RST"} /\ x.data = <<>>
      BY ResetSegment
  <1>2. /\ w.c \in Roles /\ w.r \in Nat /\ h \in Handlers
        /\ Whole(w.c, h.t, w.s, r, w.I, w.u, w.v, w.k, w.J \cup Out(h))
      BY WorldParts
  <1>3. Out(h) = {} /\ w.J \cup Out(h) = w.J
      BY <1>2, OutFacts
  <1> HIDE DEF x
  <1>4. o \in Seq(Segments) /\ \A i \in 1..Len(o) : o[i] = x
    <2>1. CASE h.ebuf
      <3>1. o = <<x>> /\ <<x>> \in Seq(Segments) /\ Len(<<x>>) = 1 /\ <<x>>[1] = x
          BY <1>1, <2>1
      <3> HIDE DEF o
      <3> QED  BY <3>1
    <2>2. CASE ~h.ebuf
        BY <2>2
    <2> QED  BY <2>1, <2>2
  <1>o. g = [h EXCEPT !.out = o]
      BY DEF x
  <1> HIDE DEF o
  <1>5. g.t = h.t /\ g.out = o /\ g.ebuf = h.ebuf /\ g \in Handlers
      BY <1>2, <1>4, <1>o DEF Handlers
  <1>6. \A y \in N : y = x
      BY <1>4, <1>5 DEF Out
  <1>7. N \in SUBSET Segments
      BY <1>5, OutFacts
  <1> HIDE DEF r, N
  <1>8. \A y \in N : SendOk(w.c, h.t, w.s, w.u, w.k, y)
      BY <1>1, <1>6, RstSendOk
  <1>9. Whole(w.c, h.t, w.s, r, w.I, w.u, w.v, w.k, w.J \cup N)
      BY <1>2, <1>3, <1>7, <1>8, Sends
  <1>10. World(w, g)
      BY <1>2, <1>5, <1>9 DEF World, r, N
  <1>11. Fits(h, g)
      BY <1>5 DEF Fits
  <1> QED  BY <1>5, <1>10, <1>11 DEF Goes

\* What FollowsDiagram says of a segment that host e receives.
Drawn(e, seg) == "RST" \notin seg.flags => Arrow(tcb[e], tcb'[e])

LEMMA ReceiveHolds ==
    ASSUME OneCaller, WInv, FewSyns, NEW e \in Host, NEW b \in BOOLEAN, b \/ "noebuf" \in Faults,
           NEW seg \in Elems(net[e]), NEW rest \in Seq(Segments), Elems(rest) \subseteq Elems(net[e]),
           Receive(e, seg, rest, b), UNCHANGED <<sent, read>>
    PROVE  Hold(tcb', net', sent', read') /\ Minded(e) /\ Drawn(e, seg)
  <1> DEFINE h == Handler(e, b)
             w == WorldNow(e)
  <1>1. World(w, h)
      BY WorldBefore
  <1>2. h.t = tcb[e] /\ h \in Handlers /\ h.out = <<>> /\ h.ebuf = b
      BY HandlerFacts
  <1>3. w.I = Elems(net[e])
      BY WorldAtFacts DEF WorldNow
  <1> HIDE DEF h, w
  <1>4. Calm(h.t)
      BY <1>2, WInvFacts
  <1>5. seg \in w.I /\ seg \in Segments
      BY <1>1, <1>3, WorldParts
  <1>6. CASE Found(e)
    <2> DEFINE g == RxCallback(h, seg)
    <2>1. h.t.state # "FREE"
        BY <1>2, <1>6 DEF Found
    <2>2. h.t.state \in {"LISTEN", "SYN_RECEIVED"} => 2 * (h.t.sendnext + 1) < SeqSize
        BY <1>2 DEF FewSyns
    <2>3. Goes(w, h, g) /\ ("RST" \notin seg.flags => Arrow(h.t, g.t))
        BY <1>1, <1>4, <1>5, <2>1, <2>2, RxCallbackGoes
    <2>4. Ends(e, g, rest)
        BY <1>6 DEF Receive, h
    <2> HIDE DEF g
    <2>5. Hold(tcb', net', sent', read') /\ Minded(e) /\ tcb'[e] = g.t
        BY <2>3, <2>4, QuietCallEnds DEF h, w
    <2>6. Drawn(e, seg)
        BY <1>2, <2>3, <2>5 DEF Drawn
    <2> QED  BY <2>5, <2>6
  <1>7. CASE ~Found(e)
    <2> DEFINE g == [h EXCEPT !.out = IF b THEN <<Reset(seg)>> ELSE <<>>]
    <2>1. Ends(e, g, rest)
        BY <1>7 DEF Receive, h
    <2>2. g = [h EXCEPT !.out = IF h.ebuf THEN <<Reset(seg)>> ELSE <<>>]
        BY <1>2
    <2> HIDE DEF g
    <2>3. Goes(w, h, g) /\ g.t = h.t
        BY <1>1, <1>2, <1>5, <2>2, UnfoundGoes
    <2>4. Hold(tcb', net', sent', read') /\ Minded(e) /\ tcb'[e] = g.t
        BY <2>1, <2>3, QuietCallEnds DEF h, w
    <2>5. Drawn(e, seg)
        BY <1>2, <2>3, <2>4 DEF Drawn, Arrow
    <2> QED  BY <2>4, <2>5
  <1> QED  BY <1>6, <1>7

LEMMA HeadAndTail ==
    ASSUME NEW q \in Seq(Segments), q # <<>>
    PROVE  /\ Head(q) \in Elems(q) /\ Tail(q) \in Seq(Segments)
           /\ Elems(Tail(q)) \subseteq Elems(q)
  <1> DEFINE r == Tail(q)
  <1>1. /\ Head(q) = q[1] /\ r \in Seq(Segments) /\ Len(r) = Len(q) - 1
        /\ \A i \in 1..Len(r) : r[i] = q[i + 1]
      BY HeadTailProperties
  <1>2. Len(q) \in Nat /\ Len(q) # 0
      BY EmptySeq
  <1>3. 1 \in 1..Len(q)
      BY <1>2
  <1> HIDE DEF r
  <1>4. \A i \in 1..Len(r) : i + 1 \in 1..Len(q)
      BY <1>1, <1>2
  <1>5. Elems(r) \subseteq Elems(q)
      BY <1>1, <1>4 DEF Elems
  <1>6. Head(q) \in Elems(q)
      BY <1>1, <1>3 DEF Elems
  <1> QED  BY <1>1, <1>5, <1>6 DEF r

LEMMA WithoutOne ==
    ASSUME NEW q \in Seq(Segments), NEW i \in 1..Len(q)
    PROVE  RemoveAt(q, i) \in Seq(Segments) /\ Elems(RemoveAt(q, i)) \subseteq Elems(q)
  <1> DEFINE n == Len(q)
             a == SubSeq(q, 1, i - 1)
             b == SubSeq(q, i + 1, n)
  <1>1. n \in Nat /\ i \in Nat /\ i - 1 \in Int /\ i + 1 \in Int /\ n \in Int /\ i >= 1 /\ i <= n
      OBVIOUS
  <1>2. \A j \in 1..n : q[j] \in Segments
      BY ElementOfSeq
  <1>n. n = Len(q)
      OBVIOUS
  <1> HIDE DEF n
  <1>3. /\ a \in Seq(Segments) /\ Elems(a) \subseteq Elems(q)
    <2>1. \A j \in 1 .. i - 1 : j \in 1..n
        BY <1>1
    <2>2. \A j \in 1 .. i - 1 : q[j] \in Segments
        BY <1>2, <2>1
    <2>3. /\ a \in Seq(Segments)
          /\ Len(a) = IF 1 <= i - 1 THEN i - 1 - 1 + 1 ELSE 0
          /\ \A j \in 1 .. i - 1 - 1 + 1 : a[j] = q[1 + j - 1]
        BY <1>1, <2>2, SubSeqProperties
    <2> HIDE DEF a
    <2>4. ASSUME NEW j \in 1..Len(a)
          PROVE  a[j] \in Elems(q)
      <3>1. j \in 1 .. i - 1 - 1 + 1 /\ 1 + j - 1 \in 1..n
          BY <1>1, <2>3
      <3> QED  BY <2>3, <3>1, <1>n DEF Elems
    <2> QED  BY <2>3, <2>4 DEF Elems
  <1>4. /\ b \in Seq(Segments) /\ Elems(b) \subseteq Elems(q)
    <2>1. \A j \in i + 1 .. n : j \in 1..n
        BY <1>1
    <2>2. \A j \in i + 1 .. n : q[j] \in Segments
        BY <1>2, <2>1
    <2>3. /\ b \in Seq(Segments)
          /\ Len(b) = IF i + 1 <= n THEN n - (i + 1) + 1 ELSE 0
          /\ \A j \in 1 .. n - (i + 1) + 1 : b[j] = q[i + 1 + j - 1]
        BY <1>1, <2>2, SubSeqProperties
    <2> HIDE DEF b
    <2>4. ASSUME NEW j \in 1..Len(b)
          PROVE  b[j] \in Elems(q)
      <3>1. j \in 1 .. n - (i + 1) + 1 /\ i + 1 + j - 1 \in 1..n
          BY <1>1, <2>3
      <3> QED  BY <2>3, <3>1, <1>n DEF Elems
    <2> QED  BY <2>3, <2>4 DEF Elems
  <1> HIDE DEF a, b
  <1>5. Elems(a \o b) = Elems(a) \cup Elems(b) /\ a \o b \in Seq(Segments)
      BY <1>3, <1>4, ElemsOfConcat
  <1>6. RemoveAt(q, i) = a \o b
      BY <1>n DEF RemoveAt, a, b
  <1> QED  BY <1>3, <1>4, <1>5, <1>6

LEMMA DeliverHolds ==
    ASSUME OneCaller, WInv, FewSyns, NEW e \in Host, Deliver(e)
    PROVE  Hold(tcb', net', sent', read') /\ Minded(e) /\ Drawn(e, Head(net[e]))
  <1>1. net[e] \in Seq(Segments) /\ net[e] # <<>>
      BY WInvFacts DEF Deliver
  <1> DEFINE seg == Head(net[e])
             rest == Tail(net[e])
  <1>2. seg \in Elems(net[e]) /\ rest \in Seq(Segments) /\ Elems(rest) \subseteq Elems(net[e])
      BY <1>1, HeadAndTail
  <1>3. Receive(e, seg, rest, TRUE) /\ UNCHANGED <<sent, read>> /\ TRUE \in BOOLEAN
      BY DEF Deliver
  <1> HIDE DEF seg, rest
  <1>4. Hold(tcb', net', sent', read') /\ Minded(e) /\ Drawn(e, seg)
      BY <1>2, <1>3, ReceiveHolds
  <1> QED  BY <1>4 DEF seg

LEMMA DeliverWithoutPoolHolds ==
    ASSUME OneCaller, WInv, FewSyns, NEW e \in Host, DeliverWithoutPool(e)
    PROVE  Hold(tcb', net', sent', read') /\ Minded(e)
  <1>1. net[e] \in Seq(Segments) /\ net[e] # <<>>
      BY WInvFacts DEF DeliverWithoutPool
  <1> DEFINE seg == Head(net[e])
             rest == Tail(net[e])
  <1>2. seg \in Elems(net[e]) /\ rest \in Seq(Segments) /\ Elems(rest) \subseteq Elems(net[e])
      BY <1>1, HeadAndTail
  <1>3. /\ Receive(e, seg, rest, FALSE) /\ UNCHANGED <<sent, read>> /\ FALSE \in BOOLEAN
        /\ "noebuf" \in Faults
      BY DEF DeliverWithoutPool, Fault
  <1> HIDE DEF seg, rest
  <1> QED  BY <1>2, <1>3, ReceiveHolds

LEMMA DeliverDuplicateHolds ==
    ASSUME OneCaller, WInv, FewSyns, NEW e \in Host, DeliverDuplicate(e)
    PROVE  Hold(tcb', net', sent', read') /\ Minded(e)
  <1>1. net[e] \in Seq(Segments) /\ net[e] # <<>>
      BY WInvFacts DEF DeliverDuplicate
  <1> DEFINE seg == Head(net[e])
             rest == net[e]
  <1>2. seg \in Elems(net[e]) /\ rest \in Seq(Segments) /\ Elems(rest) \subseteq Elems(net[e])
      BY <1>1, HeadAndTail
  <1>3. Receive(e, seg, rest, TRUE) /\ UNCHANGED <<sent, read>> /\ TRUE \in BOOLEAN
      BY DEF DeliverDuplicate
  <1> HIDE DEF seg, rest
  <1> QED  BY <1>2, <1>3, ReceiveHolds

LEMMA DeliverOvertakingHolds ==
    ASSUME OneCaller, WInv, FewSyns, NEW e \in Host, DeliverOvertaking(e)
    PROVE  Hold(tcb', net', sent', read') /\ Minded(e)
  <1>1. net[e] \in Seq(Segments)
      BY WInvFacts
  <1>2. PICK i \in 2..Len(net[e]) : Receive(e, net[e][i], RemoveAt(net[e], i), TRUE)
      BY DEF DeliverOvertaking
  <1> DEFINE seg == net[e][i]
             rest == RemoveAt(net[e], i)
  <1>3. i \in 1..Len(net[e])
      BY <1>1
  <1>4. seg \in Elems(net[e]) /\ rest \in Seq(Segments) /\ Elems(rest) \subseteq Elems(net[e])
      BY <1>1, <1>3, WithoutOne DEF Elems
  <1>5. Receive(e, seg, rest, TRUE) /\ UNCHANGED <<sent, read>> /\ TRUE \in BOOLEAN
      BY <1>2 DEF DeliverOvertaking
  <1> HIDE DEF seg, rest
  <1> QED  BY <1>4, <1>5, ReceiveHolds

\* Every step of host e keeps the invariant, and what Minded says.
LEMMA HostStepHolds ==
    ASSUME OneCaller, ModestQuota, WInv, FewSyns, NEW e \in Host, HostStep(e)
    PROVE  Hold(tcb', net', sent', read') /\ Minded(e)
  <1>1. CASE UserConnect(e)
      BY <1>1, UserConnectHolds
  <1>2. CASE UserListen(e)
      BY <1>2, UserListenHolds
  <1>3. CASE \E n \in 1 .. Quota[e] - sent[e], b \in BOOLEAN : UserSend(e, n, b)
      BY <1>3, UserSendHolds
  <1>4. CASE \E want \in 1 .. Len(tcb[e].rxbuf) : UserRecv(e, want)
      BY <1>4, UserRecvHolds
  <1>5. CASE \E b \in BOOLEAN : UserClose(e, b)
      BY <1>5, UserCloseHolds
  <1>6. CASE Deliver(e)
      BY <1>6, DeliverHolds
  <1>7. CASE DeliverWithoutPool(e)
      BY <1>7, DeliverWithoutPoolHolds
  <1>8. CASE DeliverDuplicate(e)
      BY <1>8, DeliverDuplicateHolds
  <1>9. CASE DeliverOvertaking(e)
      BY <1>9, DeliverOvertakingHolds
  <1>10. CASE Lose(e)
    <2>1. Hold(tcb', net', sent', read') /\ tcb' = tcb
        BY <1>10, LoseHolds
    <2> QED  BY <2>1 DEF Minded
  <1>11. CASE \E expired \in SUBSET Expiring : TimerPoll(e, expired)
      BY <1>11, TimerPollHolds
  <1> QED  BY <1>1, <1>2, <1>3, <1>4, <1>5, <1>6, <1>7, <1>8, <1>9, <1>10, <1>11 DEF HostStep

LEMMA WInvStep ==
    ASSUME OneCaller, ModestQuota, WInv, FewSyns, [Next]_vars
    PROVE  WInv'
  <1>1. CASE Next
    <2>1. PICK e \in Host : HostStep(e)
        BY <1>1 DEF Next
    <2> QED  BY <2>1, HostStepHolds DEF WInv
  <1>2. CASE UNCHANGED vars
      BY <1>2 DEF WInv, vars
  <1> QED  BY <1>1, <1>2

\* The initial state: a new socket at either end and nothing between them.
LEMMA NewTcbFacts ==
    ASSUME NEW t, t = [NewTcb EXCEPT !.bound = FALSE]
    PROVE  /\ t \in Tcbs /\ t.state = "CLOSED" /\ t.sock /\ ~t.peer /\ t.flags = {} /\ t.txflags = {}
           /\ t.sendunack = 0 /\ t.sendnext = 0 /\ t.rcvnext = 0 /\ t.rcvack = 0
           /\ t.txbuf = <<>> /\ t.rxbuf = <<>> /\ ~t.retx
  <1> DEFINE z == 0
             e == <<>>
             s == "CLOSED"
             f == {}
             no == FALSE
             yes == TRUE
  <1>1. z \in SeqNum /\ z \in 0..BufSize /\ z = 0
      BY Sizes DEF SeqNum
  <1>2. e \in Buffers /\ e = <<>>
      BY NoBytes
  <1>3. s \in States /\ s = "CLOSED"
      BY DEF States
  <1>4. f \in SUBSET HeaderFlags /\ f \in SUBSET TcbFlags /\ f = {} /\ no \in BOOLEAN
        /\ yes \in BOOLEAN /\ yes /\ ~no
      OBVIOUS
  <1>5. t = [state |-> s, sock |-> yes, peer |-> no, bound |-> no,
             sendunack |-> z, sendnext |-> z, sendwindow |-> z,
             rcvnext |-> z, rcvack |-> z, txflags |-> f, flags |-> f,
             txbuf |-> e, rxbuf |-> e, retx |-> no, keep |-> no, msl |-> no]
      BY DEF NewTcb
  <1>6. t \in Tcbs
    <2>1. NewTcb.bound = FALSE /\ NewTcb \in Tcbs
        BY NewTcbTyped DEF NewTcb
    <2> QED  BY <2>1 DEF Tcbs
  <1> HIDE DEF z, e, s, f, no, yes
  <1>7. /\ t.state = s /\ t.sock = yes /\ t.peer = no /\ t.flags = f /\ t.txflags = f
        /\ t.sendunack = z /\ t.sendnext = z /\ t.rcvnext = z /\ t.rcvack = z
        /\ t.txbuf = e /\ t.rxbuf = e /\ t.retx = no
      BY <1>5
  <1> QED  BY <1>1, <1>2, <1>3, <1>4, <1>6, <1>7

LEMMA FreshHalf ==
    ASSUME NEW c \in Roles, NEW t, t = [NewTcb EXCEPT !.bound = FALSE]
    PROVE  Half(c, t, 0, 0, {}, t, 0, 0, {})
  <1>1. /\ t \in Tcbs /\ t.state = "CLOSED" /\ t.sock /\ ~t.peer /\ t.flags = {} /\ t.txflags = {}
        /\ t.sendunack = 0 /\ t.sendnext = 0 /\ t.rcvnext = 0 /\ t.rcvack = 0
        /\ t.txbuf = <<>> /\ t.rxbuf = <<>> /\ ~t.retx
      BY NewTcbFacts
  <1>2. Len(t.rxbuf) = 0
      BY <1>1, NoBytes
  <1>3. Typed(t, 0, 0, {})
      BY <1>1, Sizes DEF Typed
  <1>4. Resting(t)
      BY <1>1 DEF Resting, CLOSINGSTATES, IsOpen, SEND_OK, CONNINPROGRESS
  <1>5. Youth(c, t, 0, 0)
      BY <1>1 DEF Youth
  <1>6. Sending(c, t, 0, t, 0) /\ Timed(c, t) /\ Flushing(c, t, 0, t, 0)
      BY <1>1 DEF Sending, IsOpen, SEND_OK, Timed, Flushing
  <1>7. Receiving(c, t, 0, t, 0)
      BY <1>1 DEF Receiving, IsTaking
  <1>8. Stream(t, 0, 0)
      BY <1>2 DEF Stream
  <1>9. AcksFit(c, t, 0, {}, t, 0) /\ SameAcks(c, t, {}, t)
      BY <1>1 DEF AcksFit, SameAcks
  <1>10. Fins(t, {}, t)
      BY <1>1 DEF Fins
  <1>11. Datas(c, t, 0, {}, 0) /\ Syns(c, {})
      BY DEF Datas, Syns
  <1>12. ~Behind(t)
    <2>1. Diff(0, 0) = 0
      <3>1. (0 - 0) % SeqSize = 0
          BY Sizes, ModOf
      <3> QED  BY <3>1, Sizes DEF Diff
    <2> QED  BY <1>1, <2>1 DEF Behind
  <1>13. Strange(c, t, {}, t, {})
      BY <1>1, <1>12 DEF Strange
  <1>14. Calling(c, t, {}, t, 0, {})
      BY <1>1 DEF Calling, IsOpen, SEND_OK
  <1> QED  BY <1>3, <1>4, <1>5, <1>6, <1>7, <1>8, <1>9, <1>10, <1>11, <1>13, <1>14 DEF Half

LEMMA WInvInit ==
    ASSUME OneCaller, Init
    PROVE  WInv
  <1> DEFINE t == [NewTcb EXCEPT !.bound = FALSE]
             e0 == <<>>
  <1>1. (Connecting = Host) = FALSE
    <2>1. A \in Host /\ B \in Host
        BY DEF Host
    <2> QED  BY <2>1, HostAssumption DEF OneCaller
  <1>2. t \in Tcbs /\ t.rxbuf = <<>> /\ t.flags = {}
      BY NewTcbFacts
  <1>t. t = [NewTcb EXCEPT !.bound = FALSE]
      OBVIOUS
  <1>3. e0 \in Seq(Segments) /\ e0 \in Seq(Bytes) /\ Len(e0) = 0 /\ e0 = <<>>
      OBVIOUS
  <1>4. /\ tcb = [e \in Host |-> t] /\ net = [e \in Host |-> e0]
        /\ sent = [e \in Host |-> 0] /\ read = [e \in Host |-> e0]
      BY <1>1 DEF Init
  <1> HIDE DEF t
  <1>5. Elems(e0) = {}
      BY <1>3 DEF Elems
  <1> HIDE DEF e0
  <1>6. ASSUME NEW e \in Host
        PROVE  /\ Calm(tcb[e]) /\ sent[e] <= Quota[e]
               /\ \A i \in 1..Len(read[e]) : read[e][i] = i
               /\ Half(Role(e), tcb[e], sent[e], Len(read[e]) + Len(tcb[e].rxbuf), Elems(net[e]),
                       tcb[Peer(e)], sent[Peer(e)], Len(read[Peer(e)]) + Len(tcb[Peer(e)].rxbuf), Elems(net[Peer(e)]))
    <2>1. /\ tcb[e] = t /\ sent[e] = 0 /\ read[e] = e0 /\ net[e] = e0
          /\ tcb[Peer(e)] = t /\ sent[Peer(e)] = 0 /\ read[Peer(e)] = e0 /\ net[Peer(e)] = e0
        BY <1>4, PeerFacts
    <2>2. Half(Role(e), t, 0, 0, {}, t, 0, 0, {})
        BY RoleFacts, FreshHalf, <1>t
    <2>3. Len(e0) + Len(t.rxbuf) = 0
        BY <1>2, <1>3
    <2>4. Half(Role(e), tcb[e], sent[e], Len(read[e]) + Len(tcb[e].rxbuf), Elems(net[e]),
               tcb[Peer(e)], sent[Peer(e)], Len(read[Peer(e)]) + Len(tcb[Peer(e)].rxbuf), Elems(net[Peer(e)]))
        BY <1>5, <2>1, <2>2, <2>3
    <2>5. Calm(tcb[e]) /\ sent[e] <= Quota[e] /\ \A i \in 1..Len(read[e]) : read[e][i] = i
        BY <1>2, <1>3, <2>1, BoundsAssumption DEF Calm
    <2> QED  BY <2>4, <2>5
  <1>7. /\ tcb \in [Host -> Tcbs] /\ net \in [Host -> Seq(Segments)]
        /\ sent \in [Host -> Nat] /\ read \in [Host -> Seq(Bytes)]
      BY <1>2, <1>3, <1>4
  <1> QED  BY <1>6, <1>7 DEF WInv, Hold

-----------------------------------------------------------------------------
(* What the invariant says about the properties                            *)

\* All of the invariant of host e, with names for its parts.
LEMMA HalfOf ==
    ASSUME OneCaller, WInv, NEW e \in Host
    PROVE  LET c == Role(e)
               t == tcb[e]
               u == tcb[Peer(e)]
               s == sent[e]
               v == sent[Peer(e)]
               g == Len(Received(e))
               k == Len(Received(Peer(e)))
           IN  /\ c \in Roles /\ Role(Peer(e)) = Other(c) /\ t \in Tcbs /\ u \in Tcbs
               /\ s \in Nat /\ 2 * s < SeqSize /\ g \in Nat /\ k \in Nat
               /\ Sending(c, t, s, u, k) /\ Timed(c, t) /\ Receiving(c, t, g, u, v) /\ Stream(t, g, v)
               /\ Resting(t) /\ Youth(c, t, s, g)
  <1> DEFINE p == Peer(e)
  <1>1. /\ Len(Received(e)) = Len(read[e]) + Len(tcb[e].rxbuf)
        /\ Len(Received(p)) = Len(read[p]) + Len(tcb[p].rxbuf)
    <2>1. ASSUME NEW f \in Host
          PROVE  Len(Received(f)) = Len(read[f]) + Len(tcb[f].rxbuf)
      <3> DEFINE r == read[f]  q == tcb[f].rxbuf
      <3>1. r \in Seq(Bytes) /\ q \in Seq(Bytes)
          BY WInvFacts, BufferFacts
      <3>2. Received(f) = r \o q
          BY DEF Received
      <3> HIDE DEF r, q
      <3>3. Len(Received(f)) = Len(r) + Len(q)
          BY <3>1, <3>2, ConcatProperties
      <3> QED  BY <3>3 DEF r, q
    <2> QED  BY <2>1, PeerFacts
  <1>2. Half(Role(e), tcb[e], sent[e], Len(read[e]) + Len(tcb[e].rxbuf), Elems(net[e]),
             tcb[p], sent[p], Len(read[p]) + Len(tcb[p].rxbuf), Elems(net[p]))
      BY DEF WInv, Hold
  <1>3. Half(Role(e), tcb[e], sent[e], Len(Received(e)), Elems(net[e]),
             tcb[p], sent[p], Len(Received(p)), Elems(net[p]))
      BY <1>1, <1>2
  <1>4. p \in Host /\ Role(e) \in Roles /\ Role(p) = Other(Role(e))
      BY PeerFacts, RoleFacts
  <1>5. tcb[p] \in Tcbs /\ Len(read[p]) \in Nat /\ Len(tcb[p].rxbuf) \in Nat
      BY <1>4, WInvFacts, BufferFacts
  <1> DEFINE g == Len(Received(e))
             k == Len(Received(p))
             I == Elems(net[e])
             J == Elems(net[p])
  <1>6. k \in Nat
    <2> DEFINE a == Len(read[p])  b == Len(tcb[p].rxbuf)
    <2>1. k = a + b /\ a \in Nat /\ b \in Nat
        BY <1>1, <1>5
    <2> HIDE DEF a, b, k
    <2> QED  BY <2>1
  <1> HIDE DEF g, k, I, J, p
  <1>7. Half(Role(e), tcb[e], sent[e], g, I, tcb[p], sent[p], k, J)
      BY <1>3 DEF g, k, I, J
  <1>8. /\ Typed(tcb[e], sent[e], g, I)
        /\ Sending(Role(e), tcb[e], sent[e], tcb[p], k) /\ Timed(Role(e), tcb[e])
        /\ Receiving(Role(e), tcb[e], g, tcb[p], sent[p]) /\ Stream(tcb[e], g, sent[p])
        /\ Resting(tcb[e]) /\ Youth(Role(e), tcb[e], sent[e], g)
      BY <1>7 DEF Half
  <1>9. tcb[e] \in Tcbs /\ sent[e] \in Nat /\ 2 * sent[e] < SeqSize /\ g \in Nat
      BY <1>8 DEF Typed
  <1> QED  BY <1>4, <1>5, <1>6, <1>8, <1>9 DEF g, k, p

LEMMA StreamIntactFrom ==
    ASSUME OneCaller, WInv
    PROVE  StreamIntact
  <1> SUFFICES ASSUME NEW e \in Host
               PROVE  /\ Len(Received(e)) <= sent[Peer(e)]
                      /\ \A i \in 1..Len(Received(e)) : Received(e)[i] = i
    BY DEF StreamIntact
  <1> DEFINE r == read[e]
             t == tcb[e]
             q == t.rxbuf
             g == Len(Received(e))
             v == sent[Peer(e)]
  <1>1. Stream(t, g, v)
      BY HalfOf
  <1>2. r \in Seq(Bytes) /\ q \in Seq(Bytes) /\ \A i \in 1..Len(r) : r[i] = i
      BY WInvFacts, BufferFacts
  <1>3. Received(e) = r \o q
      BY DEF Received
  <1>q. q = t.rxbuf
      OBVIOUS
  <1> HIDE DEF r, q, t, v
  <1>4. /\ Len(r \o q) = Len(r) + Len(q)
        /\ \A i \in 1 .. Len(r) + Len(q) : (r \o q)[i] = IF i <= Len(r) THEN r[i] ELSE q[i - Len(r)]
      BY <1>2, ConcatProperties
  <1>5. g = Len(r) + Len(q) /\ Len(r) \in Nat /\ Len(q) \in Nat
      BY <1>2, <1>3, <1>4
  <1> HIDE DEF g
  <1>6. g <= v /\ \A j \in 1..Len(q) : q[j] = g - Len(q) + j
      BY <1>1, <1>q DEF Stream
  <1>7. ASSUME NEW i \in 1..g
        PROVE  (r \o q)[i] = i
    <2>0. i \in Nat /\ i >= 1 /\ i <= Len(r) + Len(q) /\ i \in 1 .. Len(r) + Len(q)
        BY <1>5
    <2>1. CASE i <= Len(r)
        BY <1>2, <1>4, <1>5, <2>0, <2>1
    <2>2. CASE i > Len(r)
      <3>1. i - Len(r) \in 1..Len(q) /\ g - Len(q) + (i - Len(r)) = i
          BY <1>5, <2>0, <2>2
      <3>2. q[i - Len(r)] = g - Len(q) + (i - Len(r))
          BY <1>6, <3>1
      <3>3. (r \o q)[i] = q[i - Len(r)]
          BY <1>4, <1>5, <2>0, <2>2
      <3> QED  BY <3>1, <3>2, <3>3
    <2> QED  BY <1>5, <2>0, <2>1, <2>2
  <1> QED  BY <1>3, <1>6, <1>7 DEF g, v

LEMMA AckedIsReceivedFrom ==
    ASSUME OneCaller, WInv
    PROVE  AckedIsReceived
  <1> SUFFICES ASSUME NEW e \in Host, tcb[e].state = "ESTABLISHED", Alive(Peer(e))
               PROVE  Dropped(e) <= Len(Received(Peer(e)))
    BY DEF AckedIsReceived
  <1> DEFINE t == tcb[e]
             u == tcb[Peer(e)]
             s == sent[e]
             k == Len(Received(Peer(e)))
  <1>1. Sending(Role(e), t, s, u, k)
      BY HalfOf
  <1>2. IsOpen(t) /\ IsAlive(u)
      BY DEF IsOpen, SEND_OK, Alive, IsAlive
  <1>3. Dropped(e) = s - Len(t.txbuf)
      BY DEF Dropped, Unacked
  <1> HIDE DEF t, u, s, k
  <1>4. s - Len(t.txbuf) <= k
      BY <1>1, <1>2 DEF Sending
  <1> QED  BY <1>3, <1>4 DEF k

LEMMA InStepFrom ==
    ASSUME OneCaller, WInv
    PROVE  InStep
  <1> SUFFICES ASSUME NEW e \in Host, tcb[e].state = "ESTABLISHED",
                      tcb[Peer(e)].state = "ESTABLISHED"
               PROVE  Diff(tcb[Peer(e)].rcvnext, tcb[e].sendunack)
                          = Len(Received(Peer(e))) - Dropped(e)
    BY DEF InStep
  <1> DEFINE p == Peer(e)
             c == Role(e)
             t == tcb[e]
             u == tcb[p]
             s == sent[e]
             k == Len(Received(p))
             d == s - Len(t.txbuf)
  <1>1. /\ c \in Roles /\ Role(p) = Other(c) /\ t \in Tcbs /\ u \in Tcbs
        /\ s \in Nat /\ 2 * s < SeqSize /\ k \in Nat /\ Sending(c, t, s, u, k)
      BY HalfOf
  <1>2. p \in Host /\ Peer(p) = e
      BY PeerFacts
  <1>3. Receiving(Role(p), u, k, t, s) /\ Stream(u, k, s)
    <2> HIDE DEF p
    <2> QED  BY <1>2, HalfOf
  <1>4. IsOpen(t) /\ IsTaking(u)
      BY DEF IsOpen, SEND_OK, IsTaking
  <1>5. Dropped(e) = d
      BY DEF Dropped, Unacked
  <1>6. t.sendunack \in SeqNum /\ u.rcvnext \in SeqNum /\ Len(t.txbuf) \in Nat
    <2> HIDE DEF t, u
    <2>1. t.txbuf \in Buffers
        BY <1>1 DEF Tcbs
    <2> QED  BY <1>1, <2>1, BufferFacts DEF Tcbs
  <1> HIDE DEF p, c, t, u, s, k
  <1>7. u.rcvnext = Plus(Base(c), k)
    <2>1. Other(Role(p)) = c
        BY <1>1 DEF Other, Roles
    <2> QED  BY <1>3, <1>4, <2>1 DEF Receiving
  <1>8. k <= s
      BY <1>3 DEF Stream
  <1>9. k \in 0 .. SeqSize - 1 /\ 2 * k < SeqSize
      BY <1>1, <1>8, Sizes
  <1>10. Off(c, u.rcvnext) = k
      BY <1>1, <1>7, <1>9, OffOfBase
  <1>11. Off(c, t.sendunack) = d /\ s >= Len(t.txbuf)
      BY <1>1, <1>4 DEF Sending
  <1>12. 2 * d < SeqSize
      BY <1>1, <1>6, <1>11, Sizes
  <1> HIDE DEF d
  <1>13. Diff(u.rcvnext, t.sendunack) = k - d
      BY <1>1, <1>6, <1>9, <1>10, <1>11, <1>12, DiffOfOffs
  <1> QED  BY <1>5, <1>13 DEF p, t, u, k

LEMMA UnackedIsTimedFrom ==
    ASSUME OneCaller, WInv
    PROVE  UnackedIsTimed
  <1> SUFFICES ASSUME NEW e \in Host, tcb[e].state = "ESTABLISHED",
                      Diff(tcb[e].sendnext, tcb[e].sendunack) > 0
               PROVE  tcb[e].retx
    BY DEF UnackedIsTimed
  <1> DEFINE c == Role(e)
             t == tcb[e]
             s == sent[e]
             u == tcb[Peer(e)]
             k == Len(Received(Peer(e)))
  <1>1. /\ c \in Roles /\ t \in Tcbs /\ s \in Nat /\ 2 * s < SeqSize
        /\ Sending(c, t, s, u, k) /\ Timed(c, t)
      BY HalfOf
  <1>2. t.state = "ESTABLISHED" /\ Diff(t.sendnext, t.sendunack) > 0 /\ IsOpen(t)
      BY DEF IsOpen, SEND_OK
  <1> HIDE DEF c, t, s, u, k
  <1>3. t.sendnext \in SeqNum /\ t.sendunack \in SeqNum /\ Len(t.txbuf) \in Nat
    <2>1. t.txbuf \in Buffers
        BY <1>1 DEF Tcbs
    <2> QED  BY <1>1, <2>1, BufferFacts DEF Tcbs
  <1>4. Off(c, t.sendnext) <= s /\ Off(c, t.sendunack) = s - Len(t.txbuf)
      BY <1>1, <1>2 DEF Sending
  <1> DEFINE m == Off(c, t.sendnext)  n == Off(c, t.sendunack)
  <1>5. m \in Nat /\ n \in Nat
      BY <1>1, <1>3, OffType
  <1>d. m = Off(c, t.sendnext) /\ n = Off(c, t.sendunack)
      OBVIOUS
  <1> HIDE DEF m, n
  <1>6. 2 * m < SeqSize /\ 2 * n < SeqSize
      BY <1>1, <1>3, <1>4, <1>5, <1>d, Sizes
  <1>7. Diff(t.sendnext, t.sendunack) = m - n
      BY <1>1, <1>3, <1>6, <1>d, DiffOfOffs
  <1>8. m > n
      BY <1>2, <1>5, <1>7
  <1>9. t.retx
      BY <1>1, <1>2, <1>8, <1>d DEF Timed
  <1> QED  BY <1>9 DEF t

\* AckIsOwed, of every host.
LEMMA AckIsOwedOf == AckIsOwed <=> \A e \in Host : Owed(tcb[e])
  BY DEF AckIsOwed, Owed

LEMMA AckIsOwedStep ==
    ASSUME OneCaller, ModestQuota, "noebuf" \notin Faults, WInv, FewSyns, AckIsOwed, [Next]_vars
    PROVE  AckIsOwed'
  <1>1. \A e \in Host : Owed(tcb[e])
      BY AckIsOwedOf
  <1>2. \A e \in Host : Owed(tcb'[e])
    <2>1. CASE Next
      <3>1. PICK e \in Host : HostStep(e)
          BY <2>1 DEF Next
      <3>2. Minded(e)
          BY <3>1, HostStepHolds
      <3> QED  BY <1>1, <3>2, PeerFacts DEF Minded
    <2>2. CASE UNCHANGED vars
        BY <1>1, <2>2 DEF vars
    <2> QED  BY <2>1, <2>2
  <1> QED  BY <1>2 DEF AckIsOwed, Owed

LEMMA AckIsOwedInit ==
    ASSUME Init
    PROVE  AckIsOwed
  BY DEF AckIsOwed, Init, NewTcb, RECV_OK

LEMMA FollowsDiagramStep ==
    ASSUME OneCaller, WInv, FewSyns, NEW e \in Host, Deliver(e), Found(e),
           "RST" \notin Head(net[e]).flags
    PROVE  \/ tcb'[e].state = tcb[e].state
           \/ <<tcb[e].state, tcb'[e].state>> \in SegmentArrows
  <1>1. Drawn(e, Head(net[e]))
      BY DeliverHolds
  <1> QED  BY <1>1 DEF Drawn, Arrow

-----------------------------------------------------------------------------
(* Counting the SYNs on their way                                          *)

OneSyn(q) == \A i \in SynAt(q), j \in SynAt(q) : i = j

LEMMA SynFinite ==
    ASSUME NEW q \in Seq(Segments)
    PROVE  /\ IsFiniteSet(SynAt(q)) /\ SynCount(q) \in Nat
           /\ NoSyn(q) <=> SynAt(q) = {}
           /\ SynCount(q) = 0 <=> NoSyn(q)
  <1>1. Len(q) \in Nat /\ 1 \in Int
      OBVIOUS
  <1>2. IsFiniteSet(1..Len(q))
      BY <1>1, FS_Interval
  <1>3. SynAt(q) \in SUBSET (1..Len(q))
      BY DEF SynAt
  <1>4. IsFiniteSet(SynAt(q))
      BY <1>2, <1>3, FS_Subset
  <1>5. NoSyn(q) <=> SynAt(q) = {}
      BY DEF NoSyn, SynAt, Elems
  <1>6. SynCount(q) \in Nat
      BY <1>4, FS_CardinalityType DEF SynCount
  <1>7. SynCount(q) = 0 <=> SynAt(q) = {}
      BY <1>4, FS_EmptySet DEF SynCount
  <1> QED  BY <1>4, <1>5, <1>6, <1>7

\* What comes behind q with at most one SYN.
LEMMA SynConcat ==
    ASSUME NEW q \in Seq(Segments), NEW p \in Seq(Segments), OneSyn(p)
    PROVE  /\ q \o p \in Seq(Segments)
           /\ SynCount(q \o p) <= SynCount(q) + 1
           /\ NoSyn(p) => SynCount(q \o p) = SynCount(q)
           /\ NoSyn(q \o p) <=> NoSyn(q) /\ NoSyn(p)
  <1> DEFINE n == Len(q)
             m == Len(p)
             o == q \o p
  <1>1. /\ o \in Seq(Segments) /\ Len(o) = n + m
        /\ \A i \in 1 .. n + m : o[i] = IF i <= n THEN q[i] ELSE p[i - n]
      BY ConcatProperties
  <1>2. n \in Nat /\ m \in Nat
      OBVIOUS
  <1>n. n = Len(q) /\ m = Len(p)
      OBVIOUS
  <1>3. Elems(o) = Elems(q) \cup Elems(p)
      BY ElemsOfConcat
  <1> HIDE DEF o, n, m
  <1>4. NoSyn(o) <=> NoSyn(q) /\ NoSyn(p)
      BY <1>3 DEF NoSyn
  <1>5. \A i \in 1..n : i \in 1 .. n + m /\ o[i] = q[i]
      BY <1>1, <1>2
  <1>6. SynAt(q) \subseteq SynAt(o)
      BY <1>1, <1>5, <1>n DEF SynAt
  <1>7. ASSUME NEW i \in SynAt(o)
        PROVE  i \in SynAt(q) \/ (i - n \in SynAt(p) /\ n + (i - n) = i)
    <2>1. i \in 1 .. n + m /\ IsSyn(o[i])
        BY <1>1, <1>7 DEF SynAt
    <2>2. CASE i <= n
      <3>1. i \in 1..n
          BY <1>2, <2>1, <2>2
      <3> QED  BY <1>5, <1>n, <2>1, <3>1 DEF SynAt
    <2>3. CASE i > n
      <3>1. i - n \in 1..m /\ n + (i - n) = i /\ o[i] = p[i - n]
          BY <1>1, <1>2, <2>1, <2>3
      <3> QED  BY <1>n, <2>1, <3>1 DEF SynAt
    <2> QED  BY <1>2, <2>1, <2>2, <2>3
  <1>8. ASSUME NoSyn(p)
        PROVE  SynCount(o) = SynCount(q)
    <2>1. SynAt(p) = {}
        BY <1>8, SynFinite
    <2>2. SynAt(o) = SynAt(q)
        BY <1>6, <1>7, <2>1
    <2> QED  BY <2>2 DEF SynCount
  <1>9. ASSUME NEW j \in SynAt(p)
        PROVE  SynCount(o) <= SynCount(q) + 1
    <2> DEFINE S == SynAt(q) \cup {n + j}
    <2>1. SynAt(o) \in SUBSET S
        BY <1>7, <1>9 DEF OneSyn
    <2>2. IsFiniteSet(SynAt(q)) /\ SynCount(q) \in Nat
        BY SynFinite
    <2>3. IsFiniteSet(S) /\ Cardinality(S) = IF n + j \in SynAt(q) THEN SynCount(q) ELSE SynCount(q) + 1
        BY <2>2, FS_AddElement DEF SynCount
    <2> HIDE DEF S
    <2>4. SynCount(o) <= Cardinality(S) /\ SynCount(o) \in Nat
        BY <1>1, <2>1, <2>3, FS_Subset, SynFinite DEF SynCount
    <2> QED  BY <2>2, <2>3, <2>4
  <1>10. SynCount(o) <= SynCount(q) + 1
    <2>1. CASE NoSyn(p)
      <3>1. SynCount(q) \in Nat
          BY SynFinite
      <3> QED  BY <1>8, <2>1, <3>1
    <2>2. CASE ~NoSyn(p)
      <3>1. SynAt(p) # {}
          BY <2>2, SynFinite
      <3> QED  BY <1>9, <3>1
    <2> QED  BY <2>1, <2>2
  <1> QED  BY <1>1, <1>4, <1>8, <1>10 DEF o

\* r is q without what is at i.
Omits(r, q, i) == /\ r \in Seq(Segments) /\ Len(r) = Len(q) - 1
                  /\ \A j \in 1..Len(r) : r[j] = q[IF j < i THEN j ELSE j + 1]

LEMMA SynOmits ==
    ASSUME NEW q \in Seq(Segments), NEW i \in 1..Len(q), NEW r, Omits(r, q, i)
    PROVE  /\ SynCount(r) <= SynCount(q)
           /\ IsSyn(q[i]) => SynCount(r) + 1 <= SynCount(q)
           /\ NoSyn(r) /\ ~IsSyn(q[i]) => NoSyn(q)
           /\ NoSyn(q) => NoSyn(r)
  <1> DEFINE S == SynAt(r)
             T == SynAt(q) \ {i}
             f == [j \in S |-> IF j < i THEN j ELSE j + 1]
  <1>1. /\ r \in Seq(Segments) /\ Len(r) = Len(q) - 1 /\ Len(q) \in Nat /\ i \in Nat
        /\ \A j \in 1..Len(r) : r[j] = q[IF j < i THEN j ELSE j + 1]
      BY DEF Omits
  <1>2. /\ IsFiniteSet(SynAt(q)) /\ SynCount(q) \in Nat /\ IsFiniteSet(S) /\ SynCount(r) \in Nat
        /\ NoSyn(q) <=> SynAt(q) = {}
        /\ NoSyn(r) <=> S = {}
      BY <1>1, SynFinite
  <1>3. IsFiniteSet(T) /\ Cardinality(T) = IF i \in SynAt(q) THEN SynCount(q) - 1 ELSE SynCount(q)
      BY <1>2, FS_RemoveElement DEF SynCount
  <1>4. \A j \in S : j \in 1..Len(r) /\ IsSyn(r[j])
      BY DEF SynAt
  <1>5. ASSUME NEW j \in S
        PROVE  f[j] \in T
    <2> DEFINE k == IF j < i THEN j ELSE j + 1
    <2>1. k \in 1..Len(q) /\ k # i
        BY <1>1, <1>4
    <2>2. IsSyn(q[k])
        BY <1>1, <1>4
    <2> HIDE DEF k
    <2>3. k \in T
        BY <2>1, <2>2 DEF SynAt
    <2> QED  BY <2>3 DEF k
  <1>6. \A a, b \in S : f[a] = f[b] => a = b
      BY <1>1, <1>4
  <1>s. \A j \in S : f[j] = IF j < i THEN j ELSE j + 1
      OBVIOUS
  <1>7. f \in [S -> T] /\ DOMAIN f = S
      BY <1>5
  <1> HIDE DEF f, S, T
  <1>8. f \in Injection(S, T)
      BY <1>6, <1>7 DEF Injection, IsInjective
  <1>9. Cardinality(S) <= Cardinality(T)
      BY <1>3, <1>8, FS_Injection
  <1>10. IsSyn(q[i]) => i \in SynAt(q)
      BY DEF SynAt
  <1>11. SynCount(r) = Cardinality(S)
      BY DEF SynCount, S
  <1>12. ASSUME NoSyn(r), ~IsSyn(q[i])
        PROVE  NoSyn(q)
    <2>1. S = {}
        BY <1>2, <1>12
    <2>2. SUFFICES ASSUME NEW k \in SynAt(q) PROVE FALSE
        BY <1>2
    <2>3. k \in 1..Len(q) /\ IsSyn(q[k]) /\ k # i
        BY <1>12, <2>2 DEF SynAt
    <2>4. PICK j \in 1..Len(r) : k = IF j < i THEN j ELSE j + 1
      <3>1. CASE k < i
        <4>1. k \in 1..Len(r)
            BY <1>1, <2>3, <3>1
        <4> QED  BY <3>1, <4>1
      <3>2. CASE k > i
        <4>1. k - 1 \in 1..Len(r) /\ ~(k - 1 < i) /\ k - 1 + 1 = k
            BY <1>1, <2>3, <3>2
        <4> QED  BY <4>1
      <3> QED  BY <1>1, <2>3, <3>1, <3>2
    <2>5. j \in S
        BY <1>1, <2>3, <2>4 DEF S, SynAt
    <2> QED  BY <2>1, <2>5
  <1>13. ASSUME NoSyn(q)
        PROVE  NoSyn(r)
    <2>1. T = {}
        BY <1>2, <1>13 DEF T
    <2>2. S = {}
        BY <1>7, <2>1
    <2> QED  BY <1>2, <2>2
  <1> QED  BY <1>2, <1>3, <1>9, <1>10, <1>11, <1>12, <1>13

LEMMA TailOmits ==
    ASSUME NEW q \in Seq(Segments), q # <<>>
    PROVE  Omits(Tail(q), q, 1) /\ 1 \in 1..Len(q) /\ Head(q) = q[1]
  <1> DEFINE r == Tail(q)
  <1>1. /\ Head(q) = q[1] /\ r \in Seq(Segments) /\ Len(r) = Len(q) - 1
        /\ \A i \in 1..Len(r) : r[i] = q[i + 1]
      BY HeadTailProperties
  <1>2. Len(q) \in Nat /\ Len(q) # 0
      BY EmptySeq
  <1>3. 1 \in 1..Len(q)
      BY <1>2
  <1> HIDE DEF r
  <1>4. \A j \in 1..Len(r) : ~(j < 1)
      BY <1>1, <1>2
  <1>5. Omits(r, q, 1)
      BY <1>1, <1>4 DEF Omits
  <1> QED  BY <1>1, <1>3, <1>5 DEF r

LEMMA RemoveAtOmits ==
    ASSUME NEW q \in Seq(Segments), NEW i \in 1..Len(q)
    PROVE  Omits(RemoveAt(q, i), q, i)
  <1> DEFINE n == Len(q)
             a == SubSeq(q, 1, i - 1)
             b == SubSeq(q, i + 1, n)
             r == a \o b
  <1>1. n \in Nat /\ i \in Nat /\ i - 1 \in Int /\ i + 1 \in Int /\ n \in Int /\ i >= 1 /\ i <= n
      OBVIOUS
  <1>2. \A j \in 1..n : q[j] \in Segments
      BY ElementOfSeq
  <1>n. n = Len(q)
      OBVIOUS
  <1> HIDE DEF n
  <1>3. /\ a \in Seq(Segments) /\ Len(a) = i - 1
        /\ \A j \in 1 .. i - 1 : a[j] = q[j]
    <2>1. \A j \in 1 .. i - 1 : j \in 1..n
        BY <1>1
    <2>2. \A j \in 1 .. i - 1 : q[j] \in Segments
        BY <1>2, <2>1
    <2>3. /\ a \in Seq(Segments)
          /\ Len(a) = IF 1 <= i - 1 THEN i - 1 - 1 + 1 ELSE 0
          /\ \A j \in 1 .. i - 1 - 1 + 1 : a[j] = q[1 + j - 1]
        BY <1>1, <2>2, SubSeqProperties
    <2> HIDE DEF a
    <2>4. i - 1 - 1 + 1 = i - 1 /\ (1 <= i - 1 \/ i - 1 = 0) /\ \A j \in 1 .. i - 1 : 1 + j - 1 = j
        BY <1>1
    <2> QED  BY <1>1, <2>3, <2>4
  <1>4. /\ b \in Seq(Segments) /\ Len(b) = n - i
        /\ \A j \in 1 .. n - i : b[j] = q[i + j]
    <2>1. \A j \in i + 1 .. n : j \in 1..n
        BY <1>1
    <2>2. \A j \in i + 1 .. n : q[j] \in Segments
        BY <1>2, <2>1
    <2>3. /\ b \in Seq(Segments)
          /\ Len(b) = IF i + 1 <= n THEN n - (i + 1) + 1 ELSE 0
          /\ \A j \in 1 .. n - (i + 1) + 1 : b[j] = q[i + 1 + j - 1]
        BY <1>1, <2>2, SubSeqProperties
    <2> HIDE DEF b
    <2>4. n - (i + 1) + 1 = n - i /\ (i + 1 <= n \/ n - i = 0) /\ \A j \in 1 .. n - i : i + 1 + j - 1 = i + j
        BY <1>1
    <2> QED  BY <1>1, <2>3, <2>4
  <1> HIDE DEF a, b
  <1>5. /\ r \in Seq(Segments) /\ Len(r) = Len(a) + Len(b)
        /\ \A j \in 1 .. Len(a) + Len(b) : r[j] = IF j <= Len(a) THEN a[j] ELSE b[j - Len(a)]
      BY <1>3, <1>4, ConcatProperties
  <1> HIDE DEF r
  <1>6. Len(r) = n - 1
      BY <1>1, <1>3, <1>4, <1>5
  <1>7. ASSUME NEW j \in 1..Len(r)
        PROVE  r[j] = q[IF j < i THEN j ELSE j + 1]
    <2>1. j \in Nat /\ j >= 1 /\ j <= n - 1 /\ j \in 1 .. Len(a) + Len(b)
        BY <1>1, <1>5, <1>6
    <2>2. CASE j < i
        BY <1>1, <1>3, <1>5, <2>1, <2>2
    <2>3. CASE ~(j < i)
      <3>1. j - Len(a) \in 1 .. n - i /\ i + (j - Len(a)) = j + 1 /\ ~(j <= Len(a))
          BY <1>1, <1>3, <2>1, <2>3
      <3> QED  BY <1>4, <1>5, <2>1, <2>3, <3>1
    <2> QED  BY <2>2, <2>3
  <1>8. RemoveAt(q, i) = r
      BY <1>n DEF RemoveAt, r, a, b
  <1> QED  BY <1>5, <1>6, <1>7, <1>8, <1>n DEF Omits

-----------------------------------------------------------------------------
(* Only _tcp_connect and the retransmission timer make a caller send a SYN  *)

\* A call sends no SYN between h and g.
Quiets(h, g) == \A x \in Out(g) : x \in Out(h) \/ ~IsSyn(x)

LEMMA QuietsAgain ==
    ASSUME NEW h, NEW g, NEW f, Quiets(h, g), Quiets(g, f)
    PROVE  Quiets(h, f)
  BY DEF Quiets

LEMMA RenewQuiets ==
    ASSUME NEW h, NEW g, g.out = h.out
    PROVE  Quiets(h, g)
  BY DEF Quiets, Out

LEMMA AppendQuiets ==
    ASSUME NEW h \in Handlers, NEW g, NEW x \in Segments, g.out = Append(h.out, x), ~IsSyn(x)
    PROVE  Quiets(h, g)
  <1>1. Out(g) = Out(h) \cup {x}
      BY OutFacts
  <1> QED  BY <1>1 DEF Quiets

LEMMA OutputQuiets ==
    ASSUME NEW h \in Handlers
    PROVE  Quiets(h, Output(h))
  <1> DEFINE g == Output(h)
             t == h.t
             n == OutCount(t)
  <1>1. t \in Tcbs
      BY DEF Handlers
  <1>2. /\ n = 0 \/ ~h.ebuf => g = h
        /\ n > 0 /\ h.ebuf =>
              \E s \in Seq(Segments) : /\ g.out = h.out \o s /\ Len(s) = n
                                       /\ \A k \in 1..n : s[k] = OutSegment(t, k)
      BY OutputFacts
  <1>3. n \in Nat
      BY <1>1, OutputNumbers
  <1>4. \A k \in 1..n : ~IsSyn(OutSegment(t, k))
      BY DEF OutSegment, Segment, IsSyn
  <1> HIDE DEF g, n, t
  <1>5. CASE n = 0 \/ ~h.ebuf
      BY <1>2, <1>5, RenewQuiets DEF g
  <1>6. CASE n > 0 /\ h.ebuf
    <2>1. PICK s \in Seq(Segments) : /\ g.out = h.out \o s /\ Len(s) = n
                                     /\ \A k \in 1..n : s[k] = OutSegment(t, k)
        BY <1>2, <1>6
    <2>2. Out(g) = Out(h) \cup {s[k] : k \in 1..Len(s)}
      <3>1. \A f : \A q \in Seq(Segments) : f.out = h.out \o q
               => Out(f) = Out(h) \cup {q[i] : i \in 1..Len(q)}
          BY OutFacts
      <3>2. g.out = h.out \o s => Out(g) = Out(h) \cup {s[i] : i \in 1..Len(s)}
          BY <3>1
      <3> QED  BY <2>1, <3>2
    <2>3. \A k \in 1..Len(s) : ~IsSyn(s[k])
        BY <1>4, <2>1
    <2> QED  BY <2>2, <2>3 DEF Quiets, g
  <1> QED  BY <1>3, <1>5, <1>6

LEMMA ProtosendQuiets ==
    ASSUME NEW h \in Handlers, "SYN" \notin h.t.txflags
    PROVE  Quiets(h, Protosend(h))
  <1> DEFINE g == Protosend(h)
  <1>1. Controls(h, g, h.t.txflags)
      BY ProtosendControls
  <1> HIDE DEF g
  <1>2. CASE ~h.ebuf
    <2>1. g.out = h.out
        BY <1>1, <1>2 DEF Controls
    <2> QED  BY <2>1, RenewQuiets DEF g
  <1>3. CASE h.ebuf
    <2>1. PICK x \in Segments : g.out = Append(h.out, x) /\ x.flags = h.t.txflags
        BY <1>1, <1>3 DEF Controls
    <2>2. ~IsSyn(x)
        BY <2>1 DEF IsSyn
    <2> QED  BY <2>1, <2>2, AppendQuiets DEF g
  <1> QED  BY <1>2, <1>3

\* Something is set first, and then a control segment without SYN is sent.
LEMMA SetAndSentQuiets ==
    ASSUME NEW h, NEW n, Renew(h, n), "SYN" \notin n.t.txflags
    PROVE  Quiets(h, Protosend(n))
  <1>1. n \in Handlers /\ n.out = h.out
      BY DEF Renew
  <1> QED  BY <1>1, ProtosendQuiets, RenewQuiets, QuietsAgain

\* A control segment that is due has no SYN.
DueWithoutSyn(t) == "SENDMSG" \in t.flags => "SYN" \notin t.txflags

LEMMA WorldDues ==
    ASSUME NEW w, NEW h, World(w, h)
    PROVE  DueWithoutSyn(h.t)
  <1>1. Resting(h.t) /\ h.t \in Tcbs
      BY WorldParts
  <1>2. h.t.state \in States
      BY <1>1 DEF Tcbs
  <1>3. CASE h.t.state \in {"CLOSED", "FREE"} \cup CONNINPROGRESS
      BY <1>1, <1>3 DEF Resting, DueWithoutSyn
  <1>4. CASE IsOpen(h.t)
      BY <1>1, <1>4 DEF Resting, DueWithoutSyn
  <1>5. CASE h.t.state \in CLOSINGSTATES \cup {"TIME_WAIT"}
      BY <1>1, <1>5 DEF Resting, DueWithoutSyn
  <1> QED  BY <1>2, <1>3, <1>4, <1>5 DEF States, RESETKEEPALIVE, IsOpen

LEMMA FlushQuiets ==
    ASSUME NEW h \in Handlers, DueWithoutSyn(h.t)
    PROVE  Quiets(h, Flush(h))
  <1>1. CASE "OUTPUT" \in h.t.flags
    <2>1. Renew(Output(h), Flushed(h)) /\ "SENDMSG" \notin Flushed(h).t.flags
        BY FlushedFacts
    <2>2. Flush(h) = Flushed(h)
        BY <1>1, <2>1, FlushIs
    <2>3. Quiets(Output(h), Flushed(h))
        BY <2>1, RenewQuiets DEF Renew
    <2>4. Quiets(h, Output(h))
        BY OutputQuiets
    <2> QED  BY <2>2, <2>3, <2>4, QuietsAgain
  <1>2. CASE "OUTPUT" \notin h.t.flags /\ "SENDMSG" \in h.t.flags
    <2>1. Flush(h) = Protosend(h)
        BY <1>2, FlushIs
    <2>2. "SYN" \notin h.t.txflags
        BY <1>2 DEF DueWithoutSyn
    <2> QED  BY <2>1, <2>2, ProtosendQuiets
  <1>3. CASE "OUTPUT" \notin h.t.flags /\ "SENDMSG" \notin h.t.flags
    <2>1. Flush(h) = h
        BY <1>3, FlushIs
    <2> QED  BY <2>1, RenewQuiets
  <1> QED  BY <1>1, <1>2, <1>3

LEMMA SendQuiets ==
    ASSUME NEW h \in Handlers, NEW d \in Seq(Bytes)
    PROVE  Quiets(h, Send(h, d))
  <1> DEFINE Queues(q) == /\ Renew(h, q)
                          /\ Send(h, d) = IF h.t.txbuf = <<>> THEN Output(q) ELSE q
  <1>0. \E q : Queues(q)
    <2>1. \E q : /\ Renew(h, q) /\ q.t.txbuf = h.t.txbuf \o Accepted(h.t, d)
                 /\ q.t.state = h.t.state /\ q.t.sock = h.t.sock /\ q.t.peer = h.t.peer
                 /\ q.t.sendunack = h.t.sendunack /\ q.t.sendnext = h.t.sendnext
                 /\ q.t.rcvnext = h.t.rcvnext /\ q.t.rcvack = h.t.rcvack
                 /\ q.t.rxbuf = h.t.rxbuf /\ q.t.retx = h.t.retx
                 /\ q.t.flags = h.t.flags /\ q.t.txflags = h.t.txflags
                 /\ Fits(h, q)
                 /\ Send(h, d) = IF h.t.txbuf = <<>> THEN Output(q) ELSE q
        BY SendFacts
    <2> QED  BY <2>1
  <1>1. PICK q : Queues(q)
      BY <1>0
  <1>2. q \in Handlers /\ Quiets(h, q)
      BY <1>1, RenewQuiets DEF Renew
  <1>3. Quiets(q, Output(q))
      BY <1>2, OutputQuiets
  <1>4. Quiets(h, Output(q))
      BY <1>2, <1>3, QuietsAgain
  <1> QED  BY <1>1, <1>2, <1>4

LEMMA RecvQuiets ==
    ASSUME NEW h \in Handlers, NEW want \in 0 .. Len(h.t.rxbuf)
    PROVE  Quiets(h, Recv(h, want))
  <1>1. Renew(h, Recv(h, want))
      BY RecvFacts
  <1> QED  BY <1>1, RenewQuiets DEF Renew

\* A close leaves the states in which a SYN is sent or taken.
LEMMA CloseQuiets ==
    ASSUME NEW w, NEW h, World(w, h), h.t.sock, ~IsFresh(h.t)
    PROVE  Quiets(h, Close(h)) /\ ~IsYoung(Close(h).t)
  <1> DEFINE q == Output(h)
             g == Close(h)
  <1>1. h \in Handlers /\ Resting(h.t) /\ h.t \in Tcbs
      BY WorldParts
  <1>2. Quiets(h, q) /\ q \in Handlers
      BY <1>1, OutputQuiets, OutputFacts
  <1>3. h.t.state \in {"SYN_RECEIVED", "ESTABLISHED", "CLOSE_WAIT", "CLOSED", "LISTEN", "SYN_SENT"}
    <2>1. h.t.state \in States
        BY <1>1 DEF Tcbs
    <2>2. h.t.state \notin CLOSINGSTATES \cup {"TIME_WAIT", "FREE"}
        BY <1>1 DEF Resting
    <2> QED  BY <2>1, <2>2 DEF States, CONNINPROGRESS, RESETKEEPALIVE, SEND_OK
  <1> HIDE DEF q
  <1>4. ASSUME NEW n, NEW s \in {"FINWAIT_1", "LAST_ACK"}, Ending(q, n, s), g = Protosend(n)
        PROVE  Quiets(h, g) /\ ~IsYoung(g.t)
    <2>1. Renew(q, n) /\ n.t.txflags = {"ACK", "FIN"} /\ n.t.state = s
        BY <1>4 DEF Ending
    <2>2. "SYN" \notin n.t.txflags /\ n \in Handlers
        BY <2>1 DEF Renew
    <2>3. Quiets(q, g)
        BY <1>4, <2>1, <2>2, SetAndSentQuiets
    <2>4. g.t.state = s
      <3>1. Kept(n.t, Protosend(n).t)
          BY <2>2, ProtosendFacts
      <3> QED  BY <1>4, <2>1, <3>1 DEF Kept
    <2> QED  BY <1>2, <2>3, <2>4, QuietsAgain DEF IsYoung, IsFresh, CONNINPROGRESS
  <1>5. CASE h.t.state \in {"SYN_RECEIVED", "ESTABLISHED"}
    <2>1. PICK n : Ending(q, n, "FINWAIT_1") /\ g = Protosend(n)
        BY <1>1, <1>5, CloseFacts DEF q
    <2> HIDE DEF g
    <2> QED  BY <1>4, <2>1 DEF g
  <1>6. CASE h.t.state = "CLOSE_WAIT"
    <2>1. PICK n : Ending(q, n, "LAST_ACK") /\ g = Protosend(n)
        BY <1>1, <1>6, CloseFacts DEF q
    <2> HIDE DEF g
    <2> QED  BY <1>4, <2>1 DEF g
  <1>7. CASE h.t.state \in {"CLOSED", "LISTEN", "SYN_SENT"}
    <2>1. Gone(q, g)
        BY <1>1, <1>7, CloseFacts DEF q
    <2> HIDE DEF g
    <2>2. g.out = q.out /\ g.t.state = "FREE"
        BY <2>1 DEF Gone, Renew
    <2> QED  BY <1>2, <2>2, RenewQuiets, QuietsAgain DEF g, IsYoung, IsFresh, CONNINPROGRESS
  <1> QED  BY <1>3, <1>5, <1>6, <1>7

LEMMA ProcackSends ==
    ASSUME NEW h \in Handlers, NEW seg
    PROVE  Procack(h, seg).out = h.out
  <1>1. ProcackEstablished(h, seg).out = h.out
      BY DEF ProcackEstablished, Handlers
  <1>2. EnterTimeWait([h EXCEPT !.t.sendunack = seg.ack]).out = h.out
      BY DEF EnterTimeWait, Preparectlmsg, Canceltimers, Setstate, Handlers
  <1>3. Setstate([h EXCEPT !.t.sendunack = seg.ack], "FINWAIT_2").out = h.out
      BY DEF Setstate, Handlers
  <1> DEFINE p == ProcackEstablished(h, seg)
             q == EnterTimeWait([h EXCEPT !.t.sendunack = seg.ack])
             r == Setstate([h EXCEPT !.t.sendunack = seg.ack], "FINWAIT_2")
  <1>4. Procack(h, seg) \in {p, q, r, h}
      BY DEF Procack
  <1> HIDE DEF p, q, r
  <1> QED  BY <1>1, <1>2, <1>3, <1>4 DEF p, q, r

LEMMA TakeFinQuiets ==
    ASSUME NEW h \in Handlers, NEW seg \in Segments
    PROVE  Quiets(h, TakeFin(h, seg))
  <1>1. CASE h.t.state = "ESTABLISHED"
    <2> DEFINE g == TakeFin(h, seg)
               Replies(n) == Renew(h, n) /\ g = Protosend(n) /\ n.t.txflags = {"ACK"}
    <2>1. \E n : Replies(n)
        BY <1>1, TakeFinFacts DEF FinTaken
    <2> HIDE DEF g
    <2>2. PICK n : Replies(n)
        BY <2>1
    <2>3. Quiets(h, Protosend(n))
        BY <2>2, SetAndSentQuiets
    <2> QED  BY <2>2, <2>3 DEF g
  <1>2. CASE h.t.state # "ESTABLISHED"
    <2>1. Renew(h, TakeFin(h, seg))
        BY <1>2, TakeFinFacts
    <2> QED  BY <2>1, RenewQuiets DEF Renew
  <1> QED  BY <1>1, <1>2

LEMMA ProcdataQuiets ==
    ASSUME NEW h \in Handlers, NEW seg \in Segments, seg.data # <<>> => "FIN" \notin seg.flags
    PROVE  Quiets(h, Procdata(h, seg))
  <1> DEFINE g == Procdata(h, seg)
  <1>1. g \in {h, TakeData(h, seg)} \/ g = TakeFin(h, seg)
      BY DEF Procdata
  <1>2. TakeData(h, seg).out = h.out
      BY DEF TakeData, Preparectlmsg, Handlers
  <1> HIDE DEF g
  <1>3. Quiets(h, TakeData(h, seg)) /\ Quiets(h, h)
      BY <1>2, RenewQuiets
  <1>4. Quiets(h, TakeFin(h, seg))
      BY TakeFinQuiets
  <1> QED  BY <1>1, <1>3, <1>4 DEF g

LEMMA DataHasNoFin ==
    ASSUME NEW w, NEW h, World(w, h), NEW seg \in w.I
    PROVE  seg.data # <<>> => "FIN" \notin seg.flags
  <1>1. /\ Whole(w.c, h.t, w.s, w.r + Len(h.t.rxbuf), w.I, w.u, w.v, w.k, w.J \cup Out(h))
        /\ w.c \in Roles
      BY WorldParts
  <1>2. Datas(w.c, h.t, w.r + Len(h.t.rxbuf), w.I, w.v)
      BY <1>1, Parts
  <1>3. seg.data # <<>> => seg.flags = {"ACK"}
      BY <1>2 DEF Datas
  <1> QED  BY <1>3

LEMMA RxDataQuiets ==
    ASSUME NEW w, NEW h, World(w, h), Calm(h.t), IsTaking(h.t),
           NEW seg \in w.I, "RST" \notin seg.flags
    PROVE  Quiets(h, RxData(h, seg))
  <1> DEFINE m == IF "ACK" \in seg.flags THEN Procack(h, seg) ELSE h
  <1>1. RxData(h, seg) = Procdata(m, seg)
      BY DEF RxData
  <1>2. h \in Handlers /\ w.I \subseteq Segments
      BY WorldParts
  <1>3. m \in Handlers /\ m.out = h.out
    <2>1. CASE "ACK" \in seg.flags
      <3>1. IsAck(seg) /\ m = Procack(h, seg)
          BY <2>1 DEF IsAck
      <3> HIDE DEF m
      <3>2. World(w, m)
          BY <3>1, ProcackTakes
      <3>3. m.out = h.out
          BY <1>2, <3>1, ProcackSends
      <3> QED  BY <3>2, <3>3, WorldParts
    <2>2. CASE "ACK" \notin seg.flags
        BY <1>2, <2>2
    <2> QED  BY <2>1, <2>2
  <1> HIDE DEF m
  <1>4. seg.data # <<>> => "FIN" \notin seg.flags
      BY DataHasNoFin
  <1>5. Quiets(m, Procdata(m, seg))
      BY <1>2, <1>3, <1>4, ProcdataQuiets
  <1>6. Quiets(h, m)
      BY <1>3, RenewQuiets
  <1> QED  BY <1>1, <1>5, <1>6, QuietsAgain

\* The states of the close.
LEMMA RxClosingQuiets ==
    ASSUME NEW w, NEW h, World(w, h), NEW seg \in Segments, NEW m,
           \/ h.t.state = "CLOSING" /\ m = RxClosing(h, seg)
           \/ h.t.state = "LAST_ACK" /\ m = RxLastAck(h, seg)
           \/ h.t.state = "TIME_WAIT" /\ m = RxTimeWait(h, seg)
    PROVE  m \in Handlers /\ Quiets(h, m) /\ DueWithoutSyn(m.t)
  <1>1. h \in Handlers /\ Resting(h.t)
      BY WorldParts
  <1>2. "SYN" \notin h.t.txflags
      BY <1>1 DEF Resting, CLOSINGSTATES
  <1>3. ASSUME Renew(h, m), m.t.txflags \in {h.t.txflags, {"ACK"}} \/ m.t.flags = {}
        PROVE  m \in Handlers /\ Quiets(h, m) /\ DueWithoutSyn(m.t)
    <2>1. m \in Handlers /\ Quiets(h, m)
        BY <1>3, RenewQuiets DEF Renew
    <2>2. DueWithoutSyn(m.t)
        BY <1>2, <1>3 DEF DueWithoutSyn
    <2> QED  BY <2>1, <2>2
  <1>4. ASSUME NEW n, NEW f, Tagged(h, n, f), "SYN" \notin f, m = Protosend(n)
        PROVE  m \in Handlers /\ Quiets(h, m) /\ DueWithoutSyn(m.t)
    <2>1. Renew(h, n) /\ n.t.txflags = f /\ n \in Handlers
        BY <1>4 DEF Tagged, Renew
    <2>2. Quiets(h, m)
        BY <1>4, <2>1, SetAndSentQuiets
    <2>3. m \in Handlers /\ m.t.txflags = f
        BY <1>4, <2>1, ProtosendFacts
    <2> QED  BY <1>4, <2>2, <2>3 DEF DueWithoutSyn
  <1>5. CASE h.t.state = "CLOSING" /\ m = RxClosing(h, seg)
    <2>1. m = h \/ Settles(h, m, "TIME_WAIT")
        BY <1>1, <1>5, RxClosingFacts
    <2>2. Renew(h, m) /\ m.t.txflags \in {h.t.txflags, {"ACK"}}
        BY <1>1, <2>1 DEF Settles, Renew
    <2> QED  BY <1>3, <2>2
  <1>6. CASE h.t.state = "LAST_ACK" /\ m = RxLastAck(h, seg)
    <2> DEFINE f == {"ACK", "FIN"}
    <2>1. Gone(h, m) \/ \E n : Tagged(h, n, f) /\ m = Protosend(n)
        BY <1>1, <1>6, RxLastAckFacts
    <2>2. "SYN" \notin f
        OBVIOUS
    <2> HIDE DEF f
    <2>3. CASE Gone(h, m)
        BY <1>3, <2>3 DEF Gone
    <2>4. CASE \E n : Tagged(h, n, f) /\ m = Protosend(n)
        BY <1>4, <2>2, <2>4
    <2> QED  BY <2>1, <2>3, <2>4
  <1>7. CASE h.t.state = "TIME_WAIT" /\ m = RxTimeWait(h, seg)
    <2> DEFINE f == {"ACK"}
    <2>1. PICK n : Tagged(h, n, f) /\ RxTimeWait(h, seg) = Protosend(n)
        BY <1>1, RxTimeWaitFacts
    <2>2. "SYN" \notin f
        OBVIOUS
    <2> HIDE DEF f
    <2> QED  BY <1>4, <1>7, <2>1, <2>2
  <1> QED  BY <1>5, <1>6, <1>7

\* A caller answers no segment with a SYN, and stays in SYN_SENT only if it is none.
LEMMA CallerRxQuiets ==
    ASSUME NEW w, NEW h, World(w, h), Calm(h.t), w.c = "caller", h.t.state # "FREE",
           NEW seg \in w.I
    PROVE  LET g == RxCallback(h, seg) IN
           /\ Quiets(h, g)
           /\ g.t.state = "SYN_SENT" => h.t.state = "SYN_SENT" /\ ~IsSyn(seg)
  <1> DEFINE m == Told(h, seg)
             g == RxCallback(h, seg)
  <1>1. h \in Handlers /\ w.I \subseteq Segments /\ h.t \in Tcbs
      BY WorldParts
  <1>2. seg \in Segments /\ h.t.state \in States
      BY <1>1 DEF Tcbs
  <1>3. h.t.state \notin {"LISTEN", "SYN_RECEIVED"}
    <2>1. Youth(w.c, h.t, w.s, w.r + Len(h.t.rxbuf))
        BY WorldParts
    <2> QED  BY <2>1 DEF Youth
  <1>4. CASE "RST" \in seg.flags
    <2>1. Live(h) \in Handlers /\ Live(h).out = h.out
        BY <1>1, LiveSame DEF Renew
    <2>2. g = Closetcb(Live(h))
        BY <1>3, <1>4, RxCallbackIs
    <2> HIDE DEF g
    <2>3. g.out = h.out /\ g.t.state = "CLOSED"
        BY <2>1, <2>2, ClosetcbFacts
    <2> QED  BY <2>3, RenewQuiets DEF g
  <1>5. CASE "RST" \notin seg.flags
    <2>1. Renew(h, m) /\ Same(h.t, m.t)
        BY <1>1, <1>2, ToldSame
    <2>2. World(w, m)
        BY <2>1, SameWorld
    <2>3. m \in Handlers /\ m.t.state = h.t.state /\ Calm(m.t) /\ Quiets(h, m)
        BY <2>1, RenewQuiets DEF Renew, Same, Kept, Calm
    <2>4. /\ h.t.state = "SYN_SENT" => g = RxSynSent(m, seg)
          /\ IsTaking(h.t) => g = Flush(RxData(m, seg))
          /\ h.t.state = "CLOSING" => g = Flush(RxClosing(m, seg))
          /\ h.t.state = "LAST_ACK" => g = Flush(RxLastAck(m, seg))
          /\ h.t.state = "TIME_WAIT" => g = Flush(RxTimeWait(m, seg))
          /\ h.t.state \in {"CLOSED", "CLOSE_WAIT"} => g = Flush(m)
        BY <1>5, RxCallbackIs DEF IsTaking
    <2>5. h.t.state # "SYN_SENT" => g.t.state # "SYN_SENT"
      <3>1. Arrow(h.t, g.t)
          BY <1>3, <1>5, RxCallbackGoes
      <3> HIDE DEF g
      <3> QED  BY <3>1 DEF Arrow, SegmentArrows
    <2> HIDE DEF m, g
    <2>6. ASSUME NEW x \in Handlers, Quiets(m, x), DueWithoutSyn(x.t), g = Flush(x)
          PROVE  Quiets(h, g)
      <3>1. Quiets(x, g)
          BY <2>6, FlushQuiets
      <3> QED  BY <2>3, <2>6, <3>1, QuietsAgain
    <2>7. CASE h.t.state = "SYN_SENT"
      <3>1. CASE "SYN" \notin seg.flags
        <4>1. g = m
            BY <2>4, <2>7, <3>1 DEF RxSynSent
        <4> QED  BY <2>3, <2>7, <3>1, <4>1 DEF g, IsSyn
      <3>2. CASE "SYN" \in seg.flags
        <4> DEFINE r == w.r + Len(m.t.rxbuf)
                   K == w.J \cup Out(m)
                   t == m.t
        <4>0. Whole(w.c, t, w.s, r, w.I, w.u, w.v, w.k, K) /\ w.c \in Roles
            BY <2>2, WorldParts
        <4>00. t.state = "SYN_SENT"
            BY <2>3, <2>7
        <4> HIDE DEF r, K, t
        <4>01. "ACK" \in seg.flags /\ AcksOneMore(t, seg)
            BY <3>2, <4>0, <4>00, SynAnswer
        <4>1. "ACK" \in seg.flags /\ AcksOneMore(m.t, seg)
            BY <4>01 DEF t
        <4> DEFINE Replies(n) == /\ Renew(m, n) /\ RxSynSent(m, seg) = Protosend(n)
                               /\ n.t.state = "ESTABLISHED" /\ n.t.txflags = {"ACK"}
        <4>2. \E n : Replies(n)
            BY <1>2, <2>3, <3>2, <4>1, RxSynSentFacts
        <4>3. PICK n : Replies(n)
            BY <4>2
        <4>4. Quiets(m, Protosend(n))
            BY <4>3, SetAndSentQuiets
        <4>5. Protosend(n).t.state = "ESTABLISHED"
          <5>1. n \in Handlers
              BY <4>3 DEF Renew
          <5>2. Kept(n.t, Protosend(n).t)
              BY <5>1, ProtosendFacts
          <5> QED  BY <4>3, <5>2 DEF Kept
        <4>6. g = Protosend(n)
            BY <2>4, <2>7, <4>3
        <4>7. Quiets(h, g)
            BY <2>3, <4>4, <4>6, QuietsAgain
        <4> QED  BY <4>5, <4>6, <4>7 DEF g
      <3> QED  BY <3>1, <3>2
    <2>8. CASE IsTaking(h.t)
      <3> DEFINE x == RxData(m, seg)
      <3>1. IsTaking(m.t)
          BY <2>3, <2>8 DEF IsTaking
      <3>2. World(w, x)
          BY <1>5, <2>2, <2>3, <3>1, RxDataTakes
      <3>3. Quiets(m, x)
          BY <1>5, <2>2, <2>3, <3>1, RxDataQuiets
      <3>4. g = Flush(x)
          BY <2>4, <2>8
      <3> HIDE DEF x
      <3>5. x \in Handlers /\ DueWithoutSyn(x.t)
          BY <3>2, WorldParts, WorldDues
      <3>6. Quiets(h, g)
          BY <2>6, <3>3, <3>4, <3>5
      <3> QED  BY <2>5, <2>8, <3>6 DEF g, IsTaking
    <2>9. CASE h.t.state \in {"CLOSING", "LAST_ACK", "TIME_WAIT"}
      <3>1. PICK x : /\ g = Flush(x)
                     /\ \/ m.t.state = "CLOSING" /\ x = RxClosing(m, seg)
                        \/ m.t.state = "LAST_ACK" /\ x = RxLastAck(m, seg)
                        \/ m.t.state = "TIME_WAIT" /\ x = RxTimeWait(m, seg)
          BY <2>3, <2>4, <2>9
      <3>2. x \in Handlers /\ Quiets(m, x) /\ DueWithoutSyn(x.t)
          BY <1>2, <2>2, <3>1, RxClosingQuiets
      <3>3. Quiets(h, g)
          BY <2>6, <3>1, <3>2
      <3> QED  BY <2>5, <2>9, <3>3 DEF g
    <2>10. CASE h.t.state \in {"CLOSED", "CLOSE_WAIT"}
      <3>1. DueWithoutSyn(m.t)
          BY <2>2, WorldDues
      <3>2. Quiets(m, m)
          BY RenewQuiets
      <3>3. Quiets(h, g)
          BY <2>3, <2>4, <2>6, <2>10, <3>1, <3>2
      <3> QED  BY <2>5, <2>10, <3>3 DEF g
    <2> QED  BY <1>2, <1>3, <2>7, <2>8, <2>9, <2>10
           DEF States, CONNINPROGRESS, RESETKEEPALIVE, SEND_OK, CLOSINGSTATES, IsTaking
  <1> QED  BY <1>4, <1>5

-----------------------------------------------------------------------------
(* The SYN|ACKs a listener has tried                                       *)

\* A call that makes nothing young and tries no SYN|ACK.
Ages(t, x) == /\ IsYoung(x) => IsYoung(t) /\ Tried(x) <= Tried(t)
              /\ x.state = "SYN_SENT" => t.state = "SYN_SENT"

LEMMA TriedType == ASSUME NEW t \in Tcbs PROVE Tried(t) \in Nat
  <1>1. t.sendnext \in SeqNum
      BY DEF Tcbs
  <1> QED  BY <1>1, Sizes DEF Tried, SeqNum

LEMMA AgesAgain ==
    ASSUME NEW t \in Tcbs, NEW x \in Tcbs, NEW y \in Tcbs, Ages(t, x), Ages(x, y)
    PROVE  Ages(t, y)
  <1>1. Tried(t) \in Nat /\ Tried(x) \in Nat /\ Tried(y) \in Nat
      BY TriedType
  <1> QED  BY <1>1 DEF Ages

\* The state is no longer a young one, or all is as it was.
LEMMA SameAges ==
    ASSUME NEW t \in Tcbs, NEW x \in Tcbs,
           x.state = t.state, x.sock = t.sock, x.peer = t.peer,
           x.state \in {"LISTEN", "SYN_RECEIVED"} => x.sendnext = t.sendnext
    PROVE  Ages(t, x)
  <1>1. Tried(x) = Tried(t)
      BY DEF Tried
  <1>2. IsYoung(x) <=> IsYoung(t)
      BY DEF IsYoung, IsFresh
  <1> QED  BY <1>1, <1>2, TriedType DEF Ages

LEMMA OldAges ==
    ASSUME NEW t, NEW x, ~IsYoung(x)
    PROVE  Ages(t, x)
  <1>1. x.state # "SYN_SENT"
      BY DEF IsYoung, CONNINPROGRESS
  <1> QED  BY <1>1 DEF Ages

LEMMA OldByState ==
    ASSUME NEW x, x.state \notin {"CLOSED"} \cup CONNINPROGRESS
    PROVE  ~IsYoung(x)
  BY DEF IsYoung, IsFresh

\* Closing a control block that is not free makes it fresh only if it was young.
LEMMA ClosedAges ==
    ASSUME NEW w, NEW h, World(w, h), h.t.state # "FREE", NEW x,
           x.state = "CLOSED", x.sock = h.t.sock, x.peer = h.t.peer
    PROVE  Ages(h.t, x)
  <1>1. Resting(h.t) /\ h.t \in Tcbs
      BY WorldParts
  <1>2. Tried(x) = 0 /\ Tried(h.t) \in Nat
      BY <1>1, TriedType DEF Tried
  <1>3. IsYoung(x) => x.sock /\ ~x.peer
      BY DEF IsYoung, IsFresh, CONNINPROGRESS
  <1>4. IsYoung(x) => IsYoung(h.t)
      BY <1>1, <1>3 DEF Resting, IsYoung, IsFresh, CONNINPROGRESS
  <1> QED  BY <1>2, <1>4 DEF Ages

LEMMA FasttimoAges ==
    ASSUME NEW w, NEW h, World(w, h)
    PROVE  /\ Ages(h.t, Fasttimo(h).t) /\ Quiets(h, Fasttimo(h))
           /\ h.t.state = "SYN_SENT" => Fasttimo(h) = h
  <1>1. h \in Handlers /\ Resting(h.t) /\ h.t \in Tcbs
      BY WorldParts
  <1>2. CASE "DLYACK" \notin h.t.flags
    <2>1. Fasttimo(h) = h
        BY <1>1, <1>2, FasttimoFacts
    <2> QED  BY <1>1, <2>1, SameAges, RenewQuiets
  <1>3. CASE "DLYACK" \in h.t.flags
    <2> DEFINE f == {"ACK"}
    <2>1. PICK n : Tagged(h, n, f) /\ Fasttimo(h) = Protosend(n)
        BY <1>1, <1>3, FasttimoFacts
    <2>2. "SYN" \notin f
        OBVIOUS
    <2> HIDE DEF f
    <2>3. h.t.state \notin {"CLOSED", "FREE"} \cup CONNINPROGRESS
        BY <1>1, <1>3 DEF Resting
    <2>4. Protosend(n).t.state = h.t.state
        BY <1>1, <2>1, TaggedFits
    <2>5. ~IsYoung(Fasttimo(h).t)
        BY <2>1, <2>3, <2>4, OldByState
    <2>6. Quiets(h, Protosend(n))
        BY <2>1, <2>2, SetAndSentQuiets DEF Tagged
    <2> QED  BY <2>1, <2>3, <2>5, <2>6, OldAges DEF CONNINPROGRESS
  <1> QED  BY <1>2, <1>3

LEMMA RetxExpiredAges ==
    ASSUME NEW w, NEW h, World(w, h)
    PROVE  /\ Ages(h.t, RetxExpired(h).t)
           /\ h.t.state # "SYN_SENT" => Quiets(h, RetxExpired(h))
           /\ h.t.state = "SYN_SENT" =>
                 RetxExpired(h).out = h.out
                 \/ \E x \in Segments : RetxExpired(h).out = Append(h.out, x)
  <1> DEFINE r == RewindToUnacked(h)
             g == RetxExpired(h)
  <1>1. h \in Handlers /\ h.t \in Tcbs
      BY WorldParts
  <1>2. Renew(h, r) /\ Kept(h.t, r.t)
      BY <1>1, RewindFacts
  <1>3. r \in Handlers /\ r.out = h.out /\ r.t.state = h.t.state /\ r.t.sock = h.t.sock
        /\ r.t.peer = h.t.peer
      BY <1>2 DEF Renew, Kept
  <1>4. g = CASE h.t.state = "ESTABLISHED" -> Output(r)
              [] h.t.state = "SYN_SENT" -> Protosend(r)
              [] OTHER -> [h EXCEPT !.t.retx = FALSE]
      BY DEF RetxExpired
  <1> HIDE DEF r, g
  <1>5. CASE h.t.state = "ESTABLISHED"
    <2>1. g = Output(r)
        BY <1>4, <1>5
    <2>2. Kept(r.t, g.t)
        BY <1>3, <2>1, OutputFits
    <2>3. g.t.state = "ESTABLISHED"
        BY <1>3, <1>5, <2>2 DEF Kept
    <2>4. ~IsYoung(g.t)
        BY <2>3, OldByState DEF CONNINPROGRESS
    <2>5. Quiets(h, r) /\ Quiets(r, g)
        BY <1>3, <2>1, RenewQuiets, OutputQuiets
    <2> QED  BY <1>5, <2>4, <2>5, OldAges, QuietsAgain DEF g
  <1>6. CASE h.t.state = "SYN_SENT"
    <2>1. g = Protosend(r)
        BY <1>4, <1>6
    <2>2. Controls(r, g, r.t.txflags)
        BY <1>3, <2>1, ProtosendControls
    <2>3. g \in Handlers /\ Kept(r.t, g.t)
        BY <2>2 DEF Controls
    <2>4. g.t \in Tcbs /\ g.t.state = "SYN_SENT"
        BY <1>3, <1>6, <2>3 DEF Kept, Handlers
    <2>5. Ages(h.t, g.t)
        BY <1>1, <1>3, <1>6, <2>3, <2>4, SameAges DEF Kept
    <2>6. g.out = h.out \/ \E x \in Segments : g.out = Append(h.out, x)
      <3>1. CASE ~r.ebuf
          BY <1>3, <2>2, <3>1 DEF Controls
      <3>2. CASE r.ebuf
          BY <1>3, <2>2, <3>2 DEF Controls
      <3> QED  BY <3>1, <3>2
    <2> QED  BY <1>6, <2>5, <2>6 DEF g
  <1>7. CASE h.t.state \notin {"ESTABLISHED", "SYN_SENT"}
    <2>1. g = [h EXCEPT !.t.retx = FALSE]
        BY <1>4, <1>7
    <2>2. Renew(h, g) /\ Kept(h.t, g.t) /\ g.t.sendnext = h.t.sendnext
        BY <1>1, <2>1, UntimedFacts
    <2>3. g.t \in Tcbs /\ Quiets(h, g)
        BY <2>2, RenewQuiets DEF Renew, Handlers
    <2>4. Ages(h.t, g.t)
        BY <1>1, <2>2, <2>3, SameAges DEF Kept
    <2> QED  BY <1>7, <2>3, <2>4 DEF g
  <1> QED  BY <1>5, <1>6, <1>7

\* At most a RST is sent.
MayReset(h, g) == g.out = h.out \/ \E x \in Segments : g.out = Append(h.out, x) /\ ~IsSyn(x)

LEMMA MayResetQuiets ==
    ASSUME NEW h \in Handlers, NEW g, MayReset(h, g)
    PROVE  Quiets(h, g)
  BY RenewQuiets, AppendQuiets DEF MayReset

LEMMA KeepExpiredAges ==
    ASSUME NEW w, NEW h, World(w, h)
    PROVE  Ages(h.t, KeepExpired(h).t) /\ MayReset(h, KeepExpired(h))
  <1> DEFINE m == [h EXCEPT !.t.keep = FALSE]
             g == KeepExpired(h)
  <1>1. h \in Handlers /\ h.t \in Tcbs
      BY WorldParts
  <1>2. Renew(h, m) /\ Same(h.t, m.t)
      BY <1>1, KeepMslSame
  <1>3. /\ m \in Handlers /\ m.out = h.out /\ m.t.state = h.t.state /\ m.t.sock = h.t.sock
        /\ m.t.peer = h.t.peer /\ m.t.sendnext = h.t.sendnext
      BY <1>2 DEF Renew, Same, Kept
  <1>4. g = IF h.t.state \in CONNINPROGRESS THEN Aborttcb(m) ELSE m
      BY DEF KeepExpired
  <1> HIDE DEF m, g
  <1>5. CASE h.t.state \in CONNINPROGRESS
    <2>1. h.t.state # "FREE"
        BY <1>5 DEF CONNINPROGRESS
    <2>2. g = Aborttcb(m)
        BY <1>4, <1>5
    <2>3. /\ g.t.state = "CLOSED" /\ g.t.sock = m.t.sock /\ g.t.peer = m.t.peer
          /\ \/ g.out = m.out
             \/ \E seg \in Segments : g.out = Append(m.out, seg) /\ seg.flags = {"ACK", "RST"}
        BY <1>3, <2>1, <2>2, AborttcbFacts
    <2>4. Ages(h.t, g.t)
        BY <1>3, <2>1, <2>3, ClosedAges
    <2>5. MayReset(h, g)
        BY <1>3, <2>3 DEF MayReset, IsSyn
    <2> QED  BY <2>4, <2>5 DEF g
  <1>6. CASE h.t.state \notin CONNINPROGRESS
    <2>1. g = m
        BY <1>4, <1>6
    <2>2. m.t \in Tcbs
        BY <1>3 DEF Handlers
    <2>3. Ages(h.t, m.t)
        BY <1>1, <1>3, <2>2, SameAges
    <2> QED  BY <1>3, <2>1, <2>3 DEF g, MayReset
  <1> QED  BY <1>5, <1>6

LEMMA MslExpiredAges ==
    ASSUME NEW w, NEW h, World(w, h)
    PROVE  Ages(h.t, MslExpired(h).t) /\ MslExpired(h).out = h.out
  <1> DEFINE m == [h EXCEPT !.t.msl = FALSE]
             g == MslExpired(h)
  <1>1. h \in Handlers /\ h.t \in Tcbs
      BY WorldParts
  <1>2. Renew(h, m) /\ Same(h.t, m.t)
      BY <1>1, KeepMslSame
  <1>3. /\ m \in Handlers /\ m.out = h.out /\ m.t.state = h.t.state /\ m.t.sock = h.t.sock
        /\ m.t.peer = h.t.peer /\ m.t.sendnext = h.t.sendnext
      BY <1>2 DEF Renew, Same, Kept
  <1>4. g = IF h.t.state = "TIME_WAIT" THEN Freetcb(Closetcb(m)) ELSE m
      BY DEF MslExpired
  <1> HIDE DEF m, g
  <1>5. CASE h.t.state = "TIME_WAIT"
    <2>1. Gone(m, g)
        BY <1>3, <1>4, <1>5, GoneFacts
    <2>2. g.out = h.out /\ g.t.state = "FREE"
        BY <1>3, <2>1 DEF Gone, Renew
    <2> QED  BY <2>2, OldByState, OldAges DEF g, CONNINPROGRESS
  <1>6. CASE h.t.state # "TIME_WAIT"
    <2>1. g = m
        BY <1>4, <1>6
    <2>2. m.t \in Tcbs
        BY <1>3 DEF Handlers
    <2>3. Ages(h.t, m.t)
        BY <1>1, <1>3, <2>2, SameAges
    <2> QED  BY <1>3, <2>1, <2>3 DEF g
  <1> QED  BY <1>5, <1>6

\* A timer poll tries no SYN|ACK; it sends at most one SYN, and that only to
\* retransmit the one of a host in SYN_SENT.
LEMMA PollSyns ==
    ASSUME NEW w, NEW h, World(w, h), h.out = <<>>, NEW expired
    PROVE  LET g == Poll(h, expired) IN
           /\ Ages(h.t, g.t)
           /\ OneSyn(g.out)
           /\ NoSyn(g.out) \/ (h.t.state = "SYN_SENT" /\ "retx" \in expired)
  <1> DEFINE fast == IF "fast" \in expired THEN Fasttimo(h) ELSE h
             retx == IF "retx" \in expired THEN RetxExpired(fast) ELSE fast
             keep == IF "keep" \in expired THEN KeepExpired(retx) ELSE retx
             g == IF "msl" \in expired /\ keep.t.msl THEN MslExpired(keep) ELSE keep
  <1>1. Poll(h, expired) = g
      BY DEF Poll
  <1>2. \A f : World(w, f) => Goes(w, f, f)
      BY WorldParts, FitsItself DEF Goes
  <1>w. \A f : World(w, f) => f \in Handlers /\ f.t \in Tcbs
      BY WorldParts
  <1>s. \A f : World(w, f) => Ages(f.t, f.t) /\ Quiets(f, f) /\ MayReset(f, f)
    <2>1. \A f : Quiets(f, f) /\ MayReset(f, f)
        BY RenewQuiets DEF MayReset
    <2> QED  BY <1>w, <2>1, SameAges
  <1>3. /\ World(w, fast) /\ Ages(h.t, fast.t) /\ Quiets(h, fast)
        /\ h.t.state = "SYN_SENT" => fast = h
        /\ fast.t.state = h.t.state
    <2>1. CASE "fast" \in expired
        BY <2>1, FasttimoGoes, FasttimoAges DEF Goes
    <2>2. CASE "fast" \notin expired
        BY <1>s, <2>2
    <2> QED  BY <2>1, <2>2
  <1> HIDE DEF fast
  <1>4. /\ World(w, retx) /\ Ages(fast.t, retx.t)
        /\ "retx" \notin expired => retx = fast
        /\ h.t.state # "SYN_SENT" => Quiets(fast, retx)
        /\ h.t.state = "SYN_SENT" => retx.out = <<>> \/ \E x \in Segments : retx.out = Append(<<>>, x)
    <2>1. CASE "retx" \in expired
      <3>1. retx = RetxExpired(fast)
          BY <2>1
      <3> HIDE DEF retx
      <3>2. World(w, retx)
          BY <1>3, <3>1, RetxExpiredGoes DEF Goes
      <3>3. /\ Ages(fast.t, retx.t)
            /\ fast.t.state # "SYN_SENT" => Quiets(fast, retx)
            /\ fast.t.state = "SYN_SENT" =>
                  retx.out = fast.out \/ \E x \in Segments : retx.out = Append(fast.out, x)
          BY <1>3, <3>1, RetxExpiredAges
      <3> QED  BY <1>3, <2>1, <3>2, <3>3
    <2>2. CASE "retx" \notin expired
        BY <1>3, <1>s, <2>2
    <2> QED  BY <2>1, <2>2
  <1> HIDE DEF retx
  <1>5. World(w, keep) /\ Ages(retx.t, keep.t) /\ MayReset(retx, keep)
    <2>1. CASE "keep" \in expired
      <3>1. keep = KeepExpired(retx)
          BY <2>1
      <3> HIDE DEF keep
      <3>2. World(w, keep)
          BY <1>4, <3>1, KeepExpiredGoes DEF Goes
      <3> QED  BY <1>4, <3>1, <3>2, KeepExpiredAges
    <2>2. CASE "keep" \notin expired
        BY <1>4, <1>s, <2>2
    <2> QED  BY <2>1, <2>2
  <1> HIDE DEF keep
  <1>6. World(w, g) /\ Ages(keep.t, g.t) /\ g.out = keep.out
    <2>1. CASE "msl" \in expired /\ keep.t.msl
      <3>1. g = MslExpired(keep)
          BY <2>1
      <3> HIDE DEF g
      <3>2. World(w, g)
          BY <1>5, <3>1, MslExpiredGoes DEF Goes
      <3> QED  BY <1>5, <3>1, <3>2, MslExpiredAges
    <2>2. CASE ~("msl" \in expired /\ keep.t.msl)
        BY <1>5, <1>s, <2>2
    <2> QED  BY <2>1, <2>2
  <1> HIDE DEF g
  <1>7. Ages(h.t, g.t)
    <2>1. h.t \in Tcbs /\ fast.t \in Tcbs /\ retx.t \in Tcbs /\ keep.t \in Tcbs /\ g.t \in Tcbs
        BY <1>w, <1>3, <1>4, <1>5, <1>6
    <2>2. Ages(h.t, retx.t)
        BY <1>3, <1>4, <2>1, AgesAgain
    <2>3. Ages(h.t, keep.t)
        BY <1>5, <2>1, <2>2, AgesAgain
    <2> QED  BY <1>6, <2>1, <2>3, AgesAgain
  <1>8. retx \in Handlers /\ Quiets(retx, g)
    <2>1. retx \in Handlers
        BY <1>4, <1>w
    <2>2. Quiets(retx, keep)
        BY <1>5, <2>1, MayResetQuiets
    <2> QED  BY <1>6, <2>1, <2>2 DEF Quiets, Out
  <1>9. CASE h.t.state # "SYN_SENT" \/ "retx" \notin expired
    <2>1. Quiets(fast, retx)
        BY <1>4, <1>9, <1>3, <1>s
    <2>2. Quiets(h, g)
        BY <1>3, <1>8, <2>1, QuietsAgain
    <2>3. Out(h) = {}
        BY <1>w, OutFacts
    <2>4. NoSyn(g.out)
        BY <2>2, <2>3 DEF Quiets, NoSyn, Out, Elems
    <2>5. OneSyn(g.out)
        BY <2>4 DEF NoSyn, OneSyn, SynAt, Elems
    <2> QED  BY <1>1, <1>7, <2>4, <2>5
  <1>10. CASE h.t.state = "SYN_SENT" /\ "retx" \in expired
    <2>1. \A i \in 1..Len(retx.out) : i = 1
      <3>1. CASE retx.out = <<>>
          BY <3>1
      <3>2. ASSUME NEW x \in Segments, retx.out = Append(<<>>, x)
            PROVE  \A i \in 1..Len(retx.out) : i = 1
        <4>1. retx.out = <<x>>
            BY <3>2
        <4> QED  BY <4>1
      <3> QED  BY <1>4, <1>10, <3>1, <3>2
    <2>2. OneSyn(g.out)
      <3>1. CASE keep.out = retx.out
          BY <1>6, <2>1, <3>1 DEF OneSyn, SynAt
      <3>2. ASSUME NEW x \in Segments, keep.out = Append(retx.out, x), ~IsSyn(x)
            PROVE  OneSyn(g.out)
        <4>1. retx.out \in Seq(Segments)
            BY <1>8 DEF Handlers
        <4> DEFINE q == retx.out
                   p == g.out
        <4>2. p = Append(q, x) /\ q \in Seq(Segments) /\ \A i \in 1..Len(q) : i = 1
            BY <1>6, <2>1, <3>2, <4>1
        <4> HIDE DEF p, q
        <4>3. Len(p) = Len(q) + 1 /\ p[Len(q) + 1] = x /\ Len(q) \in Nat
            BY <4>2, AppendProperties
        <4>4. \A i \in 1..Len(p) : IsSyn(p[i]) => i = 1
          <5>1. SUFFICES ASSUME NEW i \in 1..Len(p), IsSyn(p[i]) PROVE i = 1
              OBVIOUS
          <5>2. i # Len(q) + 1
              BY <3>2, <4>3, <5>1
          <5>3. i \in 1..Len(q)
              BY <4>3, <5>2
          <5> QED  BY <4>2, <5>3
        <4> QED  BY <4>4 DEF OneSyn, SynAt, p
      <3> QED  BY <1>5, <3>1, <3>2 DEF MayReset
    <2> QED  BY <1>1, <1>7, <1>10, <2>2
  <1> QED  BY <1>9, <1>10

\* A listener tries a SYN|ACK only to answer a SYN.
AnswersSyn(h, g, seg) ==
    /\ IsYoung(g.t) => /\ IsYoung(h.t)
                       /\ \/ Tried(g.t) <= Tried(h.t)
                          \/ /\ IsSyn(seg) /\ Tried(g.t) <= Tried(h.t) + 1
                             /\ \E x \in Out(g) : IsSyn(x)

LEMMA AgesAnswers ==
    ASSUME NEW h, NEW g, NEW seg, Ages(h.t, g.t)
    PROVE  AnswersSyn(h, g, seg)
  BY DEF Ages, AnswersSyn

LEMMA NextOne ==
    ASSUME NEW a \in SeqNum
    PROVE  Plus(a, 1) <= a + 1 /\ Plus(a, 1) \in Nat
  <1>1. a + 1 < SeqSize => (a + 1) % SeqSize = a + 1
      BY Sizes, ModOf DEF SeqNum
  <1>2. a + 1 >= SeqSize => (a + 1) % SeqSize = a + 1 - SeqSize
      BY Sizes, ModOf DEF SeqNum
  <1> QED  BY <1>1, <1>2, Sizes DEF SeqNum, Plus

\* The SYN|ACK itself, sent from n.
LEMMA SynAckAnswers ==
    ASSUME NEW h, NEW n, NEW g, NEW seg, Renew(h, n), h \in Handlers,
           IsYoung(h.t), h.t.state \in {"LISTEN", "SYN_RECEIVED"},
           n.t.sendnext = h.t.sendnext, n.t.state = "SYN_RECEIVED",
           Controls(n, g, {"SYN", "ACK"}), IsSyn(seg)
    PROVE  AnswersSyn(h, g, seg)
  <1> DEFINE f == {"SYN", "ACK"}
  <1>1. Counts(f) /\ "SYN" \in f /\ "RST" \notin f
      BY DEF Counts
  <1>2. Controls(n, g, f)
      OBVIOUS
  <1> HIDE DEF f
  <1>3. n \in Handlers /\ n.t \in Tcbs /\ h.t \in Tcbs
      BY DEF Renew, Handlers
  <1>4. n.t.sendnext \in SeqNum
      BY <1>3 DEF Tcbs
  <1>5. g.t.state = "SYN_RECEIVED"
      BY <1>2 DEF Controls, Kept
  <1>6. Tried(g.t) = g.t.sendnext /\ Tried(h.t) = h.t.sendnext
      BY <1>5 DEF Tried
  <1>7. CASE ~n.ebuf
    <2>1. g.t.sendnext = n.t.sendnext
        BY <1>2, <1>7 DEF Controls
    <2>2. Tried(g.t) <= Tried(h.t)
        BY <1>4, <1>6, <2>1 DEF SeqNum
    <2> QED  BY <2>2 DEF AnswersSyn
  <1>8. CASE n.ebuf
    <2>1. g.t.sendnext = Plus(n.t.sendnext, 1)
        BY <1>1, <1>2, <1>8 DEF Controls
    <2>2. Tried(g.t) <= Tried(h.t) + 1
        BY <1>4, <1>6, <2>1, NextOne
    <2>3. PICK x \in Segments : g.out = Append(n.out, x) /\ x.flags = f
        BY <1>2, <1>8 DEF Controls
    <2>4. Out(g) = Out(n) \cup {x}
        BY <1>3, <2>3, OutFacts
    <2>5. IsSyn(x)
        BY <1>1, <2>3 DEF IsSyn
    <2> QED  BY <2>2, <2>4, <2>5 DEF AnswersSyn
  <1> QED  BY <1>7, <1>8

LEMMA ListenerRxAnswers ==
    ASSUME NEW w, NEW h, World(w, h), Calm(h.t), w.c = "listener", h.t.state # "FREE",
           NEW seg \in w.I,
           h.t.state \in {"LISTEN", "SYN_RECEIVED"} => 2 * (h.t.sendnext + 1) < SeqSize
    PROVE  AnswersSyn(h, RxCallback(h, seg), seg)
  <1> DEFINE m == Told(h, seg)
             g == RxCallback(h, seg)
             l == Live(h)
  <1>1. h \in Handlers /\ w.I \subseteq Segments /\ h.t \in Tcbs /\ Resting(h.t)
      BY WorldParts
  <1>2. seg \in Segments /\ h.t.state \in States
      BY <1>1 DEF Tcbs
  <1>3. h.t.state # "SYN_SENT"
    <2>1. Youth(w.c, h.t, w.s, w.r + Len(h.t.rxbuf))
        BY WorldParts
    <2> QED  BY <2>1 DEF Youth
  <1>4. CASE "RST" \in seg.flags
    <2>1. Renew(h, l) /\ Same(h.t, l.t)
        BY <1>1, LiveSame
    <2>2. /\ l \in Handlers /\ l.t.sock = h.t.sock /\ l.t.peer = h.t.peer
          /\ l.t.sendnext = h.t.sendnext
        BY <2>1 DEF Renew, Same, Kept
    <2>3. g = IF h.t.state = "SYN_RECEIVED" THEN Setstate(l, "LISTEN") ELSE Closetcb(l)
        BY <1>4, RxCallbackIs
    <2> HIDE DEF l, g
    <2>4. CASE h.t.state = "SYN_RECEIVED"
      <3>1. g = Setstate(l, "LISTEN")
          BY <2>3, <2>4
      <3>2. "LISTEN" \in States
          BY DEF States, CONNINPROGRESS
      <3>3. g.t = [l.t EXCEPT !.state = "LISTEN"]
          BY <2>2, <3>1, <3>2, SetstateFacts
      <3>4. g.t.state = "LISTEN" /\ g.t.sendnext = h.t.sendnext
          BY <2>2, <3>3 DEF Handlers, Tcbs
      <3>5. Tried(g.t) = Tried(h.t)
          BY <2>4, <3>4 DEF Tried
      <3>6. Tried(g.t) <= Tried(h.t) /\ IsYoung(h.t)
          BY <1>1, <2>4, <3>5, TriedType DEF IsYoung, CONNINPROGRESS
      <3> QED  BY <3>6 DEF AnswersSyn, g
    <2>5. CASE h.t.state # "SYN_RECEIVED"
      <3>1. g = Closetcb(l)
          BY <2>3, <2>5
      <3>2. g.t.state = "CLOSED" /\ g.t.sock = h.t.sock /\ g.t.peer = h.t.peer
          BY <2>2, <3>1, ClosetcbFacts
      <3>3. Ages(h.t, g.t)
          BY <3>2, ClosedAges
      <3> QED  BY <3>3, AgesAnswers DEF g
    <2> QED  BY <2>4, <2>5
  <1>5. CASE "RST" \notin seg.flags
    <2>1. Renew(h, m) /\ Same(h.t, m.t)
        BY <1>1, <1>2, ToldSame
    <2>2. /\ m \in Handlers /\ m.t.state = h.t.state /\ m.t.sock = h.t.sock
          /\ m.t.peer = h.t.peer /\ m.t.sendnext = h.t.sendnext /\ m.t.flags = h.t.flags
        BY <2>1 DEF Renew, Same, Kept
    <2>3. m.t \in Tcbs
        BY <2>2 DEF Handlers
    <2>4. AnswersSyn(h, m, seg)
      <3>1. Ages(h.t, m.t)
          BY <1>1, <2>2, <2>3, SameAges
      <3> QED  BY <3>1, AgesAnswers
    <2>5. /\ h.t.state = "LISTEN" => g = RxListen(m, seg)
          /\ h.t.state = "SYN_RECEIVED" => g = RxSynReceived(m, seg)
          /\ h.t.state = "CLOSED" => g = Flush(m)
        BY <1>5, RxCallbackIs
    <2>6. Arrow(h.t, g.t)
        BY <1>5, RxCallbackGoes
    <2> HIDE DEF m, g
    <2>7. CASE h.t.state = "LISTEN"
      <3>1. CASE "SYN" \notin seg.flags
        <4>1. g = m
            BY <2>5, <2>7, <3>1 DEF RxListen
        <4> QED  BY <2>4, <4>1 DEF g
      <3>2. CASE "SYN" \in seg.flags
        <4> DEFINE Replies(n) ==
                      /\ Renew(m, n) /\ RxListen(m, seg) = Protosend(n)
                      /\ n.t.state = "SYN_RECEIVED" /\ n.t.txflags = {"SYN", "ACK"}
                      /\ n.t.sendnext = m.t.sendnext
        <4>1. \E n : Replies(n)
            BY <1>2, <2>2, <3>2, RxListenFacts
        <4>2. PICK n : Replies(n)
            BY <4>1
        <4>3. Renew(h, n) /\ n \in Handlers
            BY <2>1, <4>2 DEF Renew
        <4>4. Controls(n, g, {"SYN", "ACK"})
            BY <2>5, <2>7, <4>2, <4>3, ProtosendControls
        <4>5. IsSyn(seg) /\ IsYoung(h.t)
            BY <1>5, <2>7, <3>2 DEF IsSyn, IsYoung, CONNINPROGRESS
        <4> QED  BY <1>1, <2>2, <2>7, <4>2, <4>3, <4>4, <4>5, SynAckAnswers DEF g
      <3> QED  BY <3>1, <3>2
    <2>8. CASE h.t.state = "SYN_RECEIVED"
      <3> DEFINE a == SynAnswered(m, seg)
                 f == {"SYN", "ACK"}
      <3>1. f \in SUBSET HeaderFlags /\ "set" \in {"set", "clear", "leave"}
          BY DEF HeaderFlags
      <3>2. Controls(m, Sendctlmsg(m, f, "set"), f)
          BY <2>2, <3>1, SendctlmsgFacts
      <3>3. a = IF "SYN" \in seg.flags THEN Sendctlmsg(m, f, "set") ELSE m
          BY DEF SynAnswered
      <3> HIDE DEF a, f
      <3>4. a \in Handlers
          BY <2>2, <3>2, <3>3 DEF Controls
      <3>5. SynAcked(m, seg) \in Handlers
        <4>1. {"ACK"} \in SUBSET HeaderFlags /\ "clear" \in {"set", "clear", "leave"}
            BY DEF HeaderFlags
        <4>2. Controls(a, Sendctlmsg(a, {"ACK"}, "clear"), {"ACK"})
            BY <3>4, <4>1, SendctlmsgFacts
        <4> QED  BY <4>2 DEF Controls, SynAcked, a
      <3>6. \/ g = a
            \/ g.t.state = "ESTABLISHED"
          BY <1>2, <2>2, <2>5, <2>8, <3>5, RxSynReceivedFacts DEF a
      <3>7. CASE g.t.state = "ESTABLISHED"
        <4>1. ~IsYoung(g.t)
            BY <3>7, OldByState DEF CONNINPROGRESS
        <4> QED  BY <4>1, OldAges, AgesAnswers DEF g
      <3>8. CASE g = a /\ "SYN" \notin seg.flags
          BY <2>4, <3>3, <3>8 DEF g
      <3>9. CASE g = a /\ "SYN" \in seg.flags
        <4>1. Controls(m, g, {"SYN", "ACK"})
            BY <3>2, <3>3, <3>9 DEF f
        <4>2. IsSyn(seg) /\ IsYoung(h.t)
            BY <1>5, <2>8, <3>9 DEF IsSyn, IsYoung, CONNINPROGRESS
        <4> QED  BY <1>1, <2>1, <2>2, <2>8, <4>1, <4>2, SynAckAnswers DEF g
      <3> QED  BY <3>6, <3>7, <3>8, <3>9
    <2>9. CASE h.t.state = "CLOSED"
      <3>1. m.t.flags = {}
          BY <1>1, <2>2, <2>9 DEF Resting
      <3>2. Flush(m) = m
          BY <3>1, FlushIs
      <3> QED  BY <2>4, <2>5, <2>9, <3>2 DEF g
    <2>10. CASE h.t.state \notin {"LISTEN", "SYN_RECEIVED", "SYN_SENT", "CLOSED"}
      <3>1. g.t.state \notin {"CLOSED"} \cup CONNINPROGRESS
          BY <2>6, <2>10 DEF Arrow, SegmentArrows, CONNINPROGRESS
      <3>2. ~IsYoung(g.t)
          BY <3>1, OldByState
      <3> QED  BY <3>2, OldAges, AgesAnswers DEF g
    <2> QED  BY <1>3, <2>7, <2>8, <2>9, <2>10
  <1> QED  BY <1>4, <1>5

-----------------------------------------------------------------------------
(* What the calls of a host try                                            *)

\* A call that leaves what is on its way to the host.
Called(e, g) == g \in Handlers /\ Ends(e, g, net[e]) /\ Ages(tcb[e], g.t)

LEMMA NoneOut ==
    ASSUME NEW h \in Handlers, h.out = <<>>, NEW g, Quiets(h, g)
    PROVE  NoSyn(g.out)
  <1>1. Out(h) = {}
      BY OutFacts
  <1> QED  BY <1>1 DEF Quiets, NoSyn, Out, Elems

LEMMA NoneIsOne ==
    ASSUME NEW q, NoSyn(q)
    PROVE  OneSyn(q)
  BY DEF NoSyn, OneSyn, SynAt, Elems

LEMMA ListenCalled ==
    ASSUME OneCaller, WInv, NEW e \in Host, UserListen(e)
    PROVE  \E g : Called(e, g) /\ NoSyn(g.out)
  <1> DEFINE h == Handler(e, TRUE)
             g == Listen(h)
  <1>0. TRUE \in BOOLEAN
      OBVIOUS
  <1>1. h \in Handlers /\ h.t = tcb[e] /\ h.out = <<>>
      BY <1>0, HandlerFacts
  <1>2. Ends(e, g, net[e]) /\ IsFresh(h.t)
      BY <1>1 DEF UserListen, Fresh, IsFresh
  <1>3. World(WorldNow(e), h)
      BY <1>0, WorldBefore
  <1> HIDE DEF h
  <1>4. h.t.flags = {} /\ h.t \in Tcbs
      BY <1>2, <1>3, WorldParts DEF Resting, IsFresh
  <1>5. Renew(h, g) /\ g.t.state = "LISTEN" /\ g.t.sendnext = 0
      BY <1>1, <1>4, ListenFacts
  <1> HIDE DEF g
  <1>6. g \in Handlers /\ NoSyn(g.out)
      BY <1>1, <1>5, RenewQuiets, NoneOut DEF Renew
  <1>7. Ages(h.t, g.t)
    <2>1. Tried(g.t) = 0 /\ Tried(h.t) \in Nat /\ IsYoung(h.t)
        BY <1>2, <1>4, <1>5, TriedType DEF Tried, IsYoung
    <2> QED  BY <1>5, <2>1 DEF Ages
  <1> QED  BY <1>1, <1>2, <1>6, <1>7 DEF Called

LEMMA SendCalled ==
    ASSUME OneCaller, ModestQuota, WInv, NEW e \in Host, NEW n \in 1 .. Quota[e] - sent[e],
           NEW b \in BOOLEAN, UserSend(e, n, b)
    PROVE  \E g : Called(e, g) /\ NoSyn(g.out)
  <1> DEFINE s == sent[e]
             d == [i \in 1..n |-> s + i]
             h == Handler(e, b)
             g == Send(h, d)
  <1>1. h \in Handlers /\ h.t = tcb[e] /\ h.out = <<>>
      BY HandlerFacts
  <1>2. Ends(e, g, net[e]) /\ IsOpen(h.t)
      BY <1>1 DEF UserSend, IsOpen
  <1>3. s \in Nat /\ s <= Quota[e] /\ Quota[e] \in Nat
      BY WInvFacts, BoundsAssumption
  <1>4. n \in Nat
      BY <1>3
  <1> HIDE DEF s, h
  <1>5. d \in Seq(Bytes)
    <2>1. \A i \in 1..n : s + i \in Bytes
        BY <1>3, <1>4 DEF Bytes
    <2>2. d \in [1..n -> Bytes]
        BY <2>1
    <2> QED  BY <1>4, <2>2
  <1> HIDE DEF d
  <1>6. Quiets(h, g)
      BY <1>1, <1>5, SendQuiets
  <1>7. g \in Handlers /\ g.t.state = h.t.state
    <2> DEFINE Queues(q) == /\ Renew(h, q) /\ q.t.state = h.t.state
                            /\ Send(h, d) = IF h.t.txbuf = <<>> THEN Output(q) ELSE q
    <2>1. \E q : Queues(q)
      <3>1. \E q : /\ Renew(h, q) /\ q.t.txbuf = h.t.txbuf \o Accepted(h.t, d)
                   /\ q.t.state = h.t.state /\ q.t.sock = h.t.sock /\ q.t.peer = h.t.peer
                   /\ q.t.sendunack = h.t.sendunack /\ q.t.sendnext = h.t.sendnext
                   /\ q.t.rcvnext = h.t.rcvnext /\ q.t.rcvack = h.t.rcvack
                   /\ q.t.rxbuf = h.t.rxbuf /\ q.t.retx = h.t.retx
                   /\ q.t.flags = h.t.flags /\ q.t.txflags = h.t.txflags
                   /\ Fits(h, q)
                   /\ Send(h, d) = IF h.t.txbuf = <<>> THEN Output(q) ELSE q
          BY <1>1, <1>5, SendFacts
      <3> QED  BY <3>1
    <2>2. PICK q : Queues(q)
        BY <2>1
    <2>3. q \in Handlers
        BY <2>2 DEF Renew
    <2>4. Output(q) \in Handlers /\ Kept(q.t, Output(q).t)
        BY <2>3, OutputFacts
    <2>5. Output(q).t.state = q.t.state
        BY <2>4 DEF Kept
    <2> QED  BY <2>2, <2>3, <2>4, <2>5
  <1> HIDE DEF g
  <1>8. ~IsYoung(g.t)
      BY <1>2, <1>7 DEF IsYoung, IsFresh, IsOpen, SEND_OK, CONNINPROGRESS
  <1>9. Ages(tcb[e], g.t) /\ NoSyn(g.out)
      BY <1>1, <1>6, <1>8, OldAges, NoneOut
  <1> QED  BY <1>2, <1>7, <1>9 DEF Called

LEMMA RecvCalled ==
    ASSUME OneCaller, WInv, NEW e \in Host, NEW want \in 1 .. Len(tcb[e].rxbuf), UserRecv(e, want)
    PROVE  \E g : Called(e, g) /\ NoSyn(g.out)
  <1> DEFINE h == Handler(e, TRUE)
             g == Recv(h, want)
  <1>0. TRUE \in BOOLEAN
      OBVIOUS
  <1>1. h \in Handlers /\ h.t = tcb[e] /\ h.out = <<>>
      BY <1>0, HandlerFacts
  <1>2. Ends(e, g, net[e]) /\ IsOpen(h.t)
      BY <1>1 DEF UserRecv, IsOpen, SEND_OK, RECV_OK
  <1> HIDE DEF h
  <1>3. want \in 0 .. Len(h.t.rxbuf)
    <2>1. Len(tcb[e].rxbuf) \in Nat
        BY WInvFacts, BufferFacts
    <2> DEFINE l == Len(tcb[e].rxbuf)
    <2>2. want \in 1 .. l /\ l \in Nat /\ Len(h.t.rxbuf) = l
        BY <1>1, <2>1
    <2> HIDE DEF l
    <2> QED  BY <2>2
  <1>4. Renew(h, g) /\ g.t.state = h.t.state
      BY <1>1, <1>3, RecvFacts
  <1> HIDE DEF g
  <1>5. g \in Handlers /\ Quiets(h, g)
      BY <1>4, RenewQuiets DEF Renew
  <1>6. ~IsYoung(g.t)
      BY <1>2, <1>4 DEF IsYoung, IsFresh, IsOpen, SEND_OK, CONNINPROGRESS
  <1>7. Ages(tcb[e], g.t) /\ NoSyn(g.out)
      BY <1>1, <1>5, <1>6, OldAges, NoneOut
  <1> QED  BY <1>2, <1>5, <1>7 DEF Called

LEMMA CloseCalled ==
    ASSUME OneCaller, WInv, NEW e \in Host, NEW b \in BOOLEAN, UserClose(e, b)
    PROVE  \E g : Called(e, g) /\ NoSyn(g.out)
  <1> DEFINE h == Handler(e, b)
             w == WorldNow(e)
             g == Close(h)
  <1>1. World(w, h)
      BY WorldBefore
  <1>2. h \in Handlers /\ h.t = tcb[e] /\ h.out = <<>>
      BY HandlerFacts
  <1>3. h.t.sock /\ ~IsFresh(h.t) /\ Ends(e, g, net[e])
      BY <1>2 DEF UserClose, Fresh, IsFresh
  <1> HIDE DEF h, w
  <1>4. Goes(w, h, g)
      BY <1>1, <1>3, CloseGoes
  <1>5. Quiets(h, g) /\ ~IsYoung(g.t)
      BY <1>1, <1>3, CloseQuiets
  <1> HIDE DEF g
  <1>6. g \in Handlers /\ Ages(tcb[e], g.t) /\ NoSyn(g.out)
      BY <1>2, <1>4, <1>5, OldAges, NoneOut DEF Goes, Fits
  <1> QED  BY <1>3, <1>6 DEF Called

LEMMA PollCalled ==
    ASSUME OneCaller, WInv, NEW e \in Host, NEW expired, TimerPoll(e, expired)
    PROVE  \E g : /\ Called(e, g) /\ OneSyn(g.out)
                  /\ NoSyn(g.out) \/ (tcb[e].state = "SYN_SENT" /\ "retx" \in expired)
  <1>1. PICK b \in BOOLEAN : Ends(e, Poll(Handler(e, b), expired), net[e])
      BY DEF TimerPoll
  <1> DEFINE h == Handler(e, b)
             w == WorldNow(e)
             g == Poll(h, expired)
  <1>2. World(w, h)
      BY WorldBefore
  <1>3. h \in Handlers /\ h.t = tcb[e] /\ h.out = <<>>
      BY HandlerFacts
  <1>4. Ends(e, g, net[e])
      BY <1>1
  <1> HIDE DEF h, w
  <1>5. Goes(w, h, g)
      BY <1>2, PollGoes
  <1>6. /\ Ages(h.t, g.t) /\ OneSyn(g.out)
        /\ NoSyn(g.out) \/ (h.t.state = "SYN_SENT" /\ "retx" \in expired)
      BY <1>2, <1>3, PollSyns
  <1> HIDE DEF g
  <1>7. g \in Handlers
      BY <1>5 DEF Goes, Fits
  <1> QED  BY <1>3, <1>4, <1>6, <1>7 DEF Called

LEMMA ConnectCalled ==
    ASSUME OneCaller, WInv, NEW e \in Host, UserConnect(e)
    PROVE  \E g : /\ g \in Handlers /\ Ends(e, g, net[e]) /\ OneSyn(g.out)
                  /\ IsFresh(tcb[e])
  <1> DEFINE h == Handler(e, TRUE)
             g == Connect(h, Iss)
  <1>0. TRUE \in BOOLEAN
      OBVIOUS
  <1>1. h \in Handlers /\ h.t = tcb[e] /\ h.out = <<>>
      BY <1>0, HandlerFacts
  <1>2. Ends(e, g, net[e]) /\ IsFresh(h.t)
      BY <1>1 DEF UserConnect, Fresh, IsFresh
  <1>3. World(WorldNow(e), h)
      BY <1>0, WorldBefore
  <1> HIDE DEF h
  <1>4. h.t.flags = {}
      BY <1>2, <1>3, WorldParts DEF Resting, IsFresh
  <1>5. Iss \in SeqNum
      BY BoundsAssumption DEF SeqNum
  <1> DEFINE Replies(n) == Renew(h, n) /\ g = Protosend(n)
  <1>6. \E n : Replies(n)
    <2>1. \E n : /\ Renew(h, n) /\ Connect(h, Iss) = Protosend(n)
                 /\ n.t.state = "SYN_SENT" /\ n.t.peer = TRUE /\ n.t.txflags = {"SYN"}
                 /\ n.t.sendunack = Iss /\ n.t.sendnext = Iss /\ n.t.flags = {}
                 /\ n.t.txbuf = <<>> /\ n.t.rxbuf = <<>>
        BY <1>1, <1>4, <1>5, ConnectFacts
    <2> QED  BY <2>1
  <1> HIDE DEF g
  <1>7. PICK n : Replies(n)
      BY <1>6
  <1>8. n \in Handlers /\ n.out = <<>>
      BY <1>1, <1>7 DEF Renew
  <1>9. Controls(n, g, n.t.txflags)
      BY <1>7, <1>8, ProtosendControls
  <1>10. g \in Handlers /\ (g.out = <<>> \/ \E x \in Segments : g.out = Append(<<>>, x))
    <2>1. CASE ~n.ebuf
        BY <1>8, <1>9, <2>1 DEF Controls
    <2>2. CASE n.ebuf
        BY <1>8, <1>9, <2>2 DEF Controls
    <2> QED  BY <2>1, <2>2
  <1>11. \A i \in 1..Len(g.out) : i = 1
    <2>1. CASE g.out = <<>>
        BY <2>1
    <2>2. ASSUME NEW x \in Segments, g.out = Append(<<>>, x)
          PROVE  \A i \in 1..Len(g.out) : i = 1
      <3>1. g.out = <<x>>
          BY <2>2
      <3> QED  BY <3>1
    <2> QED  BY <1>10, <2>1, <2>2
  <1>12. OneSyn(g.out)
      BY <1>11 DEF OneSyn, SynAt
  <1> QED  BY <1>1, <1>2, <1>10, <1>12

LEMMA ResetIsNoSyn ==
    ASSUME NEW seg \in Segments, NEW q, q = <<Reset(seg)>> \/ q = <<>>
    PROVE  NoSyn(q)
  <1>1. ~IsSyn(Reset(seg))
      BY ResetSegment DEF IsSyn
  <1>2. \A i \in 1..Len(q) : q[i] = Reset(seg)
      OBVIOUS
  <1> QED  BY <1>1, <1>2 DEF NoSyn, Elems

LEMMA ListenerReceives ==
    ASSUME OneCaller, WInv, FewSyns, NEW e \in Host, e \notin Connecting, NEW b \in BOOLEAN,
           NEW seg \in Elems(net[e]), NEW rest, Receive(e, seg, rest, b)
    PROVE  \E g : /\ g \in Handlers /\ Ends(e, g, rest)
                  /\ AnswersSyn(Handler(e, b), g, seg)
  <1> DEFINE h == Handler(e, b)
             w == WorldNow(e)
  <1>1. World(w, h)
      BY WorldBefore
  <1>2. h.t = tcb[e] /\ h \in Handlers /\ h.out = <<>> /\ h.ebuf = b /\ h.t \in Tcbs
    <2>1. h.t = tcb[e] /\ h \in Handlers /\ h.out = <<>> /\ h.ebuf = b
        BY HandlerFacts
    <2> QED  BY <2>1 DEF Handlers
  <1>3. w.I = Elems(net[e]) /\ w.c = Role(e)
      BY WorldAtFacts DEF WorldNow
  <1>d. h = Handler(e, b)
      OBVIOUS
  <1> HIDE DEF h, w
  <1>4. Calm(h.t) /\ w.c = "listener"
      BY <1>2, <1>3, WInvFacts DEF Role
  <1>5. seg \in w.I /\ seg \in Segments
      BY <1>1, <1>3, WorldParts
  <1>6. CASE Found(e)
    <2> DEFINE g == RxCallback(h, seg)
    <2>1. h.t.state # "FREE"
        BY <1>2, <1>6 DEF Found
    <2>2. h.t.state \in {"LISTEN", "SYN_RECEIVED"} => 2 * (h.t.sendnext + 1) < SeqSize
        BY <1>2 DEF FewSyns
    <2>3. Goes(w, h, g)
        BY <1>1, <1>4, <1>5, <2>1, <2>2, RxCallbackGoes
    <2>4. Ends(e, g, rest)
        BY <1>6, <1>d DEF Receive
    <2>5. AnswersSyn(h, g, seg)
        BY <1>1, <1>4, <1>5, <2>1, <2>2, ListenerRxAnswers
    <2> HIDE DEF g
    <2>6. g \in Handlers
        BY <2>3 DEF Goes, Fits
    <2> QED  BY <1>d, <2>4, <2>5, <2>6
  <1>7. CASE ~Found(e)
    <2> DEFINE g == [h EXCEPT !.out = IF b THEN <<Reset(seg)>> ELSE <<>>]
    <2>1. Ends(e, g, rest)
        BY <1>7, <1>d DEF Receive
    <2>2. g = [h EXCEPT !.out = IF h.ebuf THEN <<Reset(seg)>> ELSE <<>>]
        BY <1>2
    <2> HIDE DEF g
    <2>3. Goes(w, h, g) /\ g.t = h.t
        BY <1>1, <1>2, <1>5, <2>2, UnfoundGoes
    <2>4. g \in Handlers
        BY <2>3 DEF Goes, Fits
    <2>5. Ages(h.t, g.t)
        BY <1>2, <2>3, SameAges
    <2> QED  BY <1>d, <2>1, <2>4, <2>5, AgesAnswers
  <1> QED  BY <1>6, <1>7

LEMMA CallerReceives ==
    ASSUME OneCaller, WInv, FewSyns, NEW e \in Host, e \in Connecting, NEW b \in BOOLEAN,
           NEW seg \in Elems(net[e]), NEW rest, Receive(e, seg, rest, b)
    PROVE  \E g : /\ g \in Handlers /\ Ends(e, g, rest) /\ NoSyn(g.out)
                  /\ g.t.state = "SYN_SENT" => tcb[e].state = "SYN_SENT" /\ ~IsSyn(seg)
  <1> DEFINE h == Handler(e, b)
             w == WorldNow(e)
  <1>1. World(w, h)
      BY WorldBefore
  <1>2. h.t = tcb[e] /\ h \in Handlers /\ h.out = <<>> /\ h.ebuf = b
      BY HandlerFacts
  <1>3. w.I = Elems(net[e]) /\ w.c = Role(e)
      BY WorldAtFacts DEF WorldNow
  <1>d. h = Handler(e, b)
      OBVIOUS
  <1> HIDE DEF h, w
  <1>4. Calm(h.t) /\ w.c = "caller"
      BY <1>2, <1>3, WInvFacts DEF Role
  <1>5. seg \in w.I /\ seg \in Segments
      BY <1>1, <1>3, WorldParts
  <1>6. CASE Found(e)
    <2> DEFINE g == RxCallback(h, seg)
    <2>1. h.t.state # "FREE"
        BY <1>2, <1>6 DEF Found
    <2>2. h.t.state \in {"LISTEN", "SYN_RECEIVED"} => 2 * (h.t.sendnext + 1) < SeqSize
        BY <1>2 DEF FewSyns
    <2>3. Goes(w, h, g)
        BY <1>1, <1>4, <1>5, <2>1, <2>2, RxCallbackGoes
    <2>4. Ends(e, g, rest)
        BY <1>6, <1>d DEF Receive
    <2>5. Quiets(h, g) /\ (g.t.state = "SYN_SENT" => h.t.state = "SYN_SENT" /\ ~IsSyn(seg))
        BY <1>1, <1>4, <1>5, <2>1, CallerRxQuiets
    <2> HIDE DEF g
    <2>6. g \in Handlers /\ NoSyn(g.out)
        BY <1>2, <2>3, <2>5, NoneOut DEF Goes, Fits
    <2> QED  BY <1>2, <2>4, <2>5, <2>6
  <1>7. CASE ~Found(e)
    <2> DEFINE g == [h EXCEPT !.out = IF b THEN <<Reset(seg)>> ELSE <<>>]
    <2>1. Ends(e, g, rest)
        BY <1>7, <1>d DEF Receive
    <2>2. g = [h EXCEPT !.out = IF h.ebuf THEN <<Reset(seg)>> ELSE <<>>]
        BY <1>2
    <2>o. g.out = <<Reset(seg)>> \/ g.out = <<>>
        BY <1>2 DEF Handlers
    <2> HIDE DEF g
    <2>3. Goes(w, h, g) /\ g.t = h.t
        BY <1>1, <1>2, <1>5, <2>2, UnfoundGoes
    <2>4. g \in Handlers
        BY <2>3 DEF Goes, Fits
    <2>5. NoSyn(g.out)
        BY <1>5, <2>o, ResetIsNoSyn
    <2>6. g.t.state # "SYN_SENT"
      <3>1. Resting(h.t)
          BY <1>1, WorldParts
      <3> QED  BY <1>2, <1>7, <2>3, <3>1 DEF Found, Resting
    <2> QED  BY <2>1, <2>4, <2>5, <2>6
  <1> QED  BY <1>6, <1>7

-----------------------------------------------------------------------------
(* How many SYN|ACKs a listener can have tried after n faults              *)

LEMMA CountTypes ==
    ASSUME NEW t \in Tcbs, NEW q \in Seq(Segments)
    PROVE  Tried(t) \in Nat /\ SynCount(q) \in Nat /\ (SynCount(q) = 0 <=> NoSyn(q))
  BY TriedType, SynFinite

\* A call of the listener that tries nothing.
LEMMA AgesCounts ==
    ASSUME NEW n \in Nat, NEW t \in Tcbs, NEW u, NEW q \in Seq(Segments), NEW p \in Seq(Segments),
           Counted(n, t, u, q, p),
           NEW m \in Nat, m >= n, NEW x \in Tcbs, Ages(t, x), NEW o \in Seq(Segments)
    PROVE  Counted(m, x, u, q, p \o o)
  <1>1. NoSyn(p \o o) => NoSyn(p)
      BY ElemsOfConcat DEF NoSyn
  <1>2. Tried(t) \in Nat /\ Tried(x) \in Nat /\ SynCount(q) \in Nat
      BY CountTypes
  <1>3. IsYoung(x) => IsYoung(t) /\ Tried(x) <= Tried(t)
      BY DEF Ages
  <1> QED  BY <1>1, <1>2, <1>3 DEF Counted

\* A fault makes up for what it repeats or leaves out.
LEMMA FaultCounts ==
    ASSUME NEW n \in Nat, NEW t \in Tcbs, NEW u, NEW q \in Seq(Segments), NEW p,
           Counted(n, t, u, q, p),
           NEW x \in Tcbs, NEW r \in Seq(Segments),
           IsYoung(x) => IsYoung(t) /\ Tried(x) + SynCount(r) <= Tried(t) + SynCount(q),
           NEW v, NEW o
    PROVE  Counted(n + 1, x, v, r, o)
  <1>1. /\ Tried(t) \in Nat /\ Tried(x) \in Nat /\ SynCount(q) \in Nat /\ SynCount(r) \in Nat
      BY CountTypes
  <1>2. SUFFICES ASSUME IsYoung(x)
                 PROVE  Tried(x) + SynCount(r) <= n + 2 /\ Tried(x) <= n + 1
    <2>1. n + 1 + 1 = n + 2
        OBVIOUS
    <2> QED  BY <1>2, <2>1 DEF Counted
  <1>3. Tried(t) + SynCount(q) <= n + 1 /\ Tried(x) + SynCount(r) <= Tried(t) + SynCount(q)
      BY <1>2 DEF Counted
  <1> QED  BY <1>1, <1>3

\* What is known of the listener when a segment has been taken.
Tries(t, x, seg, o) ==
    IsYoung(x) => /\ IsYoung(t)
                  /\ \/ Tried(x) <= Tried(t)
                     \/ IsSyn(seg) /\ Tried(x) <= Tried(t) + 1 /\ ~NoSyn(o)

\* A segment is taken: r is left of q.
LEMMA TakenCounts ==
    ASSUME NEW n \in Nat, NEW t \in Tcbs, NEW u, NEW q \in Seq(Segments), NEW p \in Seq(Segments),
           Counted(n, t, u, q, p),
           NEW i \in 1..Len(q), NEW r, Omits(r, q, i),
           NEW x \in Tcbs, NEW o \in Seq(Segments), Tries(t, x, q[i], o)
    PROVE  /\ Counted(n, x, u, r, p \o o)
           /\ \A v, f : Counted(n + 1, x, v, r, f)
  <1> DEFINE y == q[i]
             a == Tried(t)
             b == Tried(x)
             k == SynCount(q)
             l == SynCount(r)
  <1>1. r \in Seq(Segments)
      BY DEF Omits
  <1>2. a \in Nat /\ b \in Nat /\ k \in Nat /\ l \in Nat /\ (k = 0 <=> NoSyn(q)) /\ (l = 0 <=> NoSyn(r))
      BY <1>1, CountTypes
  <1>3. /\ l <= k
        /\ IsSyn(y) => l + 1 <= k
        /\ NoSyn(r) /\ ~IsSyn(y) => NoSyn(q)
      BY SynOmits
  <1>4. NoSyn(p \o o) => NoSyn(p) /\ NoSyn(o)
      BY ElemsOfConcat DEF NoSyn
  <1>5. /\ IsYoung(x) => /\ IsYoung(t)
                         /\ b <= a \/ (IsSyn(y) /\ b <= a + 1 /\ ~NoSyn(o))
      BY DEF Tries
  <1>6. IsYoung(t) => /\ a + k <= n + 1
                      /\ u.state = "SYN_SENT" /\ NoSyn(q) /\ NoSyn(p) => a <= n
      BY DEF Counted
  <1>7. /\ IsYoung(x) => /\ b + l <= n + 1
                         /\ u.state = "SYN_SENT" /\ NoSyn(r) /\ NoSyn(p \o o) => b <= n
    <2> HIDE DEF a, b, k, l, y
    <2>1. SUFFICES ASSUME IsYoung(x)
                   PROVE  /\ b + l <= n + 1
                          /\ u.state = "SYN_SENT" /\ NoSyn(r) /\ NoSyn(p \o o) => b <= n
        OBVIOUS
    <2>2. a + k <= n + 1
        BY <1>5, <1>6, <2>1
    <2>3. CASE IsSyn(y)
      <3>1. l + 1 <= k /\ b <= a + 1
          BY <1>2, <1>3, <1>5, <2>1, <2>3
      <3>2. b + l <= n + 1 /\ a <= n
          BY <1>2, <2>2, <3>1
      <3>3. NoSyn(p \o o) => b <= a
          BY <1>4, <1>5, <2>1
      <3> QED  BY <1>2, <3>2, <3>3
    <2>4. CASE ~IsSyn(y)
      <3>1. b <= a
          BY <1>5, <2>1, <2>4
      <3>2. b + l <= n + 1
          BY <1>2, <1>3, <2>2, <3>1
      <3>3. u.state = "SYN_SENT" /\ NoSyn(r) /\ NoSyn(p \o o) => a <= n
          BY <1>3, <1>4, <1>5, <1>6, <2>1, <2>4
      <3> QED  BY <1>2, <3>1, <3>2, <3>3
    <2> QED  BY <2>3, <2>4
  <1>8. IsYoung(x) => IsYoung(t) /\ b + l <= a + k
    <2> HIDE DEF a, b, k, l, y
    <2> QED  BY <1>2, <1>3, <1>5
  <1>9. \A v, f : Counted(n + 1, x, v, r, f)
      BY <1>1, <1>8, FaultCounts
  <1> QED  BY <1>7, <1>9 DEF Counted

\* The same, when the segment stays on its way.
LEMMA TakenAgainCounts ==
    ASSUME NEW n \in Nat, NEW t \in Tcbs, NEW u, NEW q \in Seq(Segments), NEW p \in Seq(Segments),
           Counted(n, t, u, q, p),
           NEW y \in Elems(q), NEW x \in Tcbs, NEW o \in Seq(Segments), Tries(t, x, y, o)
    PROVE  \A v, f : Counted(n + 1, x, v, q, f)
  <1> DEFINE a == Tried(t)
             b == Tried(x)
             k == SynCount(q)
  <1>1. a \in Nat /\ b \in Nat /\ k \in Nat /\ (k = 0 <=> NoSyn(q))
      BY CountTypes
  <1>2. /\ IsYoung(x) => /\ IsYoung(t)
                         /\ b <= a \/ (IsSyn(y) /\ b <= a + 1)
      BY DEF Tries
  <1>3. IsYoung(t) => a + k <= n + 1
      BY DEF Counted
  <1>4. IsSyn(y) => ~NoSyn(q)
      BY DEF NoSyn
  <1>5. IsYoung(x) => b + k <= n + 2 /\ (NoSyn(q) => b <= n + 1)
    <2> HIDE DEF a, b, k
    <2>1. SUFFICES ASSUME IsYoung(x) PROVE b + k <= n + 2 /\ (NoSyn(q) => b <= n + 1)
        OBVIOUS
    <2>2. a + k <= n + 1 /\ b <= a + 1
        BY <1>1, <1>2, <1>3, <2>1
    <2>3. NoSyn(q) => b <= a
        BY <1>2, <1>4, <2>1
    <2> QED  BY <1>1, <2>2, <2>3
  <1>6. n + 1 + 1 = n + 2
      OBVIOUS
  <1> QED  BY <1>5, <1>6 DEF Counted

\* The caller sends no SYN.
LEMMA CallerCounts ==
    ASSUME NEW n \in Nat, NEW t \in Tcbs, NEW u, NEW q \in Seq(Segments), NEW p,
           Counted(n, t, u, q, p),
           NEW m \in Nat, m >= n, NEW o \in Seq(Segments), NoSyn(o), NEW y, NEW r,
           y.state = "SYN_SENT" /\ NoSyn(r) => u.state = "SYN_SENT" /\ NoSyn(p)
    PROVE  Counted(m, t, y, q \o o, r)
  <1>1. OneSyn(o)
      BY NoneIsOne
  <1>2. SynCount(q \o o) = SynCount(q) /\ (NoSyn(q \o o) => NoSyn(q))
      BY <1>1, SynConcat
  <1>3. Tried(t) \in Nat /\ SynCount(q) \in Nat
      BY CountTypes
  <1> QED  BY <1>2, <1>3 DEF Counted

LEMMA CallerFaultCounts ==
    ASSUME NEW n \in Nat, NEW t \in Tcbs, NEW u, NEW q \in Seq(Segments), NEW p,
           Counted(n, t, u, q, p), NEW o \in Seq(Segments), NoSyn(o)
    PROVE  \A y, r : Counted(n + 1, t, y, q \o o, r)
  <1>1. OneSyn(o)
      BY NoneIsOne
  <1>2. SynCount(q \o o) = SynCount(q) /\ q \o o \in Seq(Segments)
      BY <1>1, SynConcat
  <1>3. Tried(t) \in Nat /\ SynCount(q) \in Nat
      BY CountTypes
  <1>4. Tried(t) + SynCount(q \o o) <= Tried(t) + SynCount(q)
      BY <1>2, <1>3
  <1> QED  BY <1>2, <1>4, FaultCounts

\* The caller sends its SYN again: nothing was on its way, or too early, which is a fault.
LEMMA RepeatCounts ==
    ASSUME NEW n \in Nat, NEW t \in Tcbs, NEW u, NEW q \in Seq(Segments), NEW p,
           Counted(n, t, u, q, p), NEW m \in Nat, m >= n,
           m > n \/ (u.state = "SYN_SENT" /\ NoSyn(q) /\ NoSyn(p)),
           NEW o \in Seq(Segments), OneSyn(o), ~NoSyn(o)
    PROVE  \A y, r : Counted(m, t, y, q \o o, r)
  <1>1. SynCount(q \o o) <= SynCount(q) + 1 /\ ~NoSyn(q \o o) /\ q \o o \in Seq(Segments)
      BY SynConcat
  <1>2. /\ Tried(t) \in Nat /\ SynCount(q) \in Nat /\ SynCount(q \o o) \in Nat
        /\ (SynCount(q) = 0 <=> NoSyn(q))
      BY <1>1, CountTypes
  <1>3. IsYoung(t) => Tried(t) + SynCount(q \o o) <= m + 1
    <2> DEFINE a == Tried(t)
               k == SynCount(q)
               l == SynCount(q \o o)
    <2>1. SUFFICES ASSUME IsYoung(t) PROVE a + l <= m + 1
        OBVIOUS
    <2>2. a + k <= n + 1 /\ (u.state = "SYN_SENT" /\ NoSyn(q) /\ NoSyn(p) => a <= n)
        BY <2>1 DEF Counted
    <2>3. a \in Nat /\ k \in Nat /\ l \in Nat /\ l <= k + 1 /\ (k = 0 <=> NoSyn(q))
        BY <1>1, <1>2
    <2> HIDE DEF a, k, l
    <2>4. CASE m > n
        BY <2>2, <2>3, <2>4
    <2>5. CASE u.state = "SYN_SENT" /\ NoSyn(q) /\ NoSyn(p)
      <3>1. a <= n /\ l <= 1
          BY <2>2, <2>3, <2>5
      <3> QED  BY <2>3, <3>1
    <2> QED  BY <2>4, <2>5
  <1> QED  BY <1>1, <1>3 DEF Counted

\* The first SYN.
LEMMA FirstCounts ==
    ASSUME NEW n \in Nat, NEW t \in Tcbs, Tried(t) = 0, NEW q \in Seq(Segments), NoSyn(q),
           NEW o \in Seq(Segments), OneSyn(o)
    PROVE  \A y, r : Counted(n, t, y, q \o o, r)
  <1>1. SynCount(q \o o) <= SynCount(q) + 1 /\ q \o o \in Seq(Segments)
      BY SynConcat
  <1>2. SynCount(q) = 0 /\ SynCount(q \o o) \in Nat
      BY <1>1, CountTypes
  <1> QED  BY <1>1, <1>2 DEF Counted

-----------------------------------------------------------------------------
(* Each step keeps the count                                               *)

LEMMA EndsFacts ==
    ASSUME WInv, NEW e \in Host, NEW g \in Handlers, NEW rest \in Seq(Segments), Ends(e, g, rest)
    PROVE  /\ tcb'[e] = g.t /\ g.t \in Tcbs /\ tcb'[Peer(e)] = tcb[Peer(e)]
           /\ net'[e] = rest /\ net'[Peer(e)] = net[Peer(e)] \o g.out /\ g.out \in Seq(Segments)
           /\ net[Peer(e)] \in Seq(Segments) /\ tcb[Peer(e)] \in Tcbs
  <1>1. Peer(e) \in Host /\ Peer(e) # e
      BY PeerFacts
  <1>2. tcb \in [Host -> Tcbs] /\ net \in [Host -> Seq(Segments)]
      BY WInvFacts
  <1> DEFINE p == Peer(e)
  <1>3. /\ tcb' = [tcb EXCEPT ![e] = g.t] /\ net' = [net EXCEPT ![e] = rest, ![p] = @ \o g.out]
      BY DEF Ends
  <1>4. p \in Host /\ p # e
      BY <1>1
  <1> HIDE DEF p
  <1>5. g.t \in Tcbs /\ g.out \in Seq(Segments)
      BY DEF Handlers
  <1>6. tcb'[e] = g.t /\ tcb'[p] = tcb[p]
      BY <1>2, <1>3, <1>4
  <1>7. net'[e] = rest /\ net'[p] = net[p] \o g.out
      BY <1>2, <1>3, <1>4
  <1> QED  BY <1>2, <1>4, <1>5, <1>6, <1>7 DEF p

LEMMA FaultBounds ==
    ASSUME CountInv, NEW kind, Fault(kind)
    PROVE  faults \in Nat /\ faults' = faults + 1 /\ faults' \in 0 .. MaxFaults
  BY BoundsAssumption DEF CountInv, Fault

LEMMA PoolBounds ==
    ASSUME CountInv, NEW b, Pool(b)
    PROVE  faults \in Nat /\ faults' \in 0 .. MaxFaults /\ faults' >= faults
  <1>1. CASE Fault("noebuf")
    <2>1. faults \in Nat /\ faults' = faults + 1 /\ faults' \in 0 .. MaxFaults
        BY <1>1, FaultBounds
    <2> QED  BY <2>1
  <1>2. CASE UNCHANGED faults
      BY <1>2, BoundsAssumption DEF CountInv
  <1> QED  BY <1>1, <1>2 DEF Pool

\* The control block, and what is on its way, as CountAt reads them.
LEMMA CountFacts ==
    ASSUME WInv, CountInv, NEW e \in Host
    PROVE  /\ faults \in Nat /\ tcb[e] \in Tcbs /\ net[e] \in Seq(Segments)
           /\ Peer(e) \in Host /\ Peer(Peer(e)) = e
           /\ tcb[Peer(e)] \in Tcbs /\ net[Peer(e)] \in Seq(Segments)
           /\ e \notin Connecting => CountAt(e)
  <1>1. Peer(e) \in Host /\ Peer(Peer(e)) = e
      BY PeerFacts
  <1>2. tcb \in [Host -> Tcbs] /\ net \in [Host -> Seq(Segments)]
      BY WInvFacts
  <1>3. faults \in Nat
      BY BoundsAssumption DEF CountInv
  <1> QED  BY <1>1, <1>2, <1>3 DEF CountInv

LEMMA ListenerSpeaks ==
    ASSUME WInv, CountInv, NEW e \in Host, e \notin Connecting, NEW g, Called(e, g),
           faults' \in Nat, faults' >= faults
    PROVE  CountAt(e)'
  <1>1. /\ faults \in Nat /\ tcb[e] \in Tcbs /\ net[e] \in Seq(Segments)
        /\ net[Peer(e)] \in Seq(Segments) /\ CountAt(e)
      BY CountFacts
  <1>2. g \in Handlers /\ Ends(e, g, net[e]) /\ Ages(tcb[e], g.t)
      BY DEF Called
  <1>3. /\ tcb'[e] = g.t /\ g.t \in Tcbs /\ tcb'[Peer(e)] = tcb[Peer(e)]
        /\ net'[e] = net[e] /\ net'[Peer(e)] = net[Peer(e)] \o g.out /\ g.out \in Seq(Segments)
      BY <1>1, <1>2, EndsFacts
  <1>4. Counted(faults', g.t, tcb[Peer(e)], net[e], net[Peer(e)] \o g.out)
      BY <1>1, <1>2, <1>3, AgesCounts DEF CountAt
  <1>5. Counted(faults', tcb'[e], tcb'[Peer(e)], net'[e], net'[Peer(e)])
      BY <1>3, <1>4
  <1> QED  BY <1>5 DEF CountAt

LEMMA CallerSpeaks ==
    ASSUME WInv, CountInv, NEW e \in Host, Peer(e) \notin Connecting, NEW g, Called(e, g), NoSyn(g.out),
           faults' \in Nat, faults' >= faults
    PROVE  CountAt(Peer(e))'
  <1> DEFINE l == Peer(e)
  <1>0. l \in Host /\ Peer(l) = e /\ Peer(e) = l
      BY PeerFacts
  <1>1. /\ faults \in Nat /\ tcb[l] \in Tcbs /\ net[l] \in Seq(Segments) /\ net[e] \in Seq(Segments)
        /\ CountAt(l)
      BY <1>0, CountFacts
  <1>2. g \in Handlers /\ Ends(e, g, net[e]) /\ Ages(tcb[e], g.t)
      BY DEF Called
  <1>3. /\ tcb'[e] = g.t /\ tcb'[l] = tcb[l]
        /\ net'[e] = net[e] /\ net'[l] = net[l] \o g.out /\ g.out \in Seq(Segments)
      BY <1>1, <1>2, EndsFacts
  <1>4. Counted(faults, tcb[l], tcb[e], net[l], net[e])
      BY <1>0, <1>1 DEF CountAt
  <1> HIDE DEF l
  <1>5. g.t.state = "SYN_SENT" => tcb[e].state = "SYN_SENT"
      BY <1>2 DEF Ages
  <1>6. Counted(faults', tcb[l], g.t, net[l] \o g.out, net[e])
      BY <1>1, <1>3, <1>4, <1>5, CallerCounts
  <1>7. Counted(faults', tcb'[l], tcb'[e], net'[l], net'[e])
      BY <1>3, <1>6
  <1>8. CountAt(l)'
      BY <1>0, <1>7 DEF CountAt
  <1> QED  BY <1>8 DEF l

LEMMA CallerConnects ==
    ASSUME OneCaller, WInv, CountInv, NEW e \in Host, Peer(e) \notin Connecting, UserConnect(e)
    PROVE  CountAt(Peer(e))'
  <1> DEFINE l == Peer(e)
  <1>0. l \in Host /\ Peer(l) = e /\ Peer(e) = l
      BY PeerFacts
  <1>1. /\ faults \in Nat /\ tcb[l] \in Tcbs /\ net[l] \in Seq(Segments) /\ net[e] \in Seq(Segments)
      BY <1>0, CountFacts
  <1>2. PICK g : /\ g \in Handlers /\ Ends(e, g, net[e]) /\ OneSyn(g.out) /\ IsFresh(tcb[e])
      BY ConnectCalled
  <1>3. /\ tcb'[e] = g.t /\ tcb'[l] = tcb[l]
        /\ net'[e] = net[e] /\ net'[l] = net[l] \o g.out /\ g.out \in Seq(Segments)
      BY <1>1, <1>2, EndsFacts
  <1>4. e \in Connecting /\ faults' = faults
      BY DEF UserConnect
  <1>c. Role(e) = "caller" /\ Role(l) = "listener" /\ Role(e) \in Roles /\ Other("caller") = "listener"
      BY <1>4 DEF Role, Roles, Other
  <1>5. Tried(tcb[l]) = 0 /\ NoSyn(net[l])
    <2> DEFINE t == tcb[e]
               u == tcb[l]
               s == sent[e]
               v == sent[l]
               x == Len(read[e]) + Len(tcb[e].rxbuf)
               k == Len(read[l]) + Len(tcb[l].rxbuf)
               I == Elems(net[e])
               J == Elems(net[l])
    <2>1. Whole("caller", t, s, x, I, u, v, k, J)
      <3>1. Whole(Role(e), tcb[e], sent[e], Len(read[e]) + Len(tcb[e].rxbuf), Elems(net[e]),
                  tcb[Peer(e)], sent[Peer(e)], Len(read[Peer(e)]) + Len(tcb[Peer(e)].rxbuf),
                  Elems(net[Peer(e)]))
          BY WholeOf DEF WInv
      <3> QED  BY <1>c, <3>1
    <2>2. IsFresh(t)
        BY <1>2
    <2>3. u = tcb[l] /\ J = Elems(net[l])
        OBVIOUS
    <2> HIDE DEF t, u, s, v, x, k, I, J
    <2>4. "caller" \in Roles
        BY DEF Roles
    <2>5. Calling("caller", t, I, u, v, J) /\ Half("listener", u, v, k, J, t, s, x, I)
        BY <1>c, <2>1, <2>4, Parts
    <2>6. /\ u.state \in {"CLOSED", "LISTEN", "FREE"} /\ ~u.peer
          /\ \A y \in J : "RST" \in y.flags
        BY <2>2, <2>5 DEF Calling
    <2>7. Strange("listener", u, J, t, I)
        BY <2>5 DEF Half
    <2>8. u.state = "LISTEN" => u.sendnext = 0
        BY <2>6, <2>7 DEF Strange
    <2>9. Tried(u) = 0
        BY <2>6, <2>8 DEF Tried
    <2>10. NoSyn(net[l])
        BY <2>3, <2>6 DEF NoSyn, IsSyn
    <2> QED  BY <2>3, <2>9, <2>10
  <1> HIDE DEF l
  <1>6. Counted(faults', tcb[l], g.t, net[l] \o g.out, net[e])
      BY <1>1, <1>2, <1>3, <1>4, <1>5, FirstCounts
  <1>7. Counted(faults', tcb'[l], tcb'[e], net'[l], net'[e])
      BY <1>3, <1>6
  <1>8. CountAt(l)'
      BY <1>0, <1>7 DEF CountAt
  <1> QED  BY <1>8 DEF l

\* A timer of either host: with nothing under way, or as a fault.
LEMMA PollQuiet ==
    ASSUME CountInv, NEW e \in Host, NEW expired, TimerPoll(e, expired)
    PROVE  /\ faults \in Nat /\ faults' \in 0 .. MaxFaults /\ faults' >= faults
           /\ "retx" \in expired =>
                 faults' > faults \/ \A f \in Host : net[f] = <<>>
  <1>1. PICK b \in BOOLEAN : IF expired = {"fast"} \/ Quiet THEN Pool(b) ELSE b /\ Fault("early")
      BY DEF TimerPoll
  <1>2. CASE expired = {"fast"} \/ Quiet
    <2>1. faults \in Nat /\ faults' \in 0 .. MaxFaults /\ faults' >= faults
        BY <1>1, <1>2, PoolBounds
    <2> QED  BY <1>2, <2>1 DEF Quiet
  <1>3. CASE ~(expired = {"fast"} \/ Quiet)
    <2>1. faults \in Nat /\ faults' = faults + 1 /\ faults' \in 0 .. MaxFaults
        BY <1>1, <1>3, FaultBounds
    <2> QED  BY <2>1
  <1> QED  BY <1>2, <1>3

LEMMA CallerPolls ==
    ASSUME OneCaller, WInv, CountInv, NEW e \in Host, Peer(e) \notin Connecting,
           NEW expired, TimerPoll(e, expired)
    PROVE  CountAt(Peer(e))'
  <1>q. /\ faults \in Nat /\ faults' \in Nat /\ faults' >= faults
        /\ "retx" \in expired => faults' > faults \/ \A f \in Host : net[f] = <<>>
      BY PollQuiet, BoundsAssumption
  <1>p. PICK g : /\ Called(e, g) /\ OneSyn(g.out)
                 /\ NoSyn(g.out) \/ (tcb[e].state = "SYN_SENT" /\ "retx" \in expired)
      BY PollCalled
  <1>1. CASE NoSyn(g.out)
      BY <1>q, <1>p, <1>1, CallerSpeaks
  <1>2. CASE ~NoSyn(g.out)
    <2> DEFINE l == Peer(e)
    <2>0. l \in Host /\ Peer(l) = e /\ Peer(e) = l
        BY PeerFacts
    <2>1. /\ tcb[l] \in Tcbs /\ net[l] \in Seq(Segments) /\ net[e] \in Seq(Segments) /\ CountAt(l)
        BY <2>0, CountFacts
    <2>2. g \in Handlers /\ Ends(e, g, net[e])
        BY <1>p DEF Called
    <2>3. /\ tcb'[e] = g.t /\ tcb'[l] = tcb[l]
          /\ net'[e] = net[e] /\ net'[l] = net[l] \o g.out /\ g.out \in Seq(Segments)
        BY <2>1, <2>2, EndsFacts
    <2>4. Counted(faults, tcb[l], tcb[e], net[l], net[e])
        BY <2>0, <2>1 DEF CountAt
    <2>5. tcb[e].state = "SYN_SENT" /\ (faults' > faults \/ \A f \in Host : net[f] = <<>>)
        BY <1>q, <1>p, <1>2
    <2>6. (\A f \in Host : net[f] = <<>>) => NoSyn(net[l]) /\ NoSyn(net[e])
        BY <2>0 DEF NoSyn, Elems
    <2> HIDE DEF l
    <2>7. Counted(faults', tcb[l], g.t, net[l] \o g.out, net[e])
        BY <1>q, <1>p, <1>2, <2>1, <2>3, <2>4, <2>5, <2>6, RepeatCounts
    <2>8. Counted(faults', tcb'[l], tcb'[e], net'[l], net'[e])
        BY <2>3, <2>7
    <2>9. CountAt(l)'
        BY <2>0, <2>8 DEF CountAt
    <2> QED  BY <2>9 DEF l
  <1> QED  BY <1>1, <1>2

LEMMA AnswerTries ==
    ASSUME NEW h, NEW g, NEW seg, AnswersSyn(h, g, seg)
    PROVE  Tries(h.t, g.t, seg, g.out)
  <1>1. (\E x \in Out(g) : IsSyn(x)) => ~NoSyn(g.out)
      BY DEF Out, NoSyn, Elems
  <1> QED  BY <1>1 DEF AnswersSyn, Tries

\* The listener takes the segment at i, in order, without the pool, or before others.
LEMMA ListenerTakes ==
    ASSUME OneCaller, WInv, CountInv, FewSyns, NEW e \in Host, e \notin Connecting,
           NEW b \in BOOLEAN, NEW i \in 1..Len(net[e]), NEW rest, Omits(rest, net[e], i),
           Receive(e, net[e][i], rest, b), faults' = faults \/ faults' = faults + 1
    PROVE  CountAt(e)'
  <1> DEFINE seg == net[e][i]
             p == Peer(e)
             o == net[p]
  <1>1. /\ faults \in Nat /\ tcb[e] \in Tcbs /\ net[e] \in Seq(Segments)
        /\ o \in Seq(Segments) /\ CountAt(e) /\ rest \in Seq(Segments)
      BY CountFacts DEF Omits
  <1>2. seg \in Elems(net[e])
      BY DEF Elems
  <1>3. PICK g : /\ g \in Handlers /\ Ends(e, g, rest) /\ AnswersSyn(Handler(e, b), g, seg)
      BY <1>2, ListenerReceives
  <1>4. /\ tcb'[e] = g.t /\ g.t \in Tcbs /\ tcb'[p] = tcb[p]
        /\ net'[e] = rest /\ net'[p] = o \o g.out /\ g.out \in Seq(Segments)
      BY <1>1, <1>3, EndsFacts
  <1>5. Tries(tcb[e], g.t, seg, g.out)
    <2>1. Tries(Handler(e, b).t, g.t, seg, g.out)
        BY <1>3, AnswerTries
    <2>2. Handler(e, b).t = tcb[e]
        BY HandlerFacts
    <2> QED  BY <2>1, <2>2
  <1>6. Counted(faults, tcb[e], tcb[p], net[e], o)
      BY <1>1 DEF CountAt
  <1> HIDE DEF p, o
  <1>7. /\ Counted(faults, g.t, tcb[p], rest, o \o g.out)
        /\ \A v, f : Counted(faults + 1, g.t, v, rest, f)
      BY <1>1, <1>4, <1>5, <1>6, TakenCounts
  <1>8. Counted(faults', tcb'[e], tcb'[p], net'[e], net'[p])
      BY <1>4, <1>7
  <1> QED  BY <1>8 DEF CountAt, p

\* The listener takes a segment of which a copy stays on its way.
LEMMA ListenerTakesCopy ==
    ASSUME OneCaller, WInv, CountInv, FewSyns, NEW e \in Host, e \notin Connecting,
           NEW b \in BOOLEAN, NEW seg \in Elems(net[e]), Receive(e, seg, net[e], b),
           faults' = faults + 1
    PROVE  CountAt(e)'
  <1> DEFINE p == Peer(e)
             o == net[p]
  <1>1. /\ faults \in Nat /\ tcb[e] \in Tcbs /\ net[e] \in Seq(Segments)
        /\ o \in Seq(Segments) /\ CountAt(e)
      BY CountFacts
  <1>3. PICK g : /\ g \in Handlers /\ Ends(e, g, net[e]) /\ AnswersSyn(Handler(e, b), g, seg)
      BY ListenerReceives
  <1>4. /\ tcb'[e] = g.t /\ g.t \in Tcbs
        /\ net'[e] = net[e] /\ g.out \in Seq(Segments)
      BY <1>1, <1>3, EndsFacts
  <1>5. Tries(tcb[e], g.t, seg, g.out)
    <2>1. Tries(Handler(e, b).t, g.t, seg, g.out)
        BY <1>3, AnswerTries
    <2>2. Handler(e, b).t = tcb[e]
        BY HandlerFacts
    <2> QED  BY <2>1, <2>2
  <1>6. Counted(faults, tcb[e], tcb[p], net[e], o)
      BY <1>1 DEF CountAt
  <1> HIDE DEF p, o
  <1>7. \A v, f : Counted(faults + 1, g.t, v, net[e], f)
      BY <1>1, <1>4, <1>5, <1>6, TakenAgainCounts
  <1>8. Counted(faults', tcb'[e], tcb'[p], net'[e], net'[p])
      BY <1>4, <1>7
  <1> QED  BY <1>8 DEF CountAt, p

\* The caller takes a segment.
LEMMA CallerTakes ==
    ASSUME OneCaller, WInv, CountInv, FewSyns, NEW e \in Connecting, e \in Host,
           Peer(e) \notin Connecting, NEW b \in BOOLEAN, NEW seg \in Elems(net[e]),
           NEW rest \in Seq(Segments), Receive(e, seg, rest, b),
           \/ faults' = faults + 1
           \/ faults' = faults /\ (NoSyn(rest) /\ ~IsSyn(seg) => NoSyn(net[e]))
    PROVE  CountAt(Peer(e))'
  <1> DEFINE l == Peer(e)
  <1>0. l \in Host /\ Peer(l) = e /\ Peer(e) = l
      BY PeerFacts
  <1>1. /\ faults \in Nat /\ tcb[l] \in Tcbs /\ net[l] \in Seq(Segments) /\ net[e] \in Seq(Segments)
        /\ CountAt(l)
      BY <1>0, CountFacts
  <1>2. PICK g : /\ g \in Handlers /\ Ends(e, g, rest) /\ NoSyn(g.out)
                 /\ g.t.state = "SYN_SENT" => tcb[e].state = "SYN_SENT" /\ ~IsSyn(seg)
      BY CallerReceives
  <1>3. /\ tcb'[e] = g.t /\ tcb'[l] = tcb[l]
        /\ net'[e] = rest /\ net'[l] = net[l] \o g.out /\ g.out \in Seq(Segments)
      BY <1>1, <1>2, EndsFacts
  <1>4. Counted(faults, tcb[l], tcb[e], net[l], net[e])
      BY <1>0, <1>1 DEF CountAt
  <1> HIDE DEF l
  <1>5. CASE faults' = faults + 1
    <2>1. \A y, r : Counted(faults + 1, tcb[l], y, net[l] \o g.out, r)
        BY <1>1, <1>2, <1>3, <1>4, CallerFaultCounts
    <2>2. Counted(faults', tcb'[l], tcb'[e], net'[l], net'[e])
        BY <1>3, <1>5, <2>1
    <2>3. CountAt(l)'
        BY <1>0, <2>2 DEF CountAt
    <2> QED  BY <2>3 DEF l
  <1>6. CASE faults' = faults /\ (NoSyn(rest) /\ ~IsSyn(seg) => NoSyn(net[e]))
    <2>1. g.t.state = "SYN_SENT" /\ NoSyn(rest) => tcb[e].state = "SYN_SENT" /\ NoSyn(net[e])
        BY <1>2, <1>6
    <2>2. faults >= faults
        BY <1>1
    <2>3. Counted(faults, tcb[l], g.t, net[l] \o g.out, rest)
        BY <1>1, <1>2, <1>3, <1>4, <2>1, <2>2, CallerCounts
    <2>4. Counted(faults', tcb'[l], tcb'[e], net'[l], net'[e])
        BY <1>3, <1>6, <2>3
    <2>5. CountAt(l)'
        BY <1>0, <2>4 DEF CountAt
    <2> QED  BY <2>5 DEF l
  <1> QED  BY <1>5, <1>6

LEMMA ListenerLoses ==
    ASSUME OneCaller, WInv, CountInv, NEW e \in Host, e \notin Connecting, Lose(e)
    PROVE  CountAt(e)'
  <1> DEFINE p == Peer(e)
             q == net[e]
  <1>1. /\ faults \in Nat /\ tcb[e] \in Tcbs /\ q \in Seq(Segments) /\ CountAt(e)
      BY CountFacts
  <1>2. /\ q # <<>> /\ faults' = faults + 1 /\ tcb' = tcb
        /\ net' = [net EXCEPT ![e] = Tail(@)]
      BY DEF Lose, Fault
  <1>3. Omits(Tail(q), q, 1) /\ 1 \in 1..Len(q)
      BY <1>1, <1>2, TailOmits
  <1>4. SynCount(Tail(q)) <= SynCount(q) /\ Tail(q) \in Seq(Segments)
    <2>1. SynCount(Tail(q)) <= SynCount(q)
        BY <1>1, <1>3, SynOmits
    <2> QED  BY <1>3, <2>1 DEF Omits
  <1>5. Counted(faults, tcb[e], tcb[p], q, net[p])
      BY <1>1 DEF CountAt
  <1>n. net'[e] = Tail(q)
    <2>1. net \in [Host -> Seq(Segments)]
        BY WInvFacts
    <2> QED  BY <1>2, <2>1
  <1> HIDE DEF p, q
  <1>6. Tried(tcb[e]) + SynCount(Tail(q)) <= Tried(tcb[e]) + SynCount(q)
    <2>1. Tried(tcb[e]) \in Nat /\ SynCount(q) \in Nat
        BY <1>1, CountTypes
    <2>2. SynCount(Tail(q)) \in Nat
        BY <1>1, <1>4, CountTypes
    <2> QED  BY <1>4, <2>1, <2>2
  <1>7. \A v, f : Counted(faults + 1, tcb[e], v, Tail(q), f)
      BY <1>1, <1>4, <1>5, <1>6, FaultCounts
  <1>8. Counted(faults', tcb'[e], tcb'[p], net'[e], net'[p])
      BY <1>2, <1>n, <1>7
  <1> QED  BY <1>8 DEF CountAt, p

LEMMA CallerLoses ==
    ASSUME OneCaller, WInv, CountInv, NEW e \in Host, Peer(e) \notin Connecting, Lose(e)
    PROVE  CountAt(Peer(e))'
  <1> DEFINE l == Peer(e)
  <1>0. l \in Host /\ Peer(l) = e /\ Peer(e) = l /\ l # e
      BY PeerFacts
  <1>1. /\ faults \in Nat /\ tcb[l] \in Tcbs /\ net[l] \in Seq(Segments) /\ CountAt(l)
      BY <1>0, CountFacts
  <1>2. /\ faults' = faults + 1 /\ tcb' = tcb
        /\ net' = [net EXCEPT ![e] = Tail(@)]
      BY DEF Lose, Fault
  <1>3. Counted(faults, tcb[l], tcb[e], net[l], net[e])
      BY <1>0, <1>1 DEF CountAt
  <1>4. net'[l] = net[l]
    <2>1. net \in [Host -> Seq(Segments)]
        BY WInvFacts
    <2> QED  BY <1>0, <1>2, <2>1
  <1> HIDE DEF l
  <1>6. Tried(tcb[l]) + SynCount(net[l]) <= Tried(tcb[l]) + SynCount(net[l])
    <2>1. Tried(tcb[l]) \in Nat /\ SynCount(net[l]) \in Nat
        BY <1>1, CountTypes
    <2> QED  BY <2>1
  <1>7. \A v, f : Counted(faults + 1, tcb[l], v, net[l], f)
      BY <1>1, <1>3, <1>6, FaultCounts
  <1>8. Counted(faults', tcb'[l], tcb'[e], net'[l], net'[e])
      BY <1>2, <1>4, <1>7
  <1>9. CountAt(l)'
      BY <1>0, <1>8 DEF CountAt
  <1> QED  BY <1>9 DEF l

\* One listens when the other calls.
LEMMA Facing ==
    ASSUME OneCaller, NEW e \in Host
    PROVE  /\ Peer(e) \in Host /\ Peer(Peer(e)) = e
           /\ e \in Connecting <=> Peer(e) \notin Connecting
           /\ \A f \in Host : f \notin Connecting =>
                 (f = e /\ e \notin Connecting) \/ (f = Peer(e) /\ e \in Connecting)
  <1>1. Peer(e) \in Host /\ Peer(Peer(e)) = e /\ Peer(e) # e
      BY PeerFacts
  <1>2. PICK a \in Host : Connecting = {a}
      BY DEF OneCaller
  <1>3. \A f \in Host : f = e \/ f = Peer(e)
      BY HostAssumption DEF Host, Peer
  <1> QED  BY <1>1, <1>2, <1>3

\* A call of the socket interface other than tcp_connect.
LEMMA SpeakingCounts ==
    ASSUME OneCaller, WInv, CountInv, NEW e \in Host, NEW g, Called(e, g), NoSyn(g.out),
           faults' \in 0 .. MaxFaults, faults' >= faults
    PROVE  CountInv'
  <1>1. faults' \in Nat
      BY BoundsAssumption
  <1>2. CASE e \notin Connecting
    <2>1. CountAt(e)'
        BY <1>1, <1>2, ListenerSpeaks
    <2> QED  BY <1>2, <2>1, Facing DEF CountInv
  <1>3. CASE e \in Connecting
    <2>1. Peer(e) \notin Connecting
        BY <1>3, Facing
    <2>2. CountAt(Peer(e))'
        BY <1>1, <2>1, CallerSpeaks
    <2> QED  BY <1>3, <2>2, Facing DEF CountInv
  <1> QED  BY <1>2, <1>3

\* A step that leaves the count in order for the one host that listens.
LEMMA OneListener ==
    ASSUME OneCaller, NEW e \in Host, faults' \in 0 .. MaxFaults,
           e \notin Connecting => CountAt(e)',
           e \in Connecting => CountAt(Peer(e))'
    PROVE  CountInv'
  BY Facing DEF CountInv

LEMMA SameFaults ==
    ASSUME CountInv, UNCHANGED faults
    PROVE  faults' \in 0 .. MaxFaults /\ faults' \in Nat /\ faults' >= faults
  BY BoundsAssumption DEF CountInv

LEMMA ConnectCounts ==
    ASSUME OneCaller, WInv, CountInv, NEW e \in Host, UserConnect(e)
    PROVE  CountInv'
  <1>1. e \in Connecting /\ UNCHANGED faults
      BY DEF UserConnect
  <1>2. Peer(e) \notin Connecting
      BY <1>1, Facing
  <1>3. CountAt(Peer(e))'
      BY <1>2, CallerConnects
  <1>4. faults' \in 0 .. MaxFaults
      BY <1>1, SameFaults
  <1> QED  BY <1>1, <1>3, <1>4, OneListener

LEMMA ListenCounts ==
    ASSUME OneCaller, WInv, CountInv, NEW e \in Host, UserListen(e)
    PROVE  CountInv'
  <1>1. UNCHANGED faults
      BY DEF UserListen
  <1>2. PICK g : Called(e, g) /\ NoSyn(g.out)
      BY ListenCalled
  <1>3. faults' \in 0 .. MaxFaults /\ faults' >= faults
      BY <1>1, SameFaults
  <1> QED  BY <1>2, <1>3, SpeakingCounts

LEMMA SendCounts ==
    ASSUME OneCaller, ModestQuota, WInv, CountInv, NEW e \in Host,
           NEW n \in 1 .. Quota[e] - sent[e], NEW b \in BOOLEAN, UserSend(e, n, b)
    PROVE  CountInv'
  <1>1. Pool(b)
      BY DEF UserSend
  <1>2. PICK g : Called(e, g) /\ NoSyn(g.out)
      BY SendCalled
  <1>3. faults' \in 0 .. MaxFaults /\ faults' >= faults
      BY <1>1, PoolBounds
  <1> QED  BY <1>2, <1>3, SpeakingCounts

LEMMA RecvCounts ==
    ASSUME OneCaller, WInv, CountInv, NEW e \in Host, NEW want \in 1 .. Len(tcb[e].rxbuf),
           UserRecv(e, want)
    PROVE  CountInv'
  <1>1. UNCHANGED faults
      BY DEF UserRecv
  <1>2. PICK g : Called(e, g) /\ NoSyn(g.out)
      BY RecvCalled
  <1>3. faults' \in 0 .. MaxFaults /\ faults' >= faults
      BY <1>1, SameFaults
  <1> QED  BY <1>2, <1>3, SpeakingCounts

LEMMA CloseCounts ==
    ASSUME OneCaller, WInv, CountInv, NEW e \in Host, NEW b \in BOOLEAN, UserClose(e, b)
    PROVE  CountInv'
  <1>1. Pool(b)
      BY DEF UserClose
  <1>2. PICK g : Called(e, g) /\ NoSyn(g.out)
      BY CloseCalled
  <1>3. faults' \in 0 .. MaxFaults /\ faults' >= faults
      BY <1>1, PoolBounds
  <1> QED  BY <1>2, <1>3, SpeakingCounts

\* A timer of a listener tries nothing: SYN_SENT is a state of callers.
LEMMA PollCounts ==
    ASSUME OneCaller, WInv, CountInv, NEW e \in Host, NEW expired, TimerPoll(e, expired)
    PROVE  CountInv'
  <1>1. faults' \in 0 .. MaxFaults /\ faults' >= faults /\ faults' \in Nat
      BY PollQuiet, BoundsAssumption
  <1>2. CASE e \notin Connecting
    <2>1. PICK g : Called(e, g)
        BY PollCalled
    <2>2. CountAt(e)'
        BY <1>1, <1>2, <2>1, ListenerSpeaks
    <2> QED  BY <1>1, <1>2, <2>2, OneListener
  <1>3. CASE e \in Connecting
    <2>1. Peer(e) \notin Connecting
        BY <1>3, Facing
    <2>2. CountAt(Peer(e))'
        BY <2>1, CallerPolls
    <2> QED  BY <1>1, <1>3, <2>2, OneListener
  <1> QED  BY <1>2, <1>3

\* A segment at i is taken, and may come as a fault.
LEMMA TakingCounts ==
    ASSUME OneCaller, WInv, CountInv, FewSyns, NEW e \in Host, NEW b \in BOOLEAN,
           NEW i \in 1..Len(net[e]), NEW rest, Omits(rest, net[e], i),
           Receive(e, net[e][i], rest, b),
           faults' \in 0 .. MaxFaults, faults' = faults \/ faults' = faults + 1
    PROVE  CountInv'
  <1>1. CASE e \notin Connecting
    <2>1. CountAt(e)'
        BY <1>1, ListenerTakes
    <2> QED  BY <1>1, <2>1, OneListener
  <1>2. CASE e \in Connecting
    <2> DEFINE seg == net[e][i]
    <2>1. Peer(e) \notin Connecting
        BY <1>2, Facing
    <2>2. seg \in Elems(net[e]) /\ rest \in Seq(Segments) /\ net[e] \in Seq(Segments)
        BY CountFacts DEF Elems, Omits
    <2>3. NoSyn(rest) /\ ~IsSyn(seg) => NoSyn(net[e])
        BY <2>2, SynOmits
    <2>4. Receive(e, seg, rest, b)
        OBVIOUS
    <2> HIDE DEF seg
    <2>5. CountAt(Peer(e))'
        BY <1>2, <2>1, <2>2, <2>3, <2>4, CallerTakes
    <2> QED  BY <1>2, <2>5, OneListener
  <1> QED  BY <1>1, <1>2

LEMMA DeliverCounts ==
    ASSUME OneCaller, WInv, CountInv, FewSyns, NEW e \in Host, Deliver(e)
    PROVE  CountInv'
  <1> DEFINE yes == TRUE
  <1>1. net[e] # <<>> /\ Receive(e, Head(net[e]), Tail(net[e]), TRUE) /\ faults' = faults
      BY DEF Deliver
  <1>2. net[e] \in Seq(Segments)
      BY CountFacts
  <1>3. Omits(Tail(net[e]), net[e], 1) /\ 1 \in 1..Len(net[e]) /\ Head(net[e]) = net[e][1]
      BY <1>1, <1>2, TailOmits
  <1>4. faults' \in 0 .. MaxFaults
      BY <1>1, SameFaults
  <1>5. yes \in BOOLEAN /\ Receive(e, net[e][1], Tail(net[e]), yes)
      BY <1>1, <1>3
  <1> HIDE DEF yes
  <1> QED  BY <1>1, <1>3, <1>4, <1>5, TakingCounts

LEMMA DeliverWithoutPoolCounts ==
    ASSUME OneCaller, WInv, CountInv, FewSyns, NEW e \in Host, DeliverWithoutPool(e)
    PROVE  CountInv'
  <1> DEFINE no == FALSE
  <1>1. net[e] # <<>> /\ Receive(e, Head(net[e]), Tail(net[e]), FALSE) /\ Fault("noebuf")
      BY DEF DeliverWithoutPool
  <1>2. net[e] \in Seq(Segments)
      BY CountFacts
  <1>3. Omits(Tail(net[e]), net[e], 1) /\ 1 \in 1..Len(net[e]) /\ Head(net[e]) = net[e][1]
      BY <1>1, <1>2, TailOmits
  <1>4. faults' \in 0 .. MaxFaults /\ faults' = faults + 1
      BY <1>1, FaultBounds
  <1>5. no \in BOOLEAN /\ Receive(e, net[e][1], Tail(net[e]), no)
      BY <1>1, <1>3
  <1> HIDE DEF no
  <1> QED  BY <1>3, <1>4, <1>5, TakingCounts

LEMMA DeliverOvertakingCounts ==
    ASSUME OneCaller, WInv, CountInv, FewSyns, NEW e \in Host, DeliverOvertaking(e)
    PROVE  CountInv'
  <1> DEFINE yes == TRUE
  <1>1. PICK i \in 2..Len(net[e]) : Receive(e, net[e][i], RemoveAt(net[e], i), TRUE)
      BY DEF DeliverOvertaking
  <1>2. net[e] \in Seq(Segments)
      BY CountFacts
  <1>3. i \in 1..Len(net[e])
      BY <1>2
  <1>4. Omits(RemoveAt(net[e], i), net[e], i)
      BY <1>2, <1>3, RemoveAtOmits
  <1>5. faults' \in 0 .. MaxFaults /\ faults' = faults + 1
      BY FaultBounds DEF DeliverOvertaking
  <1>6. yes \in BOOLEAN /\ Receive(e, net[e][i], RemoveAt(net[e], i), yes)
      BY <1>1
  <1> HIDE DEF yes
  <1> QED  BY <1>3, <1>4, <1>5, <1>6, TakingCounts

LEMMA DeliverDuplicateCounts ==
    ASSUME OneCaller, WInv, CountInv, FewSyns, NEW e \in Host, DeliverDuplicate(e)
    PROVE  CountInv'
  <1> DEFINE yes == TRUE
             seg == Head(net[e])
  <1>1. net[e] # <<>> /\ Receive(e, seg, net[e], yes) /\ Fault("duplicate") /\ yes \in BOOLEAN
      BY DEF DeliverDuplicate
  <1>2. net[e] \in Seq(Segments)
      BY CountFacts
  <1>3. seg \in Elems(net[e])
      BY <1>1, <1>2, HeadAndTail
  <1>4. faults' \in 0 .. MaxFaults /\ faults' = faults + 1
      BY <1>1, FaultBounds
  <1> HIDE DEF yes, seg
  <1>5. CASE e \notin Connecting
    <2>1. CountAt(e)'
        BY <1>1, <1>3, <1>4, <1>5, ListenerTakesCopy
    <2> QED  BY <1>4, <1>5, <2>1, OneListener
  <1>6. CASE e \in Connecting
    <2>1. Peer(e) \notin Connecting
        BY <1>6, Facing
    <2>2. CountAt(Peer(e))'
        BY <1>1, <1>2, <1>3, <1>4, <1>6, <2>1, CallerTakes
    <2> QED  BY <1>4, <1>6, <2>2, OneListener
  <1> QED  BY <1>5, <1>6

LEMMA LoseCounts ==
    ASSUME OneCaller, WInv, CountInv, NEW e \in Host, Lose(e)
    PROVE  CountInv'
  <1>1. faults' \in 0 .. MaxFaults
      BY FaultBounds DEF Lose
  <1>2. e \notin Connecting => CountAt(e)'
      BY ListenerLoses
  <1>3. e \in Connecting => CountAt(Peer(e))'
      BY CallerLoses, Facing
  <1> QED  BY <1>1, <1>2, <1>3, OneListener

\* Every step keeps the count.
LEMMA CountInvStep ==
    ASSUME OneCaller, ModestQuota, WInv, CountInv, FewSyns, [Next]_vars
    PROVE  CountInv'
  <1>1. ASSUME NEW e \in Host, HostStep(e)
        PROVE  CountInv'
    <2>1. CASE UserConnect(e)
        BY <2>1, ConnectCounts
    <2>2. CASE UserListen(e)
        BY <2>2, ListenCounts
    <2>3. CASE \E n \in 1 .. Quota[e] - sent[e], b \in BOOLEAN : UserSend(e, n, b)
        BY <2>3, SendCounts
    <2>4. CASE \E want \in 1 .. Len(tcb[e].rxbuf) : UserRecv(e, want)
        BY <2>4, RecvCounts
    <2>5. CASE \E b \in BOOLEAN : UserClose(e, b)
        BY <2>5, CloseCounts
    <2>6. CASE Deliver(e)
        BY <2>6, DeliverCounts
    <2>7. CASE DeliverWithoutPool(e)
        BY <2>7, DeliverWithoutPoolCounts
    <2>8. CASE DeliverDuplicate(e)
        BY <2>8, DeliverDuplicateCounts
    <2>9. CASE DeliverOvertaking(e)
        BY <2>9, DeliverOvertakingCounts
    <2>10. CASE Lose(e)
        BY <2>10, LoseCounts
    <2>11. CASE \E expired \in SUBSET Expiring : TimerPoll(e, expired)
        BY <2>11, PollCounts
    <2> QED
        BY <1>1, <2>1, <2>2, <2>3, <2>4, <2>5, <2>6, <2>7, <2>8, <2>9, <2>10, <2>11 DEF HostStep
  <1>2. CASE Next
      BY <1>1, <1>2 DEF Next
  <1>3. CASE UNCHANGED vars
      BY <1>3 DEF CountInv, CountAt, vars
  <1> QED  BY <1>2, <1>3

LEMMA CountInvInit ==
    ASSUME Init
    PROVE  CountInv
  <1> DEFINE t == [NewTcb EXCEPT !.bound = Connecting = Host]
             e0 == <<>>
  <1>1. faults = 0 /\ tcb = [e \in Host |-> t] /\ net = [e \in Host |-> e0]
      BY DEF Init
  <1>2. faults \in 0 .. MaxFaults
      BY <1>1, BoundsAssumption
  <1>3. Tried(t) = 0
      BY DEF Tried, NewTcb
  <1>4. SynCount(e0) = 0
    <2>1. e0 \in Seq(Segments) /\ NoSyn(e0)
        BY DEF NoSyn, Elems
    <2> QED  BY <2>1, SynFinite
  <1> HIDE DEF t, e0
  <1>5. ASSUME NEW e \in Host
        PROVE  CountAt(e)
    <2>1. tcb[e] = t /\ net[e] = e0
        BY <1>1
    <2> QED  BY <1>1, <1>3, <1>4, <2>1 DEF CountAt, Counted
  <1> QED  BY <1>2, <1>5 DEF CountInv

\* A listener answers each SYN once, and only a fault makes a second one.
LEMMA FewSynsFrom ==
    ASSUME OneCaller, FewFaults, WInv, CountInv
    PROVE  FewSyns
  <1>1. SUFFICES ASSUME NEW e \in Host, tcb[e].state \in {"LISTEN", "SYN_RECEIVED"}
                 PROVE  2 * (tcb[e].sendnext + 1) < SeqSize
      BY DEF FewSyns
  <1> DEFINE t == tcb[e]
  <1>2. t \in Tcbs /\ Youth(Role(e), t, sent[e], Len(Received(e)))
      BY HalfOf
  <1>3. Role(e) = "listener" /\ IsYoung(t) /\ Tried(t) = t.sendnext
      BY <1>1, <1>2 DEF Youth, IsYoung, CONNINPROGRESS, Tried
  <1>4. e \notin Connecting
      BY <1>3 DEF Role
  <1>5. CountAt(e) /\ net[e] \in Seq(Segments)
      BY <1>4, CountFacts
  <1>6. t.sendnext + SynCount(net[e]) <= faults + 1
      BY <1>3, <1>5 DEF CountAt, Counted
  <1>7. t.sendnext \in Nat /\ SynCount(net[e]) \in Nat
      BY <1>2, <1>3, <1>5, CountTypes
  <1>8. faults \in Nat /\ MaxFaults \in Nat /\ faults <= MaxFaults /\ SeqSize \in Nat
      BY BoundsAssumption, Sizes DEF CountInv
  <1> HIDE DEF t
  <1>9. 2 * (t.sendnext + 1) < SeqSize
      BY <1>6, <1>7, <1>8 DEF FewFaults
  <1> QED  BY <1>9 DEF t

-----------------------------------------------------------------------------
(* Theorems                                                                *)

LEMMA CInvInit ==
    ASSUME InReach, Init
    PROVE  CInv
  BY WInvInit, CountInvInit DEF InReach, CInv

LEMMA CInvStep ==
    ASSUME InReach, CInv, [Next]_vars
    PROVE  CInv'
  <1>1. OneCaller /\ ModestQuota /\ FewFaults /\ WInv /\ CountInv
      BY DEF InReach, CInv
  <1>2. FewSyns
      BY <1>1, FewSynsFrom
  <1> QED  BY <1>1, <1>2, WInvStep, CountInvStep DEF CInv

\* All of what _tcp_connect, _tcp_rx_callback, _tcp_output and the timers keep true of a
\* pair of hosts and the segments between them, step by step.
THEOREM ConnectionKept == InReach => (Spec => []CInv)
  <1> SUFFICES ASSUME InReach
               PROVE  Spec => []CInv
      OBVIOUS
  <1>1. Init => CInv
      BY CInvInit
  <1>2. CInv /\ [Next]_vars => CInv'
      BY CInvStep
  <1> QED  BY <1>1, <1>2, PTL DEF Spec

\* The bytes that tcp_recv gives to one application, and those it will give next, are
\* the first bytes that the other gave to tcp_send: none is lost, repeated, reordered or
\* made up by _tcp_procdata, _tcp_output and the retransmissions of _tcp_poll.
THEOREM StreamArrivesIntact == InReach => (Spec => []StreamIntact)
  <1>1. InReach /\ CInv => StreamIntact
      BY StreamIntactFrom DEF InReach, CInv
  <1> SUFFICES ASSUME InReach
               PROVE  Spec => []StreamIntact
      OBVIOUS
  <1>2. CInv => StreamIntact
      BY <1>1
  <1> QED  BY <1>2, ConnectionKept, PTL

\* _tcp_procack drops a byte from the transmit buffer only when the peer has it.
THEOREM AckedBytesArrived == InReach => (Spec => []AckedIsReceived)
  <1>1. InReach /\ CInv => AckedIsReceived
      BY AckedIsReceivedFrom DEF InReach, CInv
  <1> SUFFICES ASSUME InReach
               PROVE  Spec => []AckedIsReceived
      OBVIOUS
  <1>2. CInv => AckedIsReceived
      BY <1>1
  <1> QED  BY <1>2, ConnectionKept, PTL

\* The two ends of an established connection number its bytes alike, however the SYN
\* and the SYN|ACK of the handshake were lost, repeated or delayed.
THEOREM EndsAgreeOnNumbers == InReach => (Spec => []InStep)
  <1>1. InReach /\ CInv => InStep
      BY InStepFrom DEF InReach, CInv
  <1> SUFFICES ASSUME InReach
               PROVE  Spec => []InStep
      OBVIOUS
  <1>2. CInv => InStep
      BY <1>1
  <1> QED  BY <1>2, ConnectionKept, PTL

\* No path through _tcp_procack, _tcp_sendctlmsg, _tcp_output or _tcp_poll leaves what
\* has been sent unacknowledged with no timer to send it again.
THEOREM SentBytesAreTimed == InReach => (Spec => []UnackedIsTimed)
  <1>1. InReach /\ CInv => UnackedIsTimed
      BY UnackedIsTimedFrom DEF InReach, CInv
  <1> SUFFICES ASSUME InReach
               PROVE  Spec => []UnackedIsTimed
      OBVIOUS
  <1>2. CInv => UnackedIsTimed
      BY <1>1
  <1> QED  BY <1>2, ConnectionKept, PTL

\* As long as the pool of packet buffers has one for every ack, what has been received is
\* acknowledged, or the delayed-ack flag says that _tcp_fasttimo must do it.
THEOREM AcksAreSentOrOwed == InReach /\ "noebuf" \notin Faults => (Spec => []AckIsOwed)
  <1> SUFFICES ASSUME InReach, "noebuf" \notin Faults
               PROVE  Spec => []AckIsOwed
      OBVIOUS
  <1>1. Init => AckIsOwed
      BY AckIsOwedInit
  <1>2. CInv /\ AckIsOwed /\ [Next]_vars => AckIsOwed'
    <2> SUFFICES ASSUME CInv, AckIsOwed, [Next]_vars
                 PROVE  AckIsOwed'
        OBVIOUS
    <2>1. OneCaller /\ ModestQuota /\ FewFaults /\ WInv /\ CountInv
        BY DEF InReach, CInv
    <2>2. FewSyns
        BY <2>1, FewSynsFrom
    <2> QED  BY <2>1, <2>2, AckIsOwedStep
  <1> QED  BY <1>1, <1>2, ConnectionKept, PTL DEF Spec

\* A segment without RST, whatever its numbers and flags, moves a control block along an
\* arrow of the state diagram or leaves its state alone (_tcp_rx_callback).
THEOREM SegmentsFollowTheDiagram == InReach => (Spec => FollowsDiagram)
  <1> SUFFICES ASSUME InReach
               PROVE  Spec => FollowsDiagram
      OBVIOUS
  <1> DEFINE Follows == \A e \in Host :
                           Deliver(e) /\ Found(e) /\ "RST" \notin Head(net[e]).flags
                               => \/ tcb'[e].state = tcb[e].state
                                  \/ <<tcb[e].state, tcb'[e].state>> \in SegmentArrows
  <1>1. CInv => Follows
    <2> SUFFICES ASSUME CInv
                 PROVE  Follows
        OBVIOUS
    <2>1. OneCaller /\ ModestQuota /\ FewFaults /\ WInv /\ CountInv
        BY DEF InReach, CInv
    <2>2. FewSyns
        BY <2>1, FewSynsFrom
    <2> QED  BY <2>1, <2>2, FollowsDiagramStep
  <1>2. CInv => [Follows]_vars
      BY <1>1
  <1> QED  BY <1>2, ConnectionKept, PTL DEF FollowsDiagram

-----------------------------------------------------------------------------
(* The streams                                                             *)

\* What a step does to the calls' counts, as far as the applications can see.
Writes(p, e) == sent'[p] > sent[p] /\ read'[e] = read[e]
Reads(p, e) == sent'[p] = sent[p] /\ Len(read'[e]) > Len(read[e])
Idles(p, e) == sent'[p] = sent[p] /\ read'[e] = read[e]

LEMMA SendingWrites ==
    ASSUME WInv, NEW f \in Host, NEW n \in 1 .. Quota[f] - sent[f], NEW b \in BOOLEAN, UserSend(f, n, b),
           NEW e \in Host
    PROVE  Writes(Peer(e), e) \/ Idles(Peer(e), e)
  <1> DEFINE s == sent[f]
             d == [i \in 1..n |-> s + i]
             l == Len(Accepted(tcb[f], d))
             h == Handler(f, b)
  <1>1. h \in Handlers /\ h.t = tcb[f]
      BY HandlerFacts
  <1>2. s \in Nat /\ sent \in [Host -> Nat] /\ Quota[f] \in Nat
      BY WInvFacts, BoundsAssumption
  <1>3. d \in Seq(Bytes)
    <2>1. \A i \in 1..n : s + i \in Bytes
        BY <1>2 DEF Bytes
    <2>2. d \in [1..n -> Bytes] /\ n \in Nat
        BY <1>2, <2>1
    <2> QED  BY <2>2
  <1>4. sent' = [sent EXCEPT ![f] = s + l] /\ read' = read
      BY DEF UserSend
  <1> HIDE DEF s, d, h
  <1>5. l \in Nat
      BY <1>1, <1>3, SendFacts
  <1> HIDE DEF l
  <1>6. sent'[f] = s + l /\ \A p \in Host \ {f} : sent'[p] = sent[p]
      BY <1>2, <1>4
  <1>7. Peer(e) \in Host
      BY PeerFacts
  <1>8. CASE Peer(e) = f /\ l > 0
      BY <1>2, <1>4, <1>5, <1>6, <1>8 DEF Writes, s
  <1>9. CASE Peer(e) # f \/ l = 0
      BY <1>2, <1>4, <1>6, <1>7, <1>9 DEF Idles, s
  <1> QED  BY <1>5, <1>8, <1>9

LEMMA ReceivingReads ==
    ASSUME WInv, NEW f \in Host, NEW want \in 1 .. Len(tcb[f].rxbuf), UserRecv(f, want),
           NEW e \in Host
    PROVE  Reads(Peer(e), e) \/ Idles(Peer(e), e)
  <1> DEFINE q == tcb[f].rxbuf
             r == read[f]
             a == SubSeq(q, 1, want)
  <1>1. r \in Seq(Bytes) /\ q \in Seq(Bytes) /\ Len(r) \in Nat /\ Len(q) \in Nat
        /\ read \in [Host -> Seq(Bytes)]
      BY WInvFacts, BufferFacts
  <1>2. read' = [read EXCEPT ![f] = r \o a] /\ sent' = sent
      BY DEF UserRecv
  <1>3. want \in 1..Len(q)
      OBVIOUS
  <1> HIDE DEF q, r
  <1>4. a \in Seq(Bytes) /\ Len(a) = want
      BY <1>1, <1>3
  <1> HIDE DEF a
  <1>5. Len(r \o a) > Len(r)
      BY <1>1, <1>3, <1>4
  <1>6. read'[f] = r \o a /\ \A p \in Host \ {f} : read'[p] = read[p]
      BY <1>1, <1>2
  <1>7. CASE e = f
      BY <1>2, <1>5, <1>6, <1>7 DEF Reads, r
  <1>8. CASE e # f
      BY <1>2, <1>6, <1>8 DEF Idles
  <1> QED  BY <1>7, <1>8

LEMMA StepIsSeen ==
    ASSUME WInv, [Next]_vars, NEW e \in Host
    PROVE  Writes(Peer(e), e) \/ Reads(Peer(e), e) \/ Idles(Peer(e), e)
  <1>1. CASE UNCHANGED vars
      BY <1>1 DEF vars, Idles
  <1>2. ASSUME NEW f \in Host, HostStep(f)
        PROVE  Writes(Peer(e), e) \/ Reads(Peer(e), e) \/ Idles(Peer(e), e)
    <2>1. CASE UNCHANGED <<sent, read>>
        BY <2>1 DEF Idles
    <2>2. CASE \E n \in 1 .. Quota[f] - sent[f], b \in BOOLEAN : UserSend(f, n, b)
        BY <2>2, SendingWrites
    <2>3. CASE \E want \in 1 .. Len(tcb[f].rxbuf) : UserRecv(f, want)
        BY <2>3, ReceivingReads
    <2> QED  BY <1>2, <2>1, <2>2, <2>3
           DEF HostStep, UserConnect, UserListen, UserClose, Deliver, DeliverWithoutPool,
               DeliverDuplicate, DeliverOvertaking, Lose, TimerPoll
  <1> QED  BY <1>1, <1>2 DEF Next

\* What the reader has is numbered from 1, and the writer gave at least as much.
ReadSoFar(e) ==
    /\ read[e] \in Seq(Bytes) /\ \A i \in 1..Len(read[e]) : read[e][i] = i
    /\ sent[Peer(e)] \in Nat /\ sent[Peer(e)] <= Quota[Peer(e)]
    /\ Len(read[e]) <= sent[Peer(e)]

LEMMA ReadSoFarFrom ==
    ASSUME OneCaller, WInv, NEW e \in Host
    PROVE  ReadSoFar(e)
  <1> DEFINE r == read[e]
             q == tcb[e].rxbuf
  <1>1. Peer(e) \in Host
      BY PeerFacts
  <1>2. sent[Peer(e)] \in Nat /\ sent[Peer(e)] <= Quota[Peer(e)]
      BY <1>1, WInvFacts
  <1>3. r \in Seq(Bytes) /\ q \in Seq(Bytes) /\ \A i \in 1..Len(r) : r[i] = i
      BY WInvFacts, BufferFacts
  <1>4. Len(r \o q) <= sent[Peer(e)]
      BY StreamIntactFrom DEF StreamIntact, Received
  <1> HIDE DEF r, q
  <1>5. Len(r \o q) = Len(r) + Len(q) /\ Len(r) \in Nat /\ Len(q) \in Nat
      BY <1>3
  <1>6. Len(r) <= sent[Peer(e)] /\ Len(r) \in Nat
      BY <1>2, <1>4, <1>5
  <1> QED  BY <1>2, <1>3, <1>6 DEF r, ReadSoFar

\* What has been read since is the bytes that came next.
LEMMA ReadOn ==
    ASSUME NEW r \in Seq(Bytes), \A i \in 1..Len(r) : r[i] = i,
           NEW x \in Seq(Bytes), \A i \in 1..Len(x) : x[i] = i, Len(x) > Len(r)
    PROVE  x = r \o [i \in 1 .. Len(x) - Len(r) |-> Len(r) + i]
  <1> DEFINE m == Len(r)
             k == Len(x)
             n == k - m
             a == [i \in 1..n |-> m + i]
  <1>1. m \in Nat /\ k \in Nat /\ n \in Nat /\ m + n = k
      OBVIOUS
  <1>2. /\ \A i \in 1..m : r[i] = i
        /\ \A i \in 1..k : x[i] = i
      OBVIOUS
  <1> HIDE DEF m, k, n
  <1>3. a \in Seq(Bytes) /\ Len(a) = n
    <2>1. \A i \in 1..n : m + i \in Bytes
        BY <1>1 DEF Bytes
    <2>2. a \in [1..n -> Bytes]
        BY <2>1
    <2> QED  BY <1>1, <2>2
  <1>4. \A i \in 1..n : a[i] = m + i
      OBVIOUS
  <1> HIDE DEF a
  <1> DEFINE y == r \o a
  <1>5. /\ y \in Seq(Bytes) /\ Len(y) = m + n
        /\ \A i \in 1 .. m + n : y[i] = IF i <= m THEN r[i] ELSE a[i - m]
      BY <1>3, ConcatProperties DEF m
  <1> HIDE DEF y
  <1>6. ASSUME NEW i \in 1..k
        PROVE  x[i] = y[i]
    <2>1. i \in Nat /\ i >= 1 /\ i \in 1 .. m + n
        BY <1>1
    <2>2. CASE i <= m
        BY <1>1, <1>2, <1>5, <2>1, <2>2
    <2>3. CASE i > m
      <3>1. i - m \in 1..n /\ m + (i - m) = i
          BY <1>1, <2>1, <2>3
      <3>2. a[i - m] = m + (i - m)
          BY <1>4, <3>1
      <3>3. y[i] = a[i - m]
          BY <1>1, <1>5, <2>1, <2>3
      <3> QED  BY <1>2, <3>1, <3>2, <3>3
    <2> QED  BY <1>1, <2>1, <2>2, <2>3
  <1>7. Len(x) = k /\ Len(y) = k
      BY <1>1, <1>5 DEF k
  <1>8. x = y
      BY <1>5, <1>6, <1>7, SeqEqual
  <1> QED  BY <1>8 DEF y, a, m, k, n

\* A step is a step of the stream to host e, or none.
LEMMA StreamStep ==
    ASSUME WInv, [Next]_vars, NEW e \in Host, NEW p, p = Peer(e),
           ReadSoFar(e), ReadSoFar(e)'
    PROVE  \/ \E n \in 1 .. Quota[p] - sent[p] : sent'[p] = sent[p] + n /\ read'[e] = read[e]
           \/ \E n \in 1 .. sent[p] - Len(read[e]) :
                 /\ read'[e] = read[e] \o [i \in 1..n |-> Len(read[e]) + i]
                 /\ sent'[p] = sent[p]
           \/ sent'[p] = sent[p] /\ read'[e] = read[e]
  <1> DEFINE s == sent[p]
             s2 == sent'[p]
             r == read[e]
             r2 == read'[e]
  <1>1. /\ r \in Seq(Bytes) /\ Len(r) \in Nat /\ \A i \in 1..Len(r) : r[i] = i
        /\ s \in Nat /\ s <= Quota[p] /\ Len(r) <= s /\ Quota[p] \in Nat
    <2>1. p \in Host
        BY PeerFacts
    <2>2. Quota[p] \in Nat
        BY <2>1, BoundsAssumption
    <2> QED  BY <2>2 DEF ReadSoFar
  <1>2. /\ r2 \in Seq(Bytes) /\ Len(r2) \in Nat /\ \A i \in 1..Len(r2) : r2[i] = i
        /\ s2 \in Nat /\ s2 <= Quota[p] /\ Len(r2) <= s2
      BY DEF ReadSoFar, Peer
  <1>3. Writes(p, e) \/ Reads(p, e) \/ Idles(p, e)
      BY StepIsSeen
  <1>4. CASE Writes(p, e)
    <2>1. s2 > s /\ r2 = r
        BY <1>4 DEF Writes
    <2> HIDE DEF s, s2, r, r2
    <2>2. s2 - s \in 1 .. Quota[p] - s /\ s2 = s + (s2 - s)
        BY <1>1, <1>2, <2>1
    <2>3. \E n \in 1 .. Quota[p] - s : s2 = s + n /\ r2 = r
        BY <2>1, <2>2
    <2> QED  BY <2>3 DEF s, s2, r, r2
  <1>5. CASE Reads(p, e)
    <2>1. s2 = s /\ Len(r2) > Len(r)
        BY <1>5 DEF Reads
    <2> HIDE DEF s, s2, r, r2
    <2>2. r2 = r \o [i \in 1 .. Len(r2) - Len(r) |-> Len(r) + i]
        BY <1>1, <1>2, <2>1, ReadOn
    <2>3. Len(r2) - Len(r) \in 1 .. s - Len(r)
        BY <1>1, <1>2, <2>1
    <2>4. \E n \in 1 .. s - Len(r) : r2 = r \o [i \in 1..n |-> Len(r) + i] /\ s2 = s
        BY <2>1, <2>2, <2>3
    <2> QED  BY <2>4 DEF s, s2, r, r2
  <1>6. CASE Idles(p, e)
      BY <1>6 DEF Idles
  <1> QED  BY <1>3, <1>4, <1>5, <1>6

LEMMA StreamsStep ==
    ASSUME WInv, [Next]_vars, ReadSoFar(A), ReadSoFar(B), ReadSoFar(A)', ReadSoFar(B)'
    PROVE  [ToA!Next]_<<sent[B], read[A]>> /\ [ToB!Next]_<<sent[A], read[B]>>
  <1>1. A \in Host /\ B \in Host /\ Peer(A) = B /\ Peer(B) = A
      BY HostAssumption DEF Host, Peer
  <1>2. [ToA!Next]_<<sent[B], read[A]>>
      BY <1>1, StreamStep DEF ToA!Next, ToA!Give, ToA!Take
  <1>3. [ToB!Next]_<<sent[A], read[B]>>
      BY <1>1, StreamStep DEF ToB!Next, ToB!Give, ToB!Take
  <1> QED  BY <1>2, <1>3

LEMMA StreamsInit ==
    ASSUME Init
    PROVE  ToA!Init /\ ToB!Init
  BY HostAssumption DEF Init, Host, ToA!Init, ToB!Init

\* Seen by the two applications, the connection is two streams of bytes: every step of
\* net_tcp.c and of the network hands over bytes of a stream or is invisible.
THEOREM ConnectionIsTwoStreams == InReach => (Spec => OffersStreams)
  <1> SUFFICES ASSUME InReach
               PROVE  Spec => OffersStreams
    OBVIOUS
  <1>1. Init => ToA!Init /\ ToB!Init
      BY StreamsInit
  <1>2. CInv => ReadSoFar(A) /\ ReadSoFar(B)
      BY ReadSoFarFrom DEF InReach, CInv, Host
  <1>3. CInv /\ [Next]_vars /\ ReadSoFar(A) /\ ReadSoFar(B) /\ ReadSoFar(A)' /\ ReadSoFar(B)'
           => [ToA!Next]_<<sent[B], read[A]>> /\ [ToB!Next]_<<sent[A], read[B]>>
      BY StreamsStep DEF CInv
  <1> QED  BY <1>1, <1>2, <1>3, ConnectionKept, PTL DEF Spec, OffersStreams, ToA!Spec, ToB!Spec
=============================================================================
