----------------------------- MODULE TftpProofs -----------------------------
(***************************************************************************)
(* The proofs about Tftp: what is read is the file, a read that returns    *)
(* nothing has met its end, and what is stored is what was written.        *)
(*                                                                         *)
(* The network keeps every datagram for ever, so the invariants speak of   *)
(* all that were ever sent: a datagram of the server carries one of the    *)
(* blocks that its session has come to, and an ack or a block of the       *)
(* client one that the client has come to.  The layers are: types and      *)
(* modes (Basics), the server's sessions, the file that is read (ReadInv), *)
(* its end (EofInv), and the file that is written (WriteInv).              *)
(***************************************************************************)
EXTENDS Tftp, SequenceTheorems, TLAPS

LEMMA Sizes == /\ BlockSize \in Nat \ {0} /\ NumBlocks \in Nat /\ NumBlocks > 1
               /\ MaxRetries \in Nat \ {0} /\ MaxQueue \in Nat \ {0}
  BY TftpAssumption

USE Sizes

-----------------------------------------------------------------------------
(* Blocks *)

\* The smaller of two numbers.
LEMMA MinOfTwo ==
    ASSUME NEW a \in Int, NEW b \in Int
    PROVE  Min({a, b}) = IF a <= b THEN a ELSE b
  <1> DEFINE m == IF a <= b THEN a ELSE b
  <1>1. m \in {a, b} /\ \A y \in {a, b} : m <= y
        OBVIOUS
  <1>2. Min({a, b}) \in {a, b} /\ \A y \in {a, b} : Min({a, b}) <= y
        BY <1>1 DEF Min
  <1> QED
        BY <1>1, <1>2

\* How many bytes precede block k, and block k of s.
Before(k) == (k - 1) * BlockSize
Piece(s, k) == SubSeq(s, Before(k) + 1, Min({k * BlockSize, Len(s)}))

\* p is the first n bytes of s.
IsFront(p, s, n) == n <= Len(s) /\ Len(p) = n /\ \A i \in 1..n : p[i] = s[i]

LEMMA BeforeFacts ==
    ASSUME NEW k \in Nat \ {0}
    PROVE  /\ Before(k) \in Nat /\ Before(k + 1) = Before(k) + BlockSize
           /\ k * BlockSize = Before(k) + BlockSize
           /\ Before(1) = 0
  <1>1. \A i \in Nat : i * BlockSize \in Nat
        OBVIOUS
  <1>2. k - 1 \in Nat /\ (k + 1) - 1 = k
        OBVIOUS
  <1>3. k * BlockSize = (k - 1) * BlockSize + BlockSize
        BY <1>2
  <1> QED
        BY <1>1, <1>2, <1>3 DEF Before

\* A block begins after the blocks before it.
LEMMA BeforeLater ==
    ASSUME NEW j \in Nat \ {0}, NEW k \in Nat \ {0}, j < k
    PROVE  Before(j) + BlockSize <= Before(k)
  <1>1. PICK d \in Nat : k = j + 1 + d
        <2>1. k - j - 1 \in Nat /\ k = j + 1 + (k - j - 1)
              OBVIOUS
        <2> QED
              BY <2>1
  <1>2. (j + d) * BlockSize = j * BlockSize + d * BlockSize /\ d * BlockSize \in Nat
        OBVIOUS
  <1>3. Before(k) = (j + d) * BlockSize
        BY <1>1 DEF Before
  <1> QED
        BY <1>2, <1>3, BeforeFacts

\* A block holds BlockSize bytes, or those that are left.
LEMMA PieceFacts ==
    ASSUME NEW s \in Seq(Nat), NEW k \in Nat \ {0}, Before(k) <= Len(s)
    PROVE  /\ Piece(s, k) \in Seq(Nat)
           /\ Len(Piece(s, k)) = IF Before(k) + BlockSize <= Len(s) THEN BlockSize
                                 ELSE Len(s) - Before(k)
           /\ \A i \in 1..Len(Piece(s, k)) : Piece(s, k)[i] = s[Before(k) + i]
  <1> DEFINE a == Before(k) + 1
             b == Min({k * BlockSize, Len(s)})
  <1>1. Before(k) \in Nat /\ k * BlockSize = Before(k) + BlockSize /\ Len(s) \in Nat
        BY BeforeFacts
  <1>2. b = IF Before(k) + BlockSize <= Len(s) THEN Before(k) + BlockSize ELSE Len(s)
        <2> DEFINE c == Before(k) + BlockSize
                   d == Len(s)
        <2>1. c \in Int /\ d \in Int /\ c = k * BlockSize
              BY <1>1
        <2>0. b = Min({c, d})
              <3> HIDE DEF c
              <3> QED
                  BY <2>1
        <2> HIDE DEF b, c, d
        <2>2. b = IF c <= d THEN c ELSE d
              BY <2>0, <2>1, MinOfTwo
        <2> QED
              BY <2>2 DEF c, d
  <1>3. a \in Int /\ b \in Int /\ \A i \in a .. b : s[i] \in Nat
        <2>1. a \in Int /\ b \in Int /\ a >= 1 /\ b <= Len(s)
              BY <1>1, <1>2
        <2> HIDE DEF a, b
        <2>2. \A i \in a .. b : i \in 1 .. Len(s)
              BY <1>1, <2>1
        <2> QED
              BY <2>1, <2>2, ElementOfSeq
  <1>4. Piece(s, k) = SubSeq(s, a, b)
        BY DEF Piece
  <1> HIDE DEF a, b
  <1>5. /\ Piece(s, k) \in Seq(Nat)
        /\ Len(Piece(s, k)) = IF a <= b THEN b - a + 1 ELSE 0
        /\ \A i \in 1 .. b - a + 1 : Piece(s, k)[i] = s[a + i - 1]
        BY <1>3, <1>4, SubSeqProperties
  <1>6. a = Before(k) + 1 /\ \A i \in Int : a + i - 1 = Before(k) + i
        BY <1>1 DEF a
  <1> DEFINE n == IF Before(k) + BlockSize <= Len(s) THEN BlockSize ELSE Len(s) - Before(k)
  <1>7. b = Before(k) + n /\ n \in Nat
        BY <1>1, <1>2
  <1> HIDE DEF n
  <1>10. Before(k) \in Nat /\ a = Before(k) + 1 /\ b = Before(k) + n /\ n \in Nat
        BY <1>1, <1>6, <1>7
  <1>8. (IF a <= b THEN b - a + 1 ELSE 0) = n /\ b - a + 1 = n
        BY <1>10
  <1>9. Len(Piece(s, k)) = n /\ \A i \in 1..n : Piece(s, k)[i] = s[Before(k) + i]
        <2>1. Len(Piece(s, k)) = n /\ \A i \in 1..n : Piece(s, k)[i] = s[a + i - 1]
              BY <1>5, <1>8
        <2>2. \A i \in 1..n : a + i - 1 = Before(k) + i
              BY <1>6, <1>10
        <2> QED
              BY <2>1, <2>2
  <1> QED
        BY <1>5, <1>9 DEF n

\* What follows a front makes it longer.
LEMMA LongerFront ==
    ASSUME NEW p \in Seq(Nat), NEW q \in Seq(Nat), NEW s \in Seq(Nat), NEW n \in Nat,
           IsFront(p, s, n), n + Len(q) <= Len(s),
           \A i \in 1..Len(q) : q[i] = s[n + i]
    PROVE  IsFront(p \o q, s, n + Len(q))
  <1> DEFINE m == Len(q)
             r == p \o q
  <1>0. m \in Nat /\ Len(p) = n /\ \A i \in 1..n : p[i] = s[i]
        BY DEF IsFront
  <1>1. /\ Len(r) = n + m
        /\ \A i \in 1 .. n + m : r[i] = IF i <= n THEN p[i] ELSE q[i - n]
        <2>1. /\ Len(p \o q) = Len(p) + Len(q)
              /\ \A i \in 1 .. Len(p) + Len(q) :
                    (p \o q)[i] = IF i <= Len(p) THEN p[i] ELSE q[i - Len(p)]
              BY ConcatProperties
        <2> QED
              BY <2>1, <1>0
  <1>2. n + m <= Len(s) /\ \A i \in 1..m : q[i] = s[n + i]
        OBVIOUS
  <1> SUFFICES IsFront(r, s, n + m)
        OBVIOUS
  <1> HIDE DEF m, r
  <1>3. ASSUME NEW i \in 1 .. n + m
        PROVE  r[i] = s[i]
        <2>1. i \in Nat /\ (i > n => i - n \in 1..m /\ n + (i - n) = i)
              BY <1>0
        <2>2. i > n => q[i - n] = s[i]
              BY <2>1, <1>2
        <2>3. i <= n => p[i] = s[i]
              BY <2>1, <1>0
        <2>4. i <= n \/ i > n
              BY <2>1
        <2> QED
              BY <1>0, <1>1, <2>1, <2>2, <2>3, <2>4
  <1> QED
        BY <1>1, <1>2, <1>3 DEF IsFront

LEMMA FrontIsPrefix ==
    ASSUME NEW p \in Seq(Nat), NEW s \in Seq(Nat), NEW n \in Nat, IsFront(p, s, n)
    PROVE  IsPrefix(p, s) /\ (n = Len(s) => p = s) /\ (p = s => n = Len(s))
  <1>1. Len(p) = n /\ n <= Len(s) /\ \A i \in 1..n : p[i] = s[i]
        BY DEF IsFront
  <1>2. SubSeq(p, 1, n) = p
        BY <1>1, SubSeqFull
  <1>3. /\ SubSeq(s, 1, n) \in Seq(Nat) /\ Len(SubSeq(s, 1, n)) = n
        /\ \A i \in 1..n : SubSeq(s, 1, n)[i] = s[i]
        <2>1. \A i \in 1 .. n : s[i] \in Nat
              BY <1>1
        <2>2. /\ SubSeq(s, 1, n) \in Seq(Nat) /\ Len(SubSeq(s, 1, n)) = IF 1 <= n THEN n - 1 + 1 ELSE 0
              /\ \A i \in 1 .. n - 1 + 1 : SubSeq(s, 1, n)[i] = s[1 + i - 1]
              BY <2>1, SubSeqProperties
        <2>3. \A i \in 1..n : 1 + i - 1 = i
              OBVIOUS
        <2> QED
              BY <2>2, <2>3
  <1>4. SubSeq(s, 1, n) = p
        BY <1>1, <1>3, SeqEqual
  <1>5. n = Len(s) => p = s
        BY <1>1, SeqEqual
  <1> QED
        BY <1>1, <1>2, <1>4, <1>5 DEF IsPrefix

-----------------------------------------------------------------------------
(* The types, and what is asked and answered in which mode *)

Places == Waiting \cup {"closed", "idle", "done"}
Modes == {"none", "read", "write"}
Infos == [mode : Modes, blknum : Nat, blk : Seq(Nat), off : Nat,
          lastblock : BOOLEAN, error : BOOLEAN]
Calls == [retries : Nat, left : Nat, copied : Nat, len : Nat]
Results == [n : Nat, len : Nat, nobuf : BOOLEAN]
Queries == [op : {"read", "write", "ack", "data", "error"}, to : Session \cup {Port69},
            num : Nat, data : Seq(Nat)]
Answers == [op : {"data", "ack", "error"}, from : Session, num : Nat, data : Seq(Nat)]
Sessions == [mode : Modes, next : Nat, data : Seq(Nat), closed : BOOLEAN]

ClientTyped ==
    /\ pc \in Places /\ info \in Infos /\ call \in Calls /\ res \in Results
    /\ peer \in Session \cup {Port69}
    /\ got \in Seq(Nat) /\ put \in Seq(Nat)
    /\ info.off <= Len(info.blk)
    /\ info.mode = "write" => info.off = 0 /\ Len(info.blk) <= BlockSize

\* Where the client is, and what it does there.
ClientPlaced ==
    /\ pc = "closed" <=> info.mode = "none"
    /\ pc \in {"closed", "opening"} => peer = Port69
    /\ peer = Port69 => info.off = 0 /\ info.blk = <<>> /\ ~info.lastblock
    /\ pc \in {"idle", "reading", "writing", "closing"} => peer # Port69
    /\ pc = "reading" => info.mode = "read"
    /\ pc \in {"writing", "closing"} => info.mode = "write"

NetTyped == toServer \subseteq Queries /\ toClient \subseteq Answers /\ rx \in Seq(toClient)

ServerTyped == file \in Seq(Nat) /\ session \in [Session -> Sessions]

\* What has been asked, and answered, is of the mode in which the client is.
AskedInMode ==
    \A m \in toServer :
        /\ m.op \in {"read", "write"} => m.op = info.mode
        /\ m.op = "ack" => info.mode = "read"
        /\ m.op = "data" => info.mode = "write"
        /\ m.to \in {Port69, peer}
AnsweredInMode ==
    /\ \A m \in toClient :
        /\ m.op = "data" => info.mode = "read"
        /\ m.op = "ack" => info.mode = "write"
        /\ session[m.from].mode # "none"
    /\ \A s \in Session : session[s].mode # "none" => session[s].mode = info.mode

Basics == ClientTyped /\ ClientPlaced /\ NetTyped /\ ServerTyped /\ AskedInMode /\ AnsweredInMode

\* A call waits for the answer to what it has sent, or it returns without a buffer.
LEMMA SendCases ==
    ASSUME NEW m, NEW where, NEW c, Send(m, where, c)
    PROVE  \/ /\ toServer' = toServer \cup {m} /\ pc' = where /\ call' = c /\ res' = res
           \/ /\ toServer' = toServer
              /\ pc' = IF pc \in {"reading", "writing", "idle"} THEN "idle" ELSE "done"
              /\ call' = NoCall
              /\ res' = [n |-> c.copied, len |-> c.len, nobuf |-> TRUE]
  BY DEF Send, End

LEMMA Retried ==
    ASSUME call \in Calls
    PROVE  LET d == [call EXCEPT !.retries = @ + 1]
           IN  d \in Calls /\ d.left = call.left /\ d.copied = call.copied /\ d.len = call.len
  <1> DEFINE x == call.retries + 1
  <1>1. call \in Calls /\ x \in Nat
        BY DEF Calls
  <1> HIDE DEF x
  <1>2. /\ [call EXCEPT !.retries = x] \in Calls
        /\ [call EXCEPT !.retries = x].left = call.left
        /\ [call EXCEPT !.retries = x].copied = call.copied
        /\ [call EXCEPT !.retries = x].len = call.len
        BY <1>1 DEF Calls
  <1> QED
        BY <1>2 DEF x

\* Another turn: the same again, or the call returns, with or without an error.
LEMMA AgainCases ==
    ASSUME NEW m, Again(m), ClientTyped
    PROVE  /\ info' = info \/ info' = [info EXCEPT !.error = TRUE]
           /\ \/ /\ toServer' = toServer \cup {m} /\ pc' = pc /\ res' = res /\ info' = info
                 /\ call' \in Calls /\ call'.left = call.left
                 /\ call'.copied = call.copied /\ call'.len = call.len
              \/ /\ toServer' = toServer
                 /\ pc' = IF pc \in {"reading", "writing", "idle"} THEN "idle" ELSE "done"
                 /\ call' = NoCall
                 /\ res' \in Results /\ res'.n = call.copied /\ res'.len = call.len
                 /\ \/ res'.nobuf
                    \/ info' = [info EXCEPT !.error = TRUE] /\ res'.nobuf = res.nobuf
  <1> DEFINE d == [call EXCEPT !.retries = @ + 1]
  <1>1. d \in Calls /\ d.left = call.left /\ d.copied = call.copied /\ d.len = call.len
        BY Retried DEF ClientTyped
  <1>2. res.nobuf \in BOOLEAN /\ call.copied \in Nat /\ call.len \in Nat
        BY DEF ClientTyped, Results, Calls
  <1>3. CASE LastTry
        <2>1. /\ res' = [n |-> call.copied, len |-> call.len, nobuf |-> res.nobuf]
              /\ info' = [info EXCEPT !.error = TRUE] /\ toServer' = toServer
              /\ pc' = IF pc \in {"reading", "writing", "idle"} THEN "idle" ELSE "done"
              /\ call' = NoCall
              BY <1>3 DEF Again, Return, End
        <2>2. /\ res' \in Results /\ res'.n = call.copied /\ res'.len = call.len
              /\ res'.nobuf = res.nobuf
              BY <1>2, <2>1 DEF Results
        <2> QED
              BY <2>1, <2>2
  <1>4. CASE ~LastTry
        <2>1. Send(m, pc, d) /\ info' = info
              BY <1>4 DEF Again
        <2> HIDE DEF d
        <2>2. CASE /\ toServer' = toServer \cup {m} /\ pc' = pc /\ call' = d /\ res' = res
              BY <1>1, <2>1, <2>2
        <2>3. CASE /\ toServer' = toServer
                   /\ pc' = IF pc \in {"reading", "writing", "idle"} THEN "idle" ELSE "done"
                   /\ call' = NoCall
                   /\ res' = [n |-> d.copied, len |-> d.len, nobuf |-> TRUE]
              <3>1. res' \in Results /\ res'.n = call.copied /\ res'.len = call.len /\ res'.nobuf
                    BY <1>1, <1>2, <2>3 DEF Results
              <3> QED
                    BY <2>1, <2>3, <3>1
        <2> QED
              BY <2>1, <2>2, <2>3, SendCases
  <1> QED
        BY <1>3, <1>4

\* What a turn of the loop of a read does.
ReadTurn(i, c, n) ==
    /\ n <= c.left /\ n <= Len(i.blk) - i.off
    /\ n = c.left \/ n = Len(i.blk) - i.off
    /\ got' = got \o SubSeq(i.blk, i.off + 1, i.off + n)
    /\ info' = [i EXCEPT !.off = i.off + n]
    /\ \/ /\ n > 0 /\ i.off + n = Len(i.blk) /\ ~i.lastblock
          /\ toServer' = toServer \cup {Ack(info')} /\ pc' = "reading" /\ res' = res
          /\ call' \in Calls
          /\ call'.left = c.left - n /\ call'.copied = c.copied + n /\ call'.len = c.len
       \/ /\ toServer' = toServer
          /\ pc' = IF pc \in {"reading", "writing", "idle"} THEN "idle" ELSE "done"
          /\ call' = NoCall
          /\ res' \in Results /\ res'.n = c.copied + n /\ res'.len = c.len
          /\ \/ res'.nobuf
             \/ /\ res'.nobuf = res.nobuf
                /\ n = 0 \/ i.off + n # Len(i.blk) \/ i.lastblock

LEMMA ReadLoopTurns ==
    ASSUME NEW i, i \in Infos, NEW c, c \in Calls, i.off <= Len(i.blk), ReadLoop(i, c),
           res.nobuf \in BOOLEAN
    PROVE  \E n \in Nat : ReadTurn(i, c, n)
  <1> DEFINE n == Min({c.left, Len(i.blk) - i.off})
             j == [i EXCEPT !.off = @ + n]
             d == [c EXCEPT !.retries = 0, !.left = @ - n, !.copied = @ + n]
  <1>1. c.left \in Nat /\ Len(i.blk) - i.off \in Nat
        BY DEF Infos, Calls
  <1>2. n \in Nat /\ n <= c.left /\ n <= Len(i.blk) - i.off /\ (n = c.left \/ n = Len(i.blk) - i.off)
        BY <1>1, MinOfTwo
  <1>3. /\ got' = got \o SubSeq(i.blk, i.off + 1, j.off)
        /\ info' = j
        /\ \/ (n > 0 /\ j.off = Len(i.blk)) /\ ~i.lastblock /\ Send(Ack(j), "reading", d)
           \/ (~(n > 0 /\ j.off = Len(i.blk)) \/ i.lastblock) /\ Return(d) /\ toServer' = toServer
        BY DEF ReadLoop
  <1> HIDE DEF n
  <1>4. j.off = i.off + n /\ j = [i EXCEPT !.off = i.off + n]
        BY DEF Infos
  <1>5. d \in Calls /\ d.left = c.left - n /\ d.copied = c.copied + n /\ d.len = c.len
        <2> DEFINE z == 0
                   x == c.left - n
                   y == c.copied + n
        <2>1. z \in Nat /\ x \in Nat /\ y \in Nat
              BY <1>2 DEF Calls
        <2>2. d = [c EXCEPT !.retries = z, !.left = x, !.copied = y]
              OBVIOUS
        <2> HIDE DEF x, y, z
        <2> DEFINE e == [c EXCEPT !.retries = z, !.left = x, !.copied = y]
        <2>4. e \in Calls /\ e.left = x /\ e.copied = y /\ e.len = c.len
              BY <2>1 DEF Calls
        <2> HIDE DEF d, e
        <2>5. d = e
              BY <2>2 DEF e
        <2> QED
              BY <2>4, <2>5 DEF x, y
  <1> HIDE DEF j, d
  <1>7. CASE (n > 0 /\ j.off = Len(i.blk)) /\ ~i.lastblock /\ Send(Ack(j), "reading", d)
        <2>1. CASE /\ toServer' = toServer \cup {Ack(j)} /\ pc' = "reading" /\ call' = d /\ res' = res
              BY <1>2, <1>3, <1>4, <1>5, <1>7, <2>1 DEF ReadTurn
        <2>2. CASE /\ toServer' = toServer
                   /\ pc' = IF pc \in {"reading", "writing", "idle"} THEN "idle" ELSE "done"
                   /\ call' = NoCall
                   /\ res' = [n |-> d.copied, len |-> d.len, nobuf |-> TRUE]
              <3>1. res' \in Results /\ res'.n = c.copied + n /\ res'.len = c.len /\ res'.nobuf
                    BY <1>5, <2>2 DEF Results, Calls
              <3> QED
                    BY <1>2, <1>3, <1>4, <2>2, <3>1 DEF ReadTurn
        <2> QED
              BY <1>7, <2>1, <2>2, SendCases
  <1>8. CASE (~(n > 0 /\ j.off = Len(i.blk)) \/ i.lastblock) /\ Return(d) /\ toServer' = toServer
        <2>1. n = 0 \/ i.off + n # Len(i.blk) \/ i.lastblock
              BY <1>2, <1>4, <1>8
        <2>2. /\ pc' = IF pc \in {"reading", "writing", "idle"} THEN "idle" ELSE "done"
              /\ call' = NoCall
              /\ res' = [n |-> c.copied + n, len |-> c.len, nobuf |-> res.nobuf]
              BY <1>5, <1>8 DEF Return, End
        <2>3. /\ res' \in Results /\ res'.n = c.copied + n /\ res'.len = c.len
              /\ res'.nobuf = res.nobuf
              <3>1. c.copied + n \in Nat /\ c.len \in Nat
                    BY <1>2 DEF Calls
              <3> QED
                    BY <2>2, <3>1 DEF Results
        <2> QED
              BY <1>2, <1>3, <1>4, <1>8, <2>1, <2>2, <2>3 DEF ReadTurn
  <1> QED
        BY <1>3, <1>7, <1>8

\* What a turn of the loop of a write does; q is what it takes from the caller.
WriteTurn(i, c, q) ==
    /\ Len(q) <= c.left /\ Len(q) <= BlockSize - Len(i.blk)
    /\ Len(q) = c.left \/ Len(q) = BlockSize - Len(i.blk)
    /\ put' = put \o q
    /\ info' = [i EXCEPT !.blk = i.blk \o q]
    /\ \/ /\ Len(i.blk) + Len(q) = BlockSize
          /\ toServer' = toServer \cup {Data(info')} /\ pc' = "writing" /\ res' = res
          /\ call' \in Calls /\ call'.left = c.left - Len(q)
       \/ /\ toServer' = toServer
          /\ pc' = IF pc \in {"reading", "writing", "idle"} THEN "idle" ELSE "done"
          /\ call' = NoCall
          /\ res' \in Results

LEMMA WriteLoopTurns ==
    ASSUME NEW i, i \in Infos, NEW c, c \in Calls, Len(i.blk) <= BlockSize, WriteLoop(i, c),
           res.nobuf \in BOOLEAN, put \in Seq(Nat)
    PROVE  \E q \in Seq(Nat) : WriteTurn(i, c, q)
  <1> DEFINE n == Min({c.left, BlockSize - Len(i.blk)})
             q == [k \in 1..n |-> Len(put) + k]
             j == [i EXCEPT !.blk = @ \o q]
             d == [c EXCEPT !.retries = 0, !.left = @ - n, !.copied = @ + n]
  <1>1. c.left \in Nat /\ BlockSize - Len(i.blk) \in Nat /\ i.blk \in Seq(Nat)
        BY DEF Infos, Calls
  <1>2. n \in Nat /\ n <= c.left /\ n <= BlockSize - Len(i.blk)
        /\ (n = c.left \/ n = BlockSize - Len(i.blk))
        <2> DEFINE x == c.left
                   y == BlockSize - Len(i.blk)
        <2>1. x \in Nat /\ y \in Nat /\ n = Min({x, y})
              BY <1>1
        <2> HIDE DEF n, x, y
        <2>2. n = IF x <= y THEN x ELSE y
              BY <2>1, MinOfTwo
        <2>3. n \in Nat /\ n <= x /\ n <= y /\ (n = x \/ n = y)
              BY <2>1, <2>2
        <2> QED
              BY <2>3 DEF x, y
  <1>3. /\ put' = put \o q
        /\ info' = j
        /\ \/ (c.left > 0 /\ Len(j.blk) = BlockSize) /\ Send(Data(j), "writing", d)
           \/ ~(c.left > 0 /\ Len(j.blk) = BlockSize) /\ Return(d) /\ toServer' = toServer
        BY DEF WriteLoop
  <1> HIDE DEF n
  <1>4. q \in Seq(Nat) /\ Len(q) = n
        <2>1. Len(put) \in Nat /\ q \in [1..n -> Nat]
              BY <1>2
        <2> HIDE DEF q
        <2> QED
              BY <1>2, <2>1
  <1>5. d \in Calls /\ d.left = c.left - n /\ d.copied = c.copied + n /\ d.len = c.len
        <2> DEFINE z == 0
                   x == c.left - n
                   y == c.copied + n
        <2>1. z \in Nat /\ x \in Nat /\ y \in Nat
              BY <1>2 DEF Calls
        <2>2. d = [c EXCEPT !.retries = z, !.left = x, !.copied = y]
              OBVIOUS
        <2> HIDE DEF x, y, z
        <2> DEFINE e == [c EXCEPT !.retries = z, !.left = x, !.copied = y]
        <2>4. e \in Calls /\ e.left = x /\ e.copied = y /\ e.len = c.len
              BY <2>1 DEF Calls
        <2> HIDE DEF d, e
        <2>5. d = e
              BY <2>2 DEF e
        <2> QED
              BY <2>4, <2>5 DEF x, y
  <1> HIDE DEF q, d
  <1>6. j = [i EXCEPT !.blk = i.blk \o q] /\ j.blk = i.blk \o q
        BY DEF Infos
  <1>7. Len(j.blk) = Len(i.blk) + n
        BY <1>1, <1>4, <1>6, ConcatProperties
  <1> HIDE DEF j
  <1> SUFFICES WriteTurn(i, c, q)
        BY <1>4
  <1>8. CASE (c.left > 0 /\ Len(j.blk) = BlockSize) /\ Send(Data(j), "writing", d)
        <2>1. CASE /\ toServer' = toServer \cup {Data(j)} /\ pc' = "writing" /\ call' = d /\ res' = res
              BY <1>2, <1>3, <1>4, <1>5, <1>6, <1>7, <1>8, <2>1 DEF WriteTurn
        <2>2. CASE /\ toServer' = toServer
                   /\ pc' = IF pc \in {"reading", "writing", "idle"} THEN "idle" ELSE "done"
                   /\ call' = NoCall
                   /\ res' = [n |-> d.copied, len |-> d.len, nobuf |-> TRUE]
              <3>1. res' \in Results
                    BY <1>5, <2>2 DEF Results, Calls
              <3> QED
                    BY <1>2, <1>3, <1>4, <1>6, <2>2, <3>1 DEF WriteTurn
        <2> QED
              BY <1>8, <2>1, <2>2, SendCases
  <1>9. CASE ~(c.left > 0 /\ Len(j.blk) = BlockSize) /\ Return(d) /\ toServer' = toServer
        <2>1. /\ pc' = IF pc \in {"reading", "writing", "idle"} THEN "idle" ELSE "done"
              /\ call' = NoCall
              /\ res' = [n |-> d.copied, len |-> d.len, nobuf |-> res.nobuf]
              BY <1>9 DEF Return, End
        <2>2. res' \in Results
              BY <1>5, <2>1 DEF Results, Calls
        <2> QED
              BY <1>2, <1>3, <1>4, <1>6, <1>9, <2>1, <2>2 DEF WriteTurn
  <1> QED
        BY <1>3, <1>8, <1>9

\* n bytes of s that begin after the first a.
LEMMA MiddleFacts ==
    ASSUME NEW s, s \in Seq(Nat), NEW a \in Nat, NEW n \in Nat, a + n <= Len(s)
    PROVE  /\ SubSeq(s, a + 1, a + n) \in Seq(Nat) /\ Len(SubSeq(s, a + 1, a + n)) = n
           /\ \A k \in 1..n : SubSeq(s, a + 1, a + n)[k] = s[a + k]
  <1> DEFINE l == a + 1
             h == a + n
  <1>1. l \in Int /\ h \in Int /\ \A k \in l .. h : k \in 1..Len(s)
        OBVIOUS
  <1>2. /\ (IF l <= h THEN h - l + 1 ELSE 0) = n /\ h - l + 1 = n
        /\ \A k \in 1..n : l + k - 1 = a + k
        OBVIOUS
  <1> HIDE DEF l, h
  <1>3. \A k \in l .. h : s[k] \in Nat
        BY <1>1, ElementOfSeq
  <1>4. /\ SubSeq(s, l, h) \in Seq(Nat)
        /\ Len(SubSeq(s, l, h)) = IF l <= h THEN h - l + 1 ELSE 0
        /\ \A k \in 1 .. h - l + 1 : SubSeq(s, l, h)[k] = s[l + k - 1]
        BY <1>1, <1>3, SubSeqProperties
  <1>5. /\ SubSeq(s, l, h) \in Seq(Nat) /\ Len(SubSeq(s, l, h)) = n
        /\ \A k \in 1..n : SubSeq(s, l, h)[k] = s[a + k]
        BY <1>2, <1>4
  <1> QED
        BY <1>5 DEF l, h

LEMMA PieceTyped ==
    ASSUME NEW s \in Seq(Nat), NEW k \in Nat \ {0}
    PROVE  Piece(s, k) \in Seq(Nat)
  <1> DEFINE l == Before(k) + 1
             h == Min({k * BlockSize, Len(s)})
  <1>1. Before(k) \in Nat /\ k * BlockSize \in Nat /\ Len(s) \in Nat
        <2>1. k * BlockSize = Before(k) + BlockSize /\ Before(k) \in Nat
              BY BeforeFacts
        <2> QED
              BY <2>1
  <1>2. l \in Int /\ l >= 1 /\ h \in Int /\ h <= Len(s)
        <2> DEFINE x == k * BlockSize
        <2>1. x \in Int
              BY <1>1
        <2> HIDE DEF x
        <2>2. Min({x, Len(s)}) \in Int /\ Min({x, Len(s)}) <= Len(s)
              BY <1>1, <2>1, MinOfTwo
        <2> QED
              BY <1>1, <2>2 DEF x
  <1>3. Piece(s, k) = SubSeq(s, l, h)
        BY DEF Piece
  <1> HIDE DEF l, h
  <1>4. \A i \in l .. h : i \in 1..Len(s)
        BY <1>2, <1>1
  <1>5. \A i \in l .. h : s[i] \in Nat
        BY <1>4, ElementOfSeq
  <1> QED
        BY <1>2, <1>3, <1>5, SubSeqProperties

LEMMA BlockIsPiece == \A k : Block(k) = Piece(file, k)
  BY DEF Block, Piece, Before

LEMMA NoCallTyped == NoCall \in Calls /\ NoCall.left = 0 /\ NoCall.len = 0 /\ NoCall.copied = 0
  BY DEF NoCall, Calls

\* The record of a read with the block that a datagram brings.
Fetched(m) == [info EXCEPT !.blknum = m.num, !.blk = m.data, !.off = 0,
                           !.lastblock = IsLast(m.data)]

LEMMA FetchedTyped ==
    ASSUME NEW m, m.num \in Nat, m.data \in Seq(Nat), info \in Infos
    PROVE  /\ Fetched(m) \in Infos /\ Fetched(m).mode = info.mode /\ Fetched(m).off = 0
           /\ Fetched(m).blk = m.data /\ Fetched(m).blknum = m.num
           /\ Fetched(m).lastblock = IsLast(m.data) /\ Fetched(m).error = info.error
  <1> DEFINE last == IsLast(m.data)
             z == 0
             i == [info EXCEPT !.blknum = m.num, !.blk = m.data, !.off = z, !.lastblock = last]
  <1>1. last \in BOOLEAN /\ z \in Nat
        BY DEF IsLast
  <1>2. Fetched(m) = i
        BY DEF Fetched
  <1> HIDE DEF last, z
  <1>3. /\ i \in Infos /\ i.mode = info.mode /\ i.off = z /\ i.blk = m.data
        /\ i.blknum = m.num /\ i.lastblock = last /\ i.error = info.error
        BY <1>1 DEF Infos
  <1> HIDE DEF i
  <1> QED
        BY <1>2, <1>3 DEF last, z

-----------------------------------------------------------------------------
LEMMA OpenKeepsClient ==
    ASSUME Basics, NEW mode \in {"read", "write"}, Open(mode)
    PROVE  ClientTyped' /\ ClientPlaced'
  <1>1. /\ pc = "closed" /\ peer = Port69 /\ info.off = 0 /\ info.blk = <<>> /\ ~info.lastblock
        /\ ClientTyped
        BY DEF Basics, ClientPlaced, Open
  <1>2. info' = [info EXCEPT !.mode = mode] /\ Send(Request(mode), "opening", NoCall)
        /\ UNCHANGED <<peer, got, put>>
        BY DEF Open
  <1>3. /\ info' \in Infos /\ info'.off = info.off /\ info'.blk = info.blk /\ info'.mode = mode
        /\ info'.lastblock = info.lastblock
        BY <1>1, <1>2 DEF ClientTyped, Infos, Modes
  <1>4. pc' \in {"opening", "done"} /\ call' = NoCall /\ res' \in Results
        <2>1. [n |-> NoCall.copied, len |-> NoCall.len, nobuf |-> TRUE] \in Results
              BY NoCallTyped DEF Results, Calls
        <2> QED
              BY <1>1, <1>2, <2>1, SendCases DEF ClientTyped
  <1>5. Len(info'.blk) = 0
        BY <1>1, <1>3
  <1> QED
        BY <1>1, <1>2, <1>3, <1>4, <1>5, NoCallTyped
           DEF ClientTyped, ClientPlaced, Places, Waiting

LEMMA OpenWaitKeepsClient ==
    ASSUME Basics, OpenTimesOut \/ OpenAnswered
    PROVE  ClientTyped' /\ ClientPlaced'
  <1>1. pc = "opening" /\ peer = Port69 /\ ClientTyped /\ ClientPlaced /\ info.mode # "none"
        BY DEF Basics, ClientPlaced, OpenTimesOut, OpenAnswered
  <1>2. ASSUME OpenTimesOut
        PROVE  ClientTyped' /\ ClientPlaced'
        <2> DEFINE d == [call EXCEPT !.retries = @ + 1]
        <2>1. UNCHANGED <<info, peer, got, put>>
              /\ (Send(Request(info.mode), pc, d) \/ Return(call))
              BY <1>2 DEF OpenTimesOut
        <2>2. d \in Calls
              BY <1>1, Retried DEF ClientTyped
        <2> HIDE DEF d
        <2>3. /\ [n |-> d.copied, len |-> d.len, nobuf |-> TRUE] \in Results
              /\ [n |-> call.copied, len |-> call.len, nobuf |-> res.nobuf] \in Results
              BY <1>1, <2>2 DEF ClientTyped, Calls, Results
        <2>4. pc' \in {"opening", "done"} /\ call' \in Calls /\ res' \in Results
              <3>1. CASE Return(call)
                    BY <1>1, <2>3, <3>1, NoCallTyped DEF Return, End
              <3>2. CASE Send(Request(info.mode), pc, d)
                    <4>1. \/ pc' = pc /\ call' = d /\ res' = res
                          \/ /\ pc' = IF pc \in {"reading", "writing", "idle"} THEN "idle" ELSE "done"
                             /\ call' = NoCall
                             /\ res' = [n |-> d.copied, len |-> d.len, nobuf |-> TRUE]
                          BY <3>2, SendCases
                    <4>2. res \in Results
                          BY <1>1 DEF ClientTyped
                    <4> QED
                          BY <1>1, <2>2, <2>3, <4>1, <4>2, NoCallTyped
              <3> QED
                    BY <2>1, <3>1, <3>2
        <2> QED
              BY <1>1, <2>1, <2>4 DEF ClientTyped, ClientPlaced, Places, Waiting
  <1>3. ASSUME OpenAnswered
        PROVE  ClientTyped' /\ ClientPlaced'
        <2>1. PICK m \in toClient :
                 \/ /\ m.op = "ack" /\ info.mode = "write"
                    /\ info' = [info EXCEPT !.blknum = 1] /\ peer' = m.from /\ pc' = "idle"
                 \/ /\ m.op = "data"
                    /\ info' = [info EXCEPT !.blknum = m.num, !.blk = m.data,
                                            !.lastblock = IsLast(m.data)]
                    /\ peer' = m.from /\ pc' = "idle"
                 \/ pc' = "done" /\ UNCHANGED <<info, peer>>
              BY <1>3 DEF OpenAnswered
        <2>2. call' = NoCall /\ UNCHANGED <<res, got, put>>
              BY <1>3 DEF OpenAnswered
        <2>3. /\ m.from \in Session /\ m.num \in Nat /\ m.data \in Seq(Nat) /\ m.from # Port69
              /\ m.op = "data" => info.mode = "read"
              BY TftpAssumption DEF Basics, NetTyped, AnsweredInMode, Answers
        <2>4. CASE pc' = "done" /\ UNCHANGED <<info, peer>>
              BY <1>1, <2>2, <2>4, NoCallTyped DEF ClientTyped, ClientPlaced, Places
        <2>5. CASE info' = [info EXCEPT !.blknum = 1] /\ peer' = m.from /\ pc' = "idle"
              <3>1. /\ info' \in Infos /\ info'.mode = info.mode /\ info'.off = info.off
                    /\ info'.blk = info.blk
                    BY <1>1, <2>5 DEF ClientTyped, Infos
              <3> QED
                    BY <1>1, <2>2, <2>3, <2>5, <3>1, NoCallTyped DEF ClientTyped, ClientPlaced, Places
        <2>6. CASE /\ m.op = "data"
                   /\ info' = [info EXCEPT !.blknum = m.num, !.blk = m.data,
                                           !.lastblock = IsLast(m.data)]
                   /\ peer' = m.from /\ pc' = "idle"
              <3> DEFINE last == IsLast(m.data)
              <3>1. last \in BOOLEAN /\ Len(m.data) \in Nat
                    BY <2>3 DEF IsLast
              <3>2. info' = [info EXCEPT !.blknum = m.num, !.blk = m.data, !.lastblock = last]
                    BY <2>6
              <3> HIDE DEF last
              <3>3. /\ info' \in Infos /\ info'.mode = info.mode /\ info'.off = info.off
                    /\ info'.blk = m.data
                    BY <1>1, <2>3, <3>1, <3>2 DEF ClientTyped, Infos
              <3>4. info'.off = 0
                    BY <1>1, <3>3 DEF ClientPlaced
              <3> QED
                    BY <1>1, <2>2, <2>3, <2>6, <3>1, <3>3, <3>4, NoCallTyped
                       DEF ClientTyped, ClientPlaced, Places
        <2> QED
              BY <2>1, <2>4, <2>5, <2>6
  <1> QED
        BY <1>2, <1>3

\* A turn of the loop of a read leaves the client well placed.
LEMMA ReadTurnKeepsClient ==
    ASSUME Basics, NEW i, i \in Infos, NEW c, c \in Calls, NEW n \in Nat, ReadTurn(i, c, n),
           pc \in {"idle", "reading"}, info.mode = "read", i.mode = "read", i.off <= Len(i.blk),
           UNCHANGED <<peer, put>>
    PROVE  ClientTyped' /\ ClientPlaced'
  <1>1. ClientTyped /\ ClientPlaced /\ peer # Port69
        BY DEF Basics, ClientPlaced
  <1>2. /\ info' = [i EXCEPT !.off = i.off + n] /\ n <= Len(i.blk) - i.off
        /\ got' = got \o SubSeq(i.blk, i.off + 1, i.off + n)
        BY DEF ReadTurn
  <1>3. i.blk \in Seq(Nat) /\ i.off \in Nat /\ i.off + n \in Nat /\ i.off + n <= Len(i.blk)
        <2>0. n <= Len(i.blk) - i.off
              BY <1>2
        <2>1. i.blk \in Seq(Nat) /\ i.off \in Nat /\ Len(i.blk) \in Nat
              BY DEF Infos
        <2> QED
              BY <2>0, <2>1
  <1>4. info' \in Infos /\ info'.mode = "read" /\ info'.off = i.off + n /\ info'.blk = i.blk
        BY <1>2, <1>3 DEF Infos
  <1>5. got' \in Seq(Nat)
        <2>1. SubSeq(i.blk, i.off + 1, i.off + n) \in Seq(Nat) /\ got \in Seq(Nat)
              BY <1>1, <1>3, MiddleFacts DEF ClientTyped
        <2> QED
              BY <1>2, <2>1, ConcatProperties
  <1>6. pc' \in {"reading", "idle"} /\ call' \in Calls /\ res' \in Results
        BY <1>1, NoCallTyped DEF ReadTurn, ClientTyped
  <1> QED
        BY <1>1, <1>3, <1>4, <1>5, <1>6 DEF ClientTyped, ClientPlaced, Places, Waiting

\* So do a turn of the loop of a write, and another try.
LEMMA WriteTurnKeepsClient ==
    ASSUME Basics, NEW i, i \in Infos, NEW c, c \in Calls, NEW q \in Seq(Nat), WriteTurn(i, c, q),
           pc \in {"idle", "writing"}, info.mode = "write", i.mode = "write", i.off = 0,
           UNCHANGED <<peer, got>>
    PROVE  ClientTyped' /\ ClientPlaced'
  <1>1. ClientTyped /\ ClientPlaced /\ peer # Port69
        BY DEF Basics, ClientPlaced
  <1>2. Len(q) <= BlockSize - Len(i.blk)
        BY DEF WriteTurn
  <1>3. i.blk \in Seq(Nat) /\ i.off \in Nat
        BY DEF Infos
  <1>4. i.blk \o q \in Seq(Nat) /\ Len(i.blk \o q) = Len(i.blk) + Len(q)
        BY <1>3, ConcatProperties
  <1>5. Len(i.blk \o q) <= BlockSize /\ i.off <= Len(i.blk \o q)
        <2>1. Len(i.blk) \in Nat /\ Len(q) \in Nat
              BY <1>3
        <2> QED
              BY <1>2, <1>3, <1>4, <2>1
  <1>6. info' = [i EXCEPT !.blk = i.blk \o q] /\ put' = put \o q
        BY DEF WriteTurn
  <1>7. info' \in Infos /\ info'.mode = "write" /\ info'.off = i.off /\ info'.blk = i.blk \o q
        BY <1>4, <1>6 DEF Infos
  <1>8. put' \in Seq(Nat)
        BY <1>1, <1>6, ConcatProperties DEF ClientTyped
  <1>9. pc' \in {"writing", "idle"} /\ call' \in Calls /\ res' \in Results
        BY <1>1, NoCallTyped DEF WriteTurn, ClientTyped
  <1> QED
        BY <1>1, <1>5, <1>7, <1>8, <1>9 DEF ClientTyped, ClientPlaced, Places, Waiting

LEMMA AgainKeepsClient ==
    ASSUME Basics, NEW m, Again(m), pc \in {"reading", "writing", "closing"},
           UNCHANGED <<peer, got, put>>
    PROVE  ClientTyped' /\ ClientPlaced'
  <1>1. ClientTyped /\ ClientPlaced /\ peer # Port69
        BY DEF Basics, ClientPlaced
  <1>2. /\ info' = info \/ info' = [info EXCEPT !.error = TRUE]
        /\ call' \in Calls /\ res' \in Results
        /\ pc' = pc \/ pc' = IF pc \in {"reading", "writing", "idle"} THEN "idle" ELSE "done"
        BY <1>1, AgainCases, NoCallTyped DEF ClientTyped
  <1>3. /\ info' \in Infos /\ info'.mode = info.mode /\ info'.off = info.off
        /\ info'.blk = info.blk
        BY <1>1, <1>2 DEF ClientTyped, Infos
  <1> QED
        BY <1>1, <1>2, <1>3 DEF ClientTyped, ClientPlaced, Places, Waiting

\* What the client may have sent: requests, acks of the block that it has used up,
\* cancellations, and the block that it is about to write.
NewQuery(m) ==
    \/ m = Request(info'.mode) /\ info'.mode \in {"read", "write"}
    \/ info'.mode = "read" /\ peer # Port69 /\ m \in {Ack(info'), Cancel}
    \/ info'.mode = "write" /\ pc' \in {"writing", "closing"} /\ m = Data(info')

ClientSends ==
    /\ pc # "closed" => info'.mode = info.mode
    /\ \/ peer' = peer
       \/ pc = "opening" /\ peer' \in Session /\ toServer' = toServer
    /\ \A m \in toServer' : m \in toServer \/ NewQuery(m)

LEMMA AgainSends ==
    ASSUME Basics, NEW m, Again(m), pc \in {"reading", "writing", "closing"}, peer' = peer,
           \/ info.mode = "read" /\ m = Ack(info)
           \/ info.mode = "write" /\ m = Data(info) /\ pc \in {"writing", "closing"}
    PROVE  ClientSends
  <1>1. ClientTyped /\ peer # Port69
        BY DEF Basics, ClientPlaced
  <1>2. /\ info' = info \/ info' = [info EXCEPT !.error = TRUE]
        /\ \/ toServer' = toServer
           \/ toServer' = toServer \cup {m} /\ pc' = pc /\ info' = info
        BY <1>1, AgainCases
  <1>3. info'.mode = info.mode
        BY <1>1, <1>2 DEF ClientTyped, Infos
  <1> QED
        BY <1>1, <1>2, <1>3 DEF ClientSends, NewQuery

LEMMA ReadTurnSends ==
    ASSUME Basics, NEW i, i \in Infos, NEW c, NEW n \in Nat, ReadTurn(i, c, n),
           pc \in {"idle", "reading"}, info.mode = "read", i.mode = "read", peer' = peer
    PROVE  ClientSends
  <1>1. peer # Port69
        BY DEF Basics, ClientPlaced
  <1>2. info' = [i EXCEPT !.off = i.off + n]
        /\ (toServer' = toServer \/ toServer' = toServer \cup {Ack(info')})
        BY DEF ReadTurn
  <1>3. info'.mode = "read"
        BY <1>2 DEF Infos
  <1> QED
        BY <1>1, <1>2, <1>3 DEF ClientSends, NewQuery

LEMMA WriteTurnSends ==
    ASSUME Basics, NEW i, i \in Infos, NEW c, NEW q, WriteTurn(i, c, q),
           pc \in {"idle", "writing"}, info.mode = "write", i.mode = "write", peer' = peer
    PROVE  ClientSends
  <1>1. /\ info' = [i EXCEPT !.blk = i.blk \o q]
        /\ \/ toServer' = toServer
           \/ toServer' = toServer \cup {Data(info')} /\ pc' = "writing"
        BY DEF WriteTurn
  <1>2. info'.mode = "write"
        BY <1>1 DEF Infos
  <1> QED
        BY <1>1, <1>2 DEF ClientSends, NewQuery

LEMMA SentTyped ==
    ASSUME info \in Infos
    PROVE  /\ Sent \in Infos /\ Sent.mode = info.mode /\ Sent.off = info.off /\ Sent.blk = info.blk
           /\ Sent.blknum = (info.blknum + 1) % NumBlocks /\ Sent.error = info.error
           /\ Sent.lastblock = (Len(info.blk) # BlockSize)
           /\ Emptied(Sent) \in Infos /\ Emptied(Sent).mode = info.mode
           /\ Emptied(Sent).off = info.off /\ Emptied(Sent).blk = <<>>
           /\ Emptied(Sent).blknum = (info.blknum + 1) % NumBlocks
           /\ Emptied(Sent).error = info.error
           /\ Emptied(Sent).lastblock = (Len(info.blk) # BlockSize)
  <1> DEFINE b == (info.blknum + 1) % NumBlocks
             last == Len(info.blk) # BlockSize
             i == [info EXCEPT !.blknum = b, !.lastblock = last]
             e == <<>>
  <1>1. b \in Nat /\ last \in BOOLEAN /\ e \in Seq(Nat)
        <2>1. info.blknum + 1 \in Nat
              BY DEF Infos
        <2> QED
              BY <2>1
  <1>2. Sent = i
        BY DEF Sent, Infos
  <1> HIDE DEF b, last, e
  <1>3. /\ i \in Infos /\ i.mode = info.mode /\ i.off = info.off /\ i.blk = info.blk
        /\ i.blknum = b /\ i.error = info.error /\ i.lastblock = last
        BY <1>1 DEF Infos
  <1> HIDE DEF i
  <1>4. Emptied(Sent) = [Sent EXCEPT !.blk = e]
        BY DEF Emptied, e
  <1>5. /\ [i EXCEPT !.blk = e] \in Infos /\ [i EXCEPT !.blk = e].mode = i.mode
        /\ [i EXCEPT !.blk = e].off = i.off /\ [i EXCEPT !.blk = e].blk = e
        /\ [i EXCEPT !.blk = e].blknum = i.blknum /\ [i EXCEPT !.blk = e].error = i.error
        /\ [i EXCEPT !.blk = e].lastblock = i.lastblock
        BY <1>1, <1>3 DEF Infos
  <1> QED
        BY <1>2, <1>3, <1>4, <1>5 DEF b, last, e

\* The calls that wait for nothing, and the turns: every step of a read or a write is a
\* turn of its loop, another try, or a return.
LEMMA ReadSteps ==
    ASSUME Basics, (\E len \in Lengths : Read(len)) \/ ReadAnswered \/ ReadTimesOut
    PROVE  /\ pc \in {"idle", "reading"} /\ info.mode = "read" /\ peer # Port69
           /\ UNCHANGED <<peer, put, server, toClient>>
           /\ \/ /\ pc = "idle" /\ ~info.error /\ rx' = rx
                 /\ \E len \in Lengths, n \in Nat :
                       ReadTurn(info, [retries |-> 0, left |-> len, copied |-> 0, len |-> len], n)
              \/ /\ pc = "reading"
                 /\ \E m \in toClient : /\ Recv(m) /\ IsNext(m)
                                        /\ \E n \in Nat : ReadTurn(Fetched(m), call, n)
              \/ /\ pc = "reading" /\ Again(Ack(info)) /\ got' = got
                 /\ TimedOut \/ \E m \in toClient : Recv(m)
  <1>1. ClientTyped /\ ClientPlaced /\ res.nobuf \in BOOLEAN
        BY DEF Basics, ClientTyped, Results
  <1>2. CASE \E len \in Lengths : Read(len)
        <2>1. PICK len \in Lengths : Read(len)
              BY <1>2
        <2> DEFINE c == [retries |-> 0, left |-> len, copied |-> 0, len |-> len]
        <2>2. c \in Calls
              BY TftpAssumption DEF Calls
        <2>3. /\ ReadLoop(info, c) /\ pc = "idle" /\ info.mode = "read" /\ ~info.error
              /\ UNCHANGED <<peer, put, server, rx, toClient>>
              BY <2>1 DEF Read
        <2> HIDE DEF c
        <2>4. \E n \in Nat : ReadTurn(info, c, n)
              BY <1>1, <2>2, <2>3, ReadLoopTurns DEF ClientTyped
        <2> QED
              BY <1>1, <2>3, <2>4 DEF c, ClientPlaced
  <1>3. CASE ReadAnswered
        <2>1. PICK m \in toClient :
                 /\ Recv(m)
                 /\ \/ IsNext(m) /\ ReadLoop(Fetched(m), call)
                    \/ Again(Ack(info)) /\ UNCHANGED got
              BY <1>3 DEF ReadAnswered, Fetched
        <2>2. pc = "reading" /\ UNCHANGED <<peer, put, server, toClient>>
              BY <1>3 DEF ReadAnswered
        <2>3. m.num \in Nat /\ m.data \in Seq(Nat)
              BY DEF Basics, NetTyped, Answers
        <2>4. Fetched(m) \in Infos /\ Fetched(m).off <= Len(Fetched(m).blk)
              <3>1. Fetched(m) \in Infos /\ Fetched(m).off = 0 /\ Fetched(m).blk = m.data
                    BY <1>1, <2>3, FetchedTyped DEF ClientTyped
              <3> QED
                    BY <2>3, <3>1
        <2>5. ASSUME ReadLoop(Fetched(m), call)
              PROVE  \E n \in Nat : ReadTurn(Fetched(m), call, n)
              BY <1>1, <2>4, <2>5, ReadLoopTurns DEF ClientTyped
        <2> QED
              BY <1>1, <2>1, <2>2, <2>5 DEF ClientPlaced
  <1>4. CASE ReadTimesOut
        BY <1>1, <1>4 DEF ReadTimesOut, ClientPlaced
  <1> QED
        BY <1>2, <1>3, <1>4

LEMMA WriteSteps ==
    ASSUME Basics, (\E len \in Lengths : Write(len)) \/ WriteAnswered \/ WriteTimesOut
    PROVE  /\ pc \in {"idle", "writing", "closing"} /\ info.mode = "write" /\ peer # Port69
           /\ UNCHANGED <<peer, got, server, toClient>>
           /\ \/ /\ pc = "idle" /\ ~info.error /\ rx' = rx
                 /\ \E len \in Lengths, q \in Seq(Nat) :
                       /\ Len(put) + len <= MaxWritten
                       /\ WriteTurn(info, [retries |-> 0, left |-> len, copied |-> 0, len |-> len], q)
              \/ /\ pc = "writing"
                 /\ \E m \in toClient : /\ Recv(m) /\ Acked(m)
                                        /\ \E q \in Seq(Nat) : WriteTurn(Emptied(Sent), call, q)
              \/ /\ pc = "closing" /\ info' = Sent /\ Return(call) /\ UNCHANGED <<put, toServer>>
                 /\ \E m \in toClient : Recv(m) /\ Acked(m)
              \/ /\ pc \in {"writing", "closing"} /\ Return(call) /\ UNCHANGED <<put, toServer>>
                 /\ info' = [info EXCEPT !.error = TRUE, !.lastblock = TRUE]
                 /\ \E m \in toClient : Recv(m)
              \/ /\ pc \in {"writing", "closing"} /\ Again(Data(info)) /\ put' = put
                 /\ TimedOut \/ \E m \in toClient : Recv(m)
  <1>1. ClientTyped /\ ClientPlaced /\ res.nobuf \in BOOLEAN
        BY DEF Basics, ClientTyped, Results
  <1>2. CASE \E len \in Lengths : Write(len)
        <2>1. PICK len \in Lengths : Write(len)
              BY <1>2
        <2> DEFINE c == [retries |-> 0, left |-> len, copied |-> 0, len |-> len]
        <2>2. c \in Calls
              BY TftpAssumption DEF Calls
        <2>3. /\ WriteLoop(info, c) /\ pc = "idle" /\ info.mode = "write" /\ ~info.error
              /\ Len(put) + len <= MaxWritten
              /\ UNCHANGED <<peer, got, server, rx, toClient>>
              BY <2>1 DEF Write
        <2> HIDE DEF c
        <2>4. \E q \in Seq(Nat) : WriteTurn(info, c, q)
              BY <1>1, <2>2, <2>3, WriteLoopTurns DEF ClientTyped
        <2> QED
              BY <1>1, <2>3, <2>4 DEF c, ClientPlaced
  <1>3. CASE WriteAnswered
        <2>1. PICK m \in toClient :
                 /\ Recv(m)
                 /\ \/ /\ info' = [info EXCEPT !.error = TRUE, !.lastblock = TRUE]
                       /\ Return(call) /\ UNCHANGED <<put, toServer>>
                    \/ Acked(m) /\ pc = "writing" /\ WriteLoop(Emptied(Sent), call)
                    \/ Acked(m) /\ pc = "closing" /\ info' = Sent /\ Return(call)
                       /\ UNCHANGED <<put, toServer>>
                    \/ Again(Data(info)) /\ UNCHANGED put
              BY <1>3 DEF WriteAnswered
        <2>2. pc \in {"writing", "closing"} /\ UNCHANGED <<peer, got, server, toClient>>
              BY <1>3 DEF WriteAnswered
        <2>3. Emptied(Sent) \in Infos /\ Len(Emptied(Sent).blk) <= BlockSize
              <3>1. Emptied(Sent) \in Infos /\ Emptied(Sent).blk = <<>>
                    BY <1>1, SentTyped DEF ClientTyped
              <3> QED
                    BY <3>1
        <2>4. ASSUME WriteLoop(Emptied(Sent), call)
              PROVE  \E q \in Seq(Nat) : WriteTurn(Emptied(Sent), call, q)
              BY <1>1, <2>3, <2>4, WriteLoopTurns DEF ClientTyped
        <2>5. info.mode = "write" /\ peer # Port69
              BY <1>1, <2>2 DEF ClientPlaced
        <2>6. CASE /\ info' = [info EXCEPT !.error = TRUE, !.lastblock = TRUE]
                   /\ Return(call) /\ UNCHANGED <<put, toServer>>
              BY <2>1, <2>2, <2>5, <2>6
        <2>7. CASE Acked(m) /\ pc = "writing" /\ WriteLoop(Emptied(Sent), call)
              BY <2>1, <2>2, <2>4, <2>5, <2>7
        <2>8. CASE Acked(m) /\ pc = "closing" /\ info' = Sent /\ Return(call)
                   /\ UNCHANGED <<put, toServer>>
              BY <2>1, <2>2, <2>5, <2>8
        <2>9. CASE Again(Data(info)) /\ UNCHANGED put
              BY <2>1, <2>2, <2>5, <2>9
        <2> QED
              BY <2>1, <2>6, <2>7, <2>8, <2>9
  <1>4. CASE WriteTimesOut
        BY <1>1, <1>4 DEF WriteTimesOut, ClientPlaced
  <1> QED
        BY <1>2, <1>3, <1>4

LEMMA ReadKeepsClient ==
    ASSUME Basics, (\E len \in Lengths : Read(len)) \/ ReadAnswered \/ ReadTimesOut
    PROVE  ClientTyped' /\ ClientPlaced' /\ ClientSends
  <1>1. ClientTyped
        BY DEF Basics
  <1>2. pc \in {"idle", "reading"} /\ info.mode = "read" /\ UNCHANGED <<peer, put>>
        BY ReadSteps
  <1>3. ASSUME NEW len \in Lengths, NEW n \in Nat,
               ReadTurn(info, [retries |-> 0, left |-> len, copied |-> 0, len |-> len], n)
        PROVE  ClientTyped' /\ ClientPlaced' /\ ClientSends
        <2> DEFINE c == [retries |-> 0, left |-> len, copied |-> 0, len |-> len]
        <2>1. c \in Calls
              BY TftpAssumption DEF Calls
        <2>2. info \in Infos /\ info.off <= Len(info.blk) /\ ReadTurn(info, c, n)
              BY <1>1, <1>3 DEF ClientTyped
        <2> HIDE DEF c
        <2> QED
              BY <1>2, <2>1, <2>2, ReadTurnKeepsClient, ReadTurnSends
  <1>4. ASSUME NEW m \in toClient, NEW n \in Nat, ReadTurn(Fetched(m), call, n)
        PROVE  ClientTyped' /\ ClientPlaced' /\ ClientSends
        <2>1. m.num \in Nat /\ m.data \in Seq(Nat) /\ call \in Calls
              BY <1>1 DEF Basics, NetTyped, Answers, ClientTyped
        <2>2. /\ Fetched(m) \in Infos /\ Fetched(m).mode = "read" /\ Fetched(m).off = 0
              /\ Fetched(m).blk = m.data
              BY <1>1, <1>2, <2>1, FetchedTyped DEF ClientTyped
        <2>3. Fetched(m).off <= Len(Fetched(m).blk)
              BY <2>1, <2>2
        <2> QED
              BY <1>2, <1>4, <2>1, <2>2, <2>3, ReadTurnKeepsClient, ReadTurnSends
  <1>5. ASSUME pc = "reading", Again(Ack(info)), got' = got
        PROVE  ClientTyped' /\ ClientPlaced' /\ ClientSends
        BY <1>2, <1>5, AgainKeepsClient, AgainSends
  <1> QED
        BY <1>3, <1>4, <1>5, ReadSteps

LEMMA WriteKeepsClient ==
    ASSUME Basics, (\E len \in Lengths : Write(len)) \/ WriteAnswered \/ WriteTimesOut
    PROVE  ClientTyped' /\ ClientPlaced' /\ ClientSends
  <1>1. ClientTyped /\ ClientPlaced /\ peer # Port69
        BY WriteSteps DEF Basics
  <1>2. /\ pc \in {"idle", "writing", "closing"} /\ info.mode = "write"
        /\ UNCHANGED <<peer, got>>
        BY WriteSteps
  <1>3. info \in Infos /\ info.off = 0 /\ Len(info.blk) \in Nat
        BY <1>1, <1>2 DEF ClientTyped, Infos
  <1>4. ASSUME NEW len \in Lengths, NEW q \in Seq(Nat), pc = "idle",
               WriteTurn(info, [retries |-> 0, left |-> len, copied |-> 0, len |-> len], q)
        PROVE  ClientTyped' /\ ClientPlaced' /\ ClientSends
        <2> DEFINE c == [retries |-> 0, left |-> len, copied |-> 0, len |-> len]
        <2>1. c \in Calls
              BY TftpAssumption DEF Calls
        <2>2. WriteTurn(info, c, q)
              BY <1>4
        <2> HIDE DEF c
        <2> QED
              BY <1>2, <1>3, <1>4, <2>1, <2>2, WriteTurnKeepsClient, WriteTurnSends
  <1>5. ASSUME NEW q \in Seq(Nat), pc = "writing", WriteTurn(Emptied(Sent), call, q)
        PROVE  ClientTyped' /\ ClientPlaced' /\ ClientSends
        <2>1. Emptied(Sent) \in Infos /\ Emptied(Sent).mode = "write" /\ Emptied(Sent).off = 0
              BY <1>2, <1>3, SentTyped
        <2>2. call \in Calls
              BY <1>1 DEF ClientTyped
        <2> QED
              BY <1>2, <1>5, <2>1, <2>2, WriteTurnKeepsClient, WriteTurnSends
  <1>6. ASSUME pc \in {"writing", "closing"}, Again(Data(info)), put' = put
        PROVE  ClientTyped' /\ ClientPlaced' /\ ClientSends
        BY <1>2, <1>6, AgainKeepsClient, AgainSends
  <1>7. ASSUME pc \in {"writing", "closing"}, Return(call), UNCHANGED <<put, toServer>>,
               info' \in Infos, info'.mode = "write", info'.off = 0, info'.blk = info.blk
        PROVE  ClientTyped' /\ ClientPlaced' /\ ClientSends
        <2>1. [n |-> call.copied, len |-> call.len, nobuf |-> res.nobuf] \in Results
              BY <1>1 DEF ClientTyped, Calls, Results
        <2>2. pc' \in {"idle", "done"} /\ call' \in Calls /\ res' \in Results
              BY <1>7, <2>1, NoCallTyped DEF Return, End
        <2> QED
              BY <1>1, <1>2, <1>3, <1>7, <2>2
                 DEF ClientTyped, ClientPlaced, Places, ClientSends
  <1>8. Sent \in Infos /\ Sent.mode = "write" /\ Sent.off = 0 /\ Sent.blk = info.blk
        BY <1>2, <1>3, SentTyped
  <1>9. ASSUME info' = [info EXCEPT !.error = TRUE, !.lastblock = TRUE]
        PROVE  info' \in Infos /\ info'.mode = "write" /\ info'.off = 0 /\ info'.blk = info.blk
        <2> DEFINE yes == TRUE
        <2>1. yes \in BOOLEAN /\ info' = [info EXCEPT !.error = yes, !.lastblock = yes]
              BY <1>9
        <2> HIDE DEF yes
        <2> QED
              BY <1>2, <1>3, <2>1 DEF Infos
  <1>10. CASE /\ pc = "idle" /\ ~info.error /\ rx' = rx
              /\ \E len \in Lengths, q \in Seq(Nat) :
                    /\ Len(put) + len <= MaxWritten
                    /\ WriteTurn(info, [retries |-> 0, left |-> len, copied |-> 0, len |-> len], q)
         BY <1>4, <1>10
  <1>11. CASE /\ pc = "writing"
              /\ \E m \in toClient : /\ Recv(m) /\ Acked(m)
                                     /\ \E q \in Seq(Nat) : WriteTurn(Emptied(Sent), call, q)
         BY <1>5, <1>11
  <1>12. CASE pc = "closing" /\ info' = Sent /\ Return(call) /\ UNCHANGED <<put, toServer>>
         BY <1>7, <1>8, <1>12
  <1>13. CASE /\ pc \in {"writing", "closing"} /\ Return(call) /\ UNCHANGED <<put, toServer>>
              /\ info' = [info EXCEPT !.error = TRUE, !.lastblock = TRUE]
         BY <1>7, <1>9, <1>13
  <1>14. CASE pc \in {"writing", "closing"} /\ Again(Data(info)) /\ put' = put
         BY <1>6, <1>14
  <1> QED
        BY <1>10, <1>11, <1>12, <1>13, <1>14, WriteSteps

LEMMA OpenSends ==
    ASSUME Basics, (\E mode \in {"read", "write"} : Open(mode)) \/ OpenTimesOut \/ OpenAnswered
    PROVE  ClientSends
  <1>1. info \in Infos
        BY DEF Basics, ClientTyped
  <1>2. ASSUME NEW mode \in {"read", "write"}, Open(mode)
        PROVE  ClientSends
        <2>1. /\ pc = "closed" /\ peer' = peer
              /\ info' = [info EXCEPT !.mode = mode] /\ Send(Request(mode), "opening", NoCall)
              BY <1>2 DEF Open
        <2>2. toServer' = toServer \/ toServer' = toServer \cup {Request(mode)}
              BY <2>1, SendCases
        <2>3. info'.mode = mode
              BY <1>1, <2>1 DEF Infos
        <2> QED
              BY <2>1, <2>2, <2>3 DEF ClientSends, NewQuery
  <1>3. ASSUME OpenTimesOut
        PROVE  ClientSends
        <2> DEFINE d == [call EXCEPT !.retries = @ + 1]
        <2>1. /\ info' = info /\ peer' = peer /\ info.mode \in {"read", "write"}
              /\ Send(Request(info.mode), pc, d) \/ toServer' = toServer
              BY <1>1, <1>3 DEF OpenTimesOut, Basics, ClientPlaced, Infos, Modes
        <2> HIDE DEF d
        <2>2. toServer' = toServer \/ toServer' = toServer \cup {Request(info.mode)}
              BY <2>1, SendCases
        <2> QED
              BY <2>1, <2>2 DEF ClientSends, NewQuery
  <1>4. ASSUME OpenAnswered
        PROVE  ClientSends
        <2>1. /\ pc = "opening" /\ toServer' = toServer
              /\ \E m \in toClient :
                    \/ /\ info' = [info EXCEPT !.blknum = 1] /\ peer' = m.from
                    \/ /\ info' = [info EXCEPT !.blknum = m.num, !.blk = m.data,
                                               !.lastblock = IsLast(m.data)]
                       /\ peer' = m.from
                    \/ UNCHANGED <<info, peer>>
              BY <1>4 DEF OpenAnswered
        <2>2. info'.mode = info.mode
              BY <1>1, <2>1 DEF Infos
        <2>3. peer' = peer \/ peer' \in Session
              BY <2>1 DEF Basics, NetTyped, Answers
        <2> QED
              BY <2>1, <2>2, <2>3 DEF ClientSends
  <1> QED
        BY <1>2, <1>3, <1>4

LEMMA ClientKept ==
    ASSUME Basics, [Next]_vars
    PROVE  ClientTyped' /\ ClientPlaced' /\ ClientSends
  <1>1. ASSUME UNCHANGED client, toServer' = toServer
        PROVE  ClientTyped' /\ ClientPlaced' /\ ClientSends
        BY <1>1 DEF client, ClientTyped, ClientPlaced, Basics, ClientSends
  <1>2. ASSUME Close
        PROVE  ClientTyped' /\ ClientPlaced' /\ ClientSends
        <2>1. /\ pc = "idle" /\ UNCHANGED <<info, peer, got, put, call, res>>
              /\ \/ pc' = "done"
                 \/ pc' = "closing" /\ info.mode = "write"
              /\ \/ toServer' = toServer
                 \/ info.mode = "read" /\ \E m \in {Ack(info), Cancel} : toServer' = toServer \cup {m}
                 \/ info.mode = "write" /\ pc' = "closing" /\ toServer' = toServer \cup {Data(info)}
              <3>0. pc = "idle" /\ UNCHANGED <<info, peer, got, put>>
                    BY <1>2 DEF Close
              <3>1. CASE info.mode = "read"
                    <4>1. /\ pc' = "done" /\ UNCHANGED <<call, res>>
                          /\ \/ toServer' = toServer
                             \/ \E m \in {Ack(info), Cancel} : toServer' = toServer \cup {m}
                          BY <1>2, <3>1 DEF Close
                    <4> QED
                          BY <3>0, <3>1, <4>1
              <3>2. CASE info.mode = "write" /\ ~info.lastblock /\ ~info.error /\ Flush
                    BY <3>0, <3>2 DEF Flush
              <3>3. CASE info.mode = "write" /\ (info.lastblock \/ info.error)
                    BY <1>2, <3>0, <3>3 DEF Close
              <3> QED
                    BY <1>2, <3>1, <3>2, <3>3 DEF Close
        <2>2. peer # Port69
              BY <2>1 DEF Basics, ClientPlaced
        <2>3. ClientSends
              BY <2>1, <2>2 DEF ClientSends, NewQuery
        <2> QED
              BY <2>1, <2>3 DEF Basics, ClientTyped, ClientPlaced, Places, Waiting
  <1>3. CASE \E mode \in {"read", "write"} : Open(mode)
        BY <1>3, OpenKeepsClient, OpenSends
  <1>4. CASE \/ \E len \in Lengths : Read(len)
             \/ \E len \in Lengths : Write(len)
             \/ Client
        BY <1>4, OpenWaitKeepsClient, OpenSends, ReadKeepsClient, WriteKeepsClient DEF Client
  <1>5. CASE \/ UNCHANGED vars
             \/ \E m \in toClient : Deliver(m)
             \/ \E s \in Session : SrvRequest(s) \/ SrvAck(s) \/ SrvData(s) \/ SrvError(s)
        BY <1>1, <1>5 DEF vars, Deliver, SrvRequest, SrvAck, SrvData, SrvError
  <1> QED
        BY <1>2, <1>3, <1>4, <1>5 DEF Next

-----------------------------------------------------------------------------
\* The server answers m from session s: it takes a request, goes on with a block that has
\* been acknowledged, stores a block, or gives up.
Granted(s, m) ==
    /\ session[s].mode = "none" /\ session'[s].mode \in {"read", "write"}
    /\ \E q \in toServer : q.op = session'[s].mode
    /\ session'[s].next = 1 /\ session'[s].data = session[s].data
    /\ session'[s].closed = session[s].closed
    /\ session'[s].mode = "read" => m.op = "data" /\ m.num = 1 /\ m.data = Block(1)
    /\ session'[s].mode = "write" => m.op = "ack" /\ m.num = 0
Continued(s, m) ==
    /\ session[s].mode = "read" /\ session'[s].mode = "read"
    /\ \E q \in toServer : q.op = "ack" /\ q.to = s /\ q.num = session[s].next % NumBlocks
    /\ Len(Block(session[s].next)) = BlockSize
    /\ session'[s].next = session[s].next + 1 /\ session'[s].data = session[s].data
    /\ session'[s].closed = session[s].closed
    /\ m.op = "data" /\ m.num = (session[s].next + 1) % NumBlocks
    /\ m.data = Block(session[s].next + 1)
Stored(s, m) ==
    /\ session[s].mode = "write" /\ ~session[s].closed /\ session'[s].mode = "write"
    /\ \E q \in toServer :
          /\ q.op = "data" /\ q.to = s /\ q.num = session[s].next % NumBlocks
          /\ session'[s].data = session[s].data \o q.data
          /\ session'[s].closed = (Len(q.data) < BlockSize)
    /\ session'[s].next = session[s].next + 1
    /\ m.op = "ack" /\ m.num = session[s].next % NumBlocks
GivenUp(s, m) == session[s].mode # "none" /\ session' = session /\ m.op = "error"

ServerAnswers(s, m) ==
    /\ toClient' = toClient \cup {m} /\ m.from = s
    /\ UNCHANGED <<client, file, rx, toServer>>
    /\ session' \in [Session -> Sessions]
    /\ \A t \in Session : t # s => session'[t] = session[t]
    /\ Granted(s, m) \/ Continued(s, m) \/ Stored(s, m) \/ GivenUp(s, m)

LEMMA ServerSteps ==
    ASSUME Basics, [Next]_vars
    PROVE  \/ UNCHANGED <<file, session, toClient>>
           \/ \E s \in Session, m \in Answers : ServerAnswers(s, m)
  <1>0. /\ file \in Seq(Nat) /\ session \in [Session -> Sessions]
        /\ \A s \in Session : session[s] \in Sessions /\ session[s].next \in Nat
        BY DEF Basics, ServerTyped, Sessions
  <1> DEFINE Is(s, op, num, data) == [op |-> op, from |-> s, num |-> num % NumBlocks, data |-> data]
  <1>1. ASSUME NEW s \in Session, NEW op \in {"data", "ack", "error"}, NEW num \in Nat,
               NEW data \in Seq(Nat), Answer(s, op, num, data)
        PROVE  \E m \in Answers : /\ toClient' = toClient \cup {m} /\ m.from = s /\ m.op = op
                                  /\ m.num = num % NumBlocks /\ m.data = data
        <2> DEFINE m == Is(s, op, num, data)
        <2>1. num % NumBlocks \in Nat
              OBVIOUS
        <2>2. m \in Answers /\ m.from = s /\ m.op = op /\ m.num = num % NumBlocks /\ m.data = data
              BY <2>1 DEF Answers
        <2>3. toClient' = toClient \cup {m}
              BY <1>1 DEF Answer
        <2> HIDE DEF m
        <2> QED
              BY <2>2, <2>3
  <1>2. ASSUME NEW s \in Session, SrvRequest(s)
        PROVE  \E m \in Answers : ServerAnswers(s, m)
        <2>1. PICK q \in toServer :
                 \/ /\ q.op = "read"
                    /\ session' = [session EXCEPT ![s].mode = "read", ![s].next = 1]
                    /\ Answer(s, "data", 1, Block(1))
                 \/ /\ q.op = "write"
                    /\ session' = [session EXCEPT ![s].mode = "write", ![s].next = 1]
                    /\ Answer(s, "ack", 0, <<>>)
              BY <1>2 DEF SrvRequest
        <2>2. UNCHANGED <<client, file, rx, toServer>> /\ session[s].mode = "none"
              BY <1>2 DEF SrvRequest
        <2>3. ASSUME NEW mode \in {"read", "write"},
                     session' = [session EXCEPT ![s].mode = mode, ![s].next = 1]
              PROVE  /\ session' \in [Session -> Sessions]
                     /\ \A t \in Session : t # s => session'[t] = session[t]
                     /\ session'[s].mode = mode /\ session'[s].next = 1
                     /\ session'[s].data = session[s].data
                     /\ session'[s].closed = session[s].closed
              <3> DEFINE one == 1
              <3>1. one \in Nat /\ session' = [session EXCEPT ![s].mode = mode, ![s].next = one]
                    BY <2>3
              <3> HIDE DEF one
              <3>2. /\ session' \in [Session -> Sessions]
                    /\ \A t \in Session : t # s => session'[t] = session[t]
                    /\ session'[s].mode = mode /\ session'[s].next = one
                    /\ session'[s].data = session[s].data
                    /\ session'[s].closed = session[s].closed
                    BY <1>0, <3>1 DEF Sessions, Modes
              <3> QED
                    BY <3>2 DEF one
        <2>4. /\ Block(1) \in Seq(Nat) /\ <<>> \in Seq(Nat) /\ 0 \in Nat /\ 1 \in Nat
              /\ 1 % NumBlocks = 1 /\ 0 % NumBlocks = 0
              <3>1. 1 \in Nat \ {0} /\ <<>> \in Seq(Nat)
                    OBVIOUS
              <3>2. Block(1) \in Seq(Nat)
                    BY <1>0, <3>1, PieceTyped, BlockIsPiece
              <3>3. 1 % NumBlocks = 1 /\ 0 % NumBlocks = 0
                    OBVIOUS
              <3> QED
                    BY <3>1, <3>2, <3>3
        <2>5. CASE /\ q.op = "read"
                   /\ session' = [session EXCEPT ![s].mode = "read", ![s].next = 1]
                   /\ Answer(s, "data", 1, Block(1))
              <3>1. PICK m \in Answers : /\ toClient' = toClient \cup {m} /\ m.from = s /\ m.op = "data"
                                         /\ m.num = 1 % NumBlocks /\ m.data = Block(1)
                    BY <1>1, <2>4, <2>5
              <3>2. /\ session' \in [Session -> Sessions]
                    /\ \A t \in Session : t # s => session'[t] = session[t]
                    /\ session'[s].mode = "read" /\ session'[s].next = 1
                    /\ session'[s].data = session[s].data
                    /\ session'[s].closed = session[s].closed
                    BY <2>3, <2>5
              <3>3. Granted(s, m)
                    BY <2>2, <2>4, <2>5, <3>1, <3>2 DEF Granted
              <3> QED
                    BY <2>2, <3>1, <3>2, <3>3 DEF ServerAnswers
        <2>6. CASE /\ q.op = "write"
                   /\ session' = [session EXCEPT ![s].mode = "write", ![s].next = 1]
                   /\ Answer(s, "ack", 0, <<>>)
              <3>1. PICK m \in Answers : /\ toClient' = toClient \cup {m} /\ m.from = s /\ m.op = "ack"
                                         /\ m.num = 0 % NumBlocks
                    <4> DEFINE e == <<>>
                               z == 0
                    <4>1. e \in Seq(Nat) /\ z \in Nat /\ Answer(s, "ack", z, e)
                          BY <2>4, <2>6
                    <4> HIDE DEF e, z
                    <4>2. \E m \in Answers : /\ toClient' = toClient \cup {m} /\ m.from = s
                                             /\ m.op = "ack" /\ m.num = z % NumBlocks
                          BY <1>1, <4>1
                    <4> QED
                          BY <4>2 DEF z
              <3>2. /\ session' \in [Session -> Sessions]
                    /\ \A t \in Session : t # s => session'[t] = session[t]
                    /\ session'[s].mode = "write" /\ session'[s].next = 1
                    /\ session'[s].data = session[s].data
                    /\ session'[s].closed = session[s].closed
                    BY <2>3, <2>6
              <3>3. Granted(s, m)
                    BY <2>2, <2>4, <2>6, <3>1, <3>2 DEF Granted
              <3> QED
                    BY <2>2, <3>1, <3>2, <3>3 DEF ServerAnswers
        <2> QED
              BY <2>1, <2>5, <2>6
  <1>3. ASSUME NEW s \in Session, SrvAck(s)
        PROVE  \E m \in Answers : ServerAnswers(s, m)
        <2> DEFINE k == session[s].next + 1
        <2>1. /\ UNCHANGED <<client, file, rx, toServer>>
              /\ session' = [session EXCEPT ![s].next = k]
              /\ Answer(s, "data", k, Block(k))
              /\ session[s].mode = "read" /\ Len(Block(session[s].next)) = BlockSize
              BY <1>3 DEF SrvAck
        <2>2. k \in Nat \ {0}
              BY <1>0
        <2>3. Block(k) \in Seq(Nat)
              BY <1>0, <2>2, PieceTyped, BlockIsPiece
        <2>4. PICK m \in Answers : /\ toClient' = toClient \cup {m} /\ m.from = s /\ m.op = "data"
                                   /\ m.num = k % NumBlocks /\ m.data = Block(k)
              <3> HIDE DEF k
              <3> QED
                  BY <1>1, <2>1, <2>2, <2>3
        <2>5. /\ session' \in [Session -> Sessions]
              /\ \A t \in Session : t # s => session'[t] = session[t]
              /\ session'[s].mode = session[s].mode /\ session'[s].next = k
              /\ session'[s].data = session[s].data
              /\ session'[s].closed = session[s].closed
              <3> HIDE DEF k
              <3> QED
                  BY <1>0, <2>1, <2>2 DEF Sessions
        <2>6. \E q \in toServer : q.op = "ack" /\ q.to = s /\ q.num = session[s].next % NumBlocks
              <3> DEFINE q == [op |-> "ack", to |-> s, num |-> session[s].next % NumBlocks, data |-> <<>>]
              <3>1. q \in toServer
                    BY <1>3 DEF SrvAck
              <3>2. q.op = "ack" /\ q.to = s /\ q.num = session[s].next % NumBlocks
                    OBVIOUS
              <3> HIDE DEF q
              <3> QED
                    BY <3>1, <3>2
        <2>7. Continued(s, m)
              BY <2>1, <2>4, <2>5, <2>6 DEF Continued
        <2> QED
              BY <2>1, <2>4, <2>5, <2>7 DEF ServerAnswers
  <1>4. ASSUME NEW s \in Session, SrvData(s)
        PROVE  \E m \in Answers : ServerAnswers(s, m)
        <2>1. PICK q \in toServer :
                 /\ q.op = "data" /\ q.to = s /\ q.num = session[s].next % NumBlocks
                 /\ session' = [session EXCEPT ![s].data = @ \o q.data, ![s].next = @ + 1,
                                               ![s].closed = Len(q.data) < BlockSize]
              BY <1>4 DEF SrvData
        <2>2. /\ UNCHANGED <<client, file, rx, toServer>> /\ Answer(s, "ack", session[s].next, <<>>)
              /\ session[s].mode = "write" /\ ~session[s].closed
              BY <1>4 DEF SrvData
        <2> DEFINE d == session[s].data \o q.data
                   k == session[s].next + 1
                   closed == Len(q.data) < BlockSize
        <2>3. d \in Seq(Nat) /\ k \in Nat /\ closed \in BOOLEAN
              <3>1. session[s].data \in Seq(Nat) /\ q.data \in Seq(Nat)
                    BY <1>0 DEF Sessions, Basics, NetTyped, Queries
              <3> QED
                    BY <1>0, <3>1, ConcatProperties
        <2>4. session' = [session EXCEPT ![s].data = d, ![s].next = k, ![s].closed = closed]
              BY <2>1
        <2>5. /\ session' \in [Session -> Sessions]
              /\ \A t \in Session : t # s => session'[t] = session[t]
              /\ session'[s].mode = session[s].mode /\ session'[s].next = k
              /\ session'[s].data = d /\ session'[s].closed = closed
              <3> HIDE DEF d, k, closed
              <3> QED
                  BY <1>0, <2>3, <2>4 DEF Sessions
        <2>6. <<>> \in Seq(Nat) /\ session[s].next \in Nat
              BY <1>0
        <2>7. PICK m \in Answers : /\ toClient' = toClient \cup {m} /\ m.from = s /\ m.op = "ack"
                                   /\ m.num = session[s].next % NumBlocks
              <3> DEFINE e == <<>>
              <3>1. e \in Seq(Nat) /\ Answer(s, "ack", session[s].next, e)
                    BY <2>2, <2>6
              <3> HIDE DEF e
              <3> QED
                    BY <1>1, <2>6, <3>1
        <2>8. Stored(s, m)
              BY <2>1, <2>2, <2>5, <2>7 DEF Stored
        <2> QED
              BY <2>2, <2>5, <2>7, <2>8 DEF ServerAnswers
  <1>5. ASSUME NEW s \in Session, SrvError(s)
        PROVE  \E m \in Answers : ServerAnswers(s, m)
        <2>1. <<>> \in Seq(Nat) /\ 0 \in Nat
              OBVIOUS
        <2>2. UNCHANGED <<client, file, rx, toServer>> /\ session' = session
              /\ Answer(s, "error", 0, <<>>) /\ session[s].mode # "none"
              BY <1>5 DEF SrvError, server
        <2>3. PICK m \in Answers : toClient' = toClient \cup {m} /\ m.from = s /\ m.op = "error"
              <3> DEFINE e == <<>>
                         z == 0
              <3>1. e \in Seq(Nat) /\ z \in Nat /\ Answer(s, "error", z, e)
                    BY <2>1, <2>2
              <3> HIDE DEF e, z
              <3> QED
                    BY <1>1, <3>1
        <2> QED
              BY <1>0, <2>2, <2>3 DEF ServerAnswers, GivenUp
  <1>6. CASE \E s \in Session : SrvRequest(s) \/ SrvAck(s) \/ SrvData(s) \/ SrvError(s)
        BY <1>2, <1>3, <1>4, <1>5, <1>6
  <1>7. CASE \/ UNCHANGED vars
             \/ \E mode \in {"read", "write"} : Open(mode)
             \/ \E len \in Lengths : Read(len)
             \/ \E len \in Lengths : Write(len)
             \/ Close \/ Client
             \/ \E m \in toClient : Deliver(m)
        BY <1>7 DEF vars, server, Open, Read, Write, Close, Deliver, Client, OpenTimesOut, OpenAnswered,
                    ReadAnswered, ReadTimesOut, WriteAnswered, WriteTimesOut
  <1> QED
        BY <1>6, <1>7 DEF Next

LEMMA QueueSteps ==
    ASSUME Basics, [Next]_vars
    PROVE  \/ rx' = rx
           \/ rx # <<>> /\ rx' = Tail(rx) /\ toClient' = toClient
           \/ \E m \in toClient : rx' = Append(rx, m) /\ toClient' = toClient
  <1>1. ASSUME Recv(Head(rx)) \/ TimedOut, toClient' = toClient
        PROVE  rx' = rx \/ (rx # <<>> /\ rx' = Tail(rx) /\ toClient' = toClient)
        BY <1>1 DEF Recv, TimedOut
  <1>2. CASE Client
        <2>1. toClient' = toClient /\ (TimedOut \/ \E m \in toClient : Recv(m))
              BY <1>2 DEF Client, OpenTimesOut, OpenAnswered, ReadAnswered, ReadTimesOut,
                          WriteAnswered, WriteTimesOut
        <2> QED
              BY <2>1 DEF Recv, TimedOut
  <1>3. CASE \/ UNCHANGED vars
             \/ \E mode \in {"read", "write"} : Open(mode)
             \/ \E len \in Lengths : Read(len)
             \/ \E len \in Lengths : Write(len)
             \/ Close
             \/ \E s \in Session : SrvRequest(s) \/ SrvAck(s) \/ SrvData(s) \/ SrvError(s)
        BY <1>3 DEF vars, Open, Read, Write, Close, SrvRequest, SrvAck, SrvData, SrvError
  <1>4. CASE \E m \in toClient : Deliver(m)
        BY <1>4 DEF Deliver
  <1> QED
        BY <1>2, <1>3, <1>4 DEF Next

LEMMA NetKept ==
    ASSUME Basics, [Next]_vars
    PROVE  NetTyped' /\ ServerTyped' /\ AskedInMode'
  <1>1. /\ toServer \subseteq Queries /\ toClient \subseteq Answers /\ rx \in Seq(toClient)
        /\ file \in Seq(Nat) /\ session \in [Session -> Sessions]
        BY DEF Basics, NetTyped, ServerTyped
  <1>2. ClientTyped' /\ ClientPlaced' /\ ClientSends
        BY ClientKept
  <1>3. ASSUME NEW m, NewQuery(m)
        PROVE  m \in Queries
        <2>1. info' \in Infos /\ peer \in Session \cup {Port69} /\ <<>> \in Seq(Nat) /\ 0 \in Nat
              BY <1>2 DEF ClientTyped, Basics
        <2>2. info'.blknum \in Nat /\ info'.blk \in Seq(Nat)
              BY <2>1 DEF Infos
        <2> QED
              <3>1. CASE m = Request(info'.mode) /\ info'.mode \in {"read", "write"}
                    BY <2>1, <3>1 DEF Request, Queries
              <3>2. CASE m = Ack(info')
                    BY <2>1, <2>2, <3>2 DEF Ack, Queries
              <3>4. CASE m = Cancel
                    BY <2>1, <3>4 DEF Cancel, Queries
              <3>3. CASE m = Data(info')
                    BY <2>1, <2>2, <3>3 DEF Data, Queries
              <3> QED
                    BY <1>3, <3>1, <3>2, <3>3, <3>4 DEF NewQuery
  <1>4. toServer' \subseteq Queries
        BY <1>1, <1>2, <1>3 DEF ClientSends
  <1>5. /\ toClient' \subseteq Answers /\ toClient \subseteq toClient'
        /\ file' \in Seq(Nat) /\ session' \in [Session -> Sessions]
        <2>1. CASE UNCHANGED <<file, session, toClient>>
              BY <1>1, <2>1
        <2>2. CASE \E s \in Session, m \in Answers : ServerAnswers(s, m)
              BY <1>1, <2>2 DEF ServerAnswers
        <2> QED
              BY <2>1, <2>2, ServerSteps
  <1>6. rx' \in Seq(toClient')
        <2>1. CASE rx' = rx
              BY <1>1, <1>5, <2>1, SeqMonotonic
        <2>2. CASE rx # <<>> /\ rx' = Tail(rx) /\ toClient' = toClient
              BY <1>1, <2>2, HeadTailProperties
        <2>3. CASE \E m \in toClient : rx' = Append(rx, m) /\ toClient' = toClient
              BY <1>1, <2>3, AppendProperties
        <2> QED
              BY <2>1, <2>2, <2>3, QueueSteps
  <1>7. AskedInMode'
        <2> SUFFICES ASSUME NEW m \in toServer'
                     PROVE  /\ m.op \in {"read", "write"} => m.op = info'.mode
                            /\ m.op = "ack" => info'.mode = "read"
                            /\ m.op = "data" => info'.mode = "write"
                            /\ m.to \in {Port69, peer'}
              BY DEF AskedInMode
        <2>1. CASE m \in toServer
              <3>1. /\ m.op \in {"read", "write"} => m.op = info.mode
                    /\ m.op = "ack" => info.mode = "read"
                    /\ m.op = "data" => info.mode = "write"
                    /\ m.to \in {Port69, peer}
                    BY <2>1 DEF Basics, AskedInMode
              <3>2. pc = "closed" => info.mode = "none"
                    BY DEF Basics, ClientPlaced
              <3>3. peer' = peer \/ peer = Port69
                    BY <1>2 DEF ClientSends, Basics, ClientPlaced
              <3> QED
                    BY <1>2, <3>1, <3>2, <3>3 DEF ClientSends
        <2>2. CASE m \notin toServer
              <3>1. NewQuery(m) /\ peer' = peer
                    BY <1>2, <2>2 DEF ClientSends
              <3> QED
                    BY <3>1 DEF NewQuery, Request, Ack, Data, Cancel
        <2> QED
              BY <2>1, <2>2
  <1> QED
        BY <1>4, <1>5, <1>6, <1>7 DEF NetTyped, ServerTyped

LEMMA AnsweredKept ==
    ASSUME Basics, [Next]_vars
    PROVE  AnsweredInMode'
  <1>1. /\ session \in [Session -> Sessions] /\ toClient \subseteq Answers
        /\ toServer \subseteq Queries
        BY DEF Basics, NetTyped, ServerTyped
  <1>2. /\ \A m \in toClient : /\ m.op = "data" => info.mode = "read"
                               /\ m.op = "ack" => info.mode = "write"
                               /\ session[m.from].mode # "none"
        /\ \A s \in Session : session[s].mode # "none" => session[s].mode = info.mode
        BY DEF Basics, AnsweredInMode
  <1>3. \A m \in toServer : m.op \in {"read", "write"} => m.op = info.mode
        BY DEF Basics, AskedInMode
  <1>4. ClientSends /\ (pc = "closed" => info.mode = "none")
        BY ClientKept DEF Basics, ClientPlaced
  <1>5. CASE UNCHANGED <<file, session, toClient>>
        <2>1. CASE info'.mode = info.mode
              BY <1>2, <1>5, <2>1 DEF AnsweredInMode
        <2>2. CASE info'.mode # info.mode
              <3>1. info.mode = "none"
                    BY <1>4, <2>2 DEF ClientSends
              <3>2. \A m \in toClient : session[m.from].mode = "none"
                    BY <1>1, <1>2, <3>1 DEF Answers
              <3> QED
                    BY <1>2, <1>5, <3>1, <3>2 DEF AnsweredInMode
        <2> QED
              BY <2>1, <2>2
  <1>6. ASSUME NEW s \in Session, NEW m \in Answers, ServerAnswers(s, m)
        PROVE  AnsweredInMode'
        <2>1. /\ info' = info /\ toClient' = toClient \cup {m} /\ m.from = s
              /\ \A t \in Session : t # s => session'[t] = session[t]
              BY <1>6 DEF ServerAnswers, client
        <2>2. /\ session'[s].mode # "none" /\ session'[s].mode = info.mode
              /\ m.op = "data" => info.mode = "read"
              /\ m.op = "ack" => info.mode = "write"
              <3>1. CASE Granted(s, m)
                    BY <1>3, <3>1 DEF Granted
              <3>2. CASE Continued(s, m)
                    BY <1>2, <3>2 DEF Continued
              <3>3. CASE Stored(s, m)
                    BY <1>2, <3>3 DEF Stored
              <3>4. CASE GivenUp(s, m)
                    BY <1>2, <3>4 DEF GivenUp
              <3> QED
                    BY <1>6, <3>1, <3>2, <3>3, <3>4 DEF ServerAnswers
        <2>3. \A t \in Session : session'[t].mode # "none" => session'[t].mode = info'.mode
              BY <1>2, <2>1, <2>2
        <2>4. ASSUME NEW l \in toClient'
              PROVE  /\ l.op = "data" => info'.mode = "read"
                     /\ l.op = "ack" => info'.mode = "write"
                     /\ session'[l.from].mode # "none"
              <3>1. CASE l = m
                    BY <2>1, <2>2, <3>1
              <3>2. CASE l \in toClient
                    BY <1>1, <1>2, <2>1, <2>2, <3>2 DEF Answers
              <3> QED
                    BY <2>1, <3>1, <3>2
        <2> QED
              BY <2>3, <2>4 DEF AnsweredInMode
  <1> QED
        BY <1>5, <1>6, ServerSteps

\* The types and the modes are kept by every step.
THEOREM TftpTyped == Spec => []Basics
  <1>1. Init => Basics
        <2> SUFFICES ASSUME Init
                     PROVE  Basics
              OBVIOUS
        <2>1. file \in Seq(Nat)
              <3>1. PICK n \in FileSizes : file = Bytes(n)
                    BY DEF Init
              <3>2. n \in Nat
                    BY <3>1, TftpAssumption
              <3>3. Bytes(n) \in [1..n -> Nat]
                    BY <3>2 DEF Bytes
              <3> QED
                    BY <3>1, <3>2, <3>3
        <2>2. <<>> \in Seq(Nat) /\ Len(<<>>) = 0 /\ <<>> \in Seq(toClient)
              OBVIOUS
        <2>3. info \in Infos /\ info.mode = "none" /\ info.off = 0 /\ info.blk = <<>> /\ ~info.lastblock
              BY <2>2 DEF Init, Infos, Modes
        <2>4. call \in Calls /\ res \in Results
              BY NoCallTyped DEF Init, Results
        <2>5. session \in [Session -> Sessions] /\ \A s \in Session : session[s].mode = "none"
              BY <2>2 DEF Init, Idle, Sessions, Modes
        <2>6. ClientTyped
              BY <2>2, <2>3, <2>4 DEF Init, ClientTyped, Places
        <2>7. ClientPlaced
              BY <2>3 DEF Init, ClientPlaced
        <2> QED
              BY <2>1, <2>2, <2>5, <2>6, <2>7
                 DEF Init, Basics, NetTyped, ServerTyped, AskedInMode, AnsweredInMode
  <1>2. Basics /\ [Next]_vars => Basics'
        BY ClientKept, NetKept, AnsweredKept DEF Basics
  <1> QED
        BY <1>1, <1>2, PTL DEF Spec

-----------------------------------------------------------------------------
(* The sessions *)

\* A session that is not the one the client talks to is as it was granted.
SessionsKeptApart ==
    \A s \in Session :
        /\ session[s].mode = "none" => session[s].next = 0
        /\ session[s].mode # "none" => session[s].next >= 1
        /\ session[s].mode # "write" \/ s # peer => session[s].data = <<>> /\ ~session[s].closed
        /\ s # peer => session[s].next <= 1

\* The peer is chosen once.
LEMMA PeerChosen ==
    ASSUME Basics, [Next]_vars
    PROVE  peer' = peer \/ (peer = Port69 /\ peer' \in Session /\ toServer' = toServer)
  BY ClientKept DEF ClientSends, Basics, ClientPlaced

LEMMA SessionsKeptApartKept ==
    ASSUME Basics, SessionsKeptApart, [Next]_vars
    PROVE  SessionsKeptApart'
  <1>0. Port69 \notin Session /\ session \in [Session -> Sessions] /\ toServer \subseteq Queries
        BY TftpAssumption DEF Basics, NetTyped, ServerTyped
  <1>1. CASE UNCHANGED <<file, session, toClient>>
        BY <1>0, <1>1, PeerChosen DEF SessionsKeptApart
  <1>2. ASSUME NEW s \in Session, NEW m \in Answers, ServerAnswers(s, m)
        PROVE  SessionsKeptApart'
        <2>1. peer' = peer /\ \A t \in Session : t # s => session'[t] = session[t]
              BY <1>2 DEF ServerAnswers, client
        <2>2. session[s].next \in Nat
              BY <1>0 DEF Sessions
        <2>3. /\ session'[s].mode = "none" => session'[s].next = 0
              /\ session'[s].mode # "none" => session'[s].next >= 1
              /\ session'[s].mode # "write" \/ s # peer =>
                    session'[s].data = <<>> /\ ~session'[s].closed
              /\ s # peer => session'[s].next <= 1
              <3>1. CASE Granted(s, m)
                    BY <3>1 DEF Granted, SessionsKeptApart
              <3>2. CASE Continued(s, m)
                    <4>1. s = peer
                          BY <1>0, <3>2 DEF Continued, Basics, AskedInMode
                    <4> QED
                          BY <2>2, <3>2, <4>1 DEF Continued, SessionsKeptApart
              <3>3. CASE Stored(s, m)
                    <4>1. s = peer
                          BY <1>0, <3>3 DEF Stored, Basics, AskedInMode
                    <4> QED
                          BY <2>2, <3>3, <4>1 DEF Stored, SessionsKeptApart
              <3>4. CASE GivenUp(s, m)
                    BY <3>4 DEF GivenUp, SessionsKeptApart
              <3> QED
                    BY <1>2, <3>1, <3>2, <3>3, <3>4 DEF ServerAnswers
        <2> QED
              BY <2>1, <2>3 DEF SessionsKeptApart
  <1> QED
        BY <1>1, <1>2, ServerSteps

-----------------------------------------------------------------------------
(* A file that is read *)

\* m carries block k of the file.
Carries(m, k) == m.num = k % NumBlocks /\ m.data = Block(k) /\ Before(k) <= Len(file)

\* The server sends blocks of the file, each session in its order.
BlocksSent ==
    /\ \A m \in toClient : m.op = "data" => \E k \in 1..session[m.from].next : Carries(m, k)
    /\ \A s \in Session : session[s].mode = "read" =>
          session[s].next <= NumBlocks /\ Before(session[s].next) <= Len(file)

AcksNumbered == \A m \in toServer : m.op = "ack" => m.num \in 1 .. NumBlocks - 1

\* The record i of a read holds a block of the file, and p is the file up to where it is.
HoldsBlock(i, p) ==
    /\ i.blknum \in 1 .. NumBlocks - 1 /\ Before(i.blknum) <= Len(file)
    /\ i.blk = Block(i.blknum) /\ (i.lastblock <=> IsLast(i.blk))
    /\ i.off <= Len(i.blk) /\ IsFront(p, file, Before(i.blknum) + i.off)

ClientReads ==
    /\ info.mode # "read" \/ peer = Port69 => got = <<>>
    /\ info.mode = "read" /\ peer # Port69 => HoldsBlock(info, got)
    /\ pc = "reading" => info.off = Len(info.blk) /\ ~info.lastblock

ReadInv == SessionsKeptApart /\ BlocksSent /\ AcksNumbered /\ ClientReads

LEMMA FileFixed == ASSUME Basics, [Next]_vars PROVE file' = file
  BY ServerSteps DEF ServerAnswers

LEMMA BlocksSentKept ==
    ASSUME Basics, ReadInv, [Next]_vars
    PROVE  BlocksSent'
  <1>0. /\ session \in [Session -> Sessions] /\ toServer \subseteq Queries /\ toClient \subseteq Answers
        /\ file' = file /\ file \in Seq(Nat)
        BY FileFixed DEF Basics, NetTyped, ServerTyped
  <1>1. CASE UNCHANGED <<file, session, toClient>>
        BY <1>1 DEF ReadInv, BlocksSent, Carries, Block
  <1>2. ASSUME NEW s \in Session, NEW m \in Answers, ServerAnswers(s, m)
        PROVE  BlocksSent'
        <2>1. /\ toClient' = toClient \cup {m} /\ m.from = s
              /\ \A t \in Session : t # s => session'[t] = session[t]
              BY <1>2 DEF ServerAnswers
        <2> DEFINE n == session[s].next
                   l == session'[s].next
        <2>2. n \in Nat /\ NumBlocks \in Nat
              BY <1>0 DEF Sessions
        <2>3. \A k : Carries(m, k)' <=> Carries(m, k)
              BY <1>0 DEF Carries, Block
        <2>4. /\ l \in Nat /\ n <= l
              /\ m.op = "data" => l >= 1 /\ Carries(m, l)
              /\ session'[s].mode = "read" => l <= NumBlocks /\ Before(l) <= Len(file)
              <3>1. CASE Granted(s, m)
                    <4>1. 1 % NumBlocks = 1 /\ Before(1) = 0
                          BY BeforeFacts
                    <4>2. n = 0 /\ l = 1 /\ 0 <= Len(file)
                          BY <1>0, <3>1 DEF Granted, ReadInv, SessionsKeptApart
                    <4>3. m.op = "data" => m.num = 1 /\ m.data = Block(1)
                          BY <3>1 DEF Granted
                    <4> QED
                          BY <4>1, <4>2, <4>3 DEF Carries
              <3>2. CASE Continued(s, m)
                    <4>1. PICK q \in toServer : q.op = "ack" /\ q.to = s /\ q.num = n % NumBlocks
                          BY <3>2 DEF Continued
                    <4>2. n >= 1 /\ n <= NumBlocks /\ Before(n) <= Len(file) /\ l = n + 1
                          /\ Len(Block(n)) = BlockSize
                          BY <3>2 DEF Continued, ReadInv, SessionsKeptApart, BlocksSent
                    <4>3. n % NumBlocks # 0
                          BY <4>1 DEF ReadInv, AcksNumbered
                    <4>4. n # NumBlocks
                          <5>1. NumBlocks % NumBlocks = 0
                                OBVIOUS
                          <5> QED
                                BY <4>3, <5>1
                    <4>5. n \in Nat \ {0} /\ l <= NumBlocks
                          BY <2>2, <4>2, <4>4
                    <4>6. Before(n) + BlockSize <= Len(file)
                          <5>1. Len(Piece(file, n)) = BlockSize
                                BY <4>2, BlockIsPiece
                          <5>2. Len(Piece(file, n)) = IF Before(n) + BlockSize <= Len(file)
                                                      THEN BlockSize ELSE Len(file) - Before(n)
                                BY <1>0, <4>2, <4>5, PieceFacts
                          <5>3. Before(n) \in Nat
                                BY <4>5, BeforeFacts
                          <5>4. Len(file) \in Nat
                                BY <1>0
                          <5> QED
                                BY <4>2, <5>1, <5>2, <5>3, <5>4
                    <4>7. Before(l) <= Len(file)
                          BY <4>2, <4>5, <4>6, BeforeFacts
                    <4>8. Carries(m, l)
                          BY <3>2, <4>2, <4>7 DEF Continued, Carries
                    <4> QED
                          BY <2>2, <4>2, <4>5, <4>7, <4>8
              <3>3. CASE Stored(s, m)
                    BY <2>2, <3>3 DEF Stored
              <3>4. CASE GivenUp(s, m)
                    BY <2>2, <3>4 DEF GivenUp, ReadInv, BlocksSent
              <3> QED
                    BY <1>2, <3>1, <3>2, <3>3, <3>4 DEF ServerAnswers
        <2> HIDE DEF n, l
        <2>5. ASSUME NEW q \in toClient', q.op = "data"
              PROVE  \E k \in 1..session'[q.from].next : Carries(q, k)'
              <3>1. CASE q = m
                    <4>1. PICK k \in Nat : k = l /\ k >= 1 /\ Carries(m, k)
                          BY <2>4, <2>5, <3>1
                    <4>2. k \in 1..session'[m.from].next
                          BY <2>1, <2>4, <4>1 DEF l
                    <4>3. Carries(m, k)'
                          BY <2>3, <4>1
                    <4> QED
                          BY <3>1, <4>2, <4>3
              <3>2. CASE q \in toClient
                    <4>1. PICK k \in 1..session[q.from].next : Carries(q, k)
                          BY <2>5, <3>2 DEF ReadInv, BlocksSent
                    <4>2. Carries(q, k)'
                          BY <1>0, <4>1 DEF Carries, Block
                    <4>3. k \in 1..session'[q.from].next
                          <5>1. CASE q.from = s
                                BY <2>2, <2>4, <4>1, <5>1 DEF n, l
                          <5>2. CASE q.from # s
                                BY <1>0, <2>1, <3>2, <4>1, <5>2 DEF Answers
                          <5> QED
                                BY <5>1, <5>2
                    <4> QED
                          BY <4>2, <4>3
              <3> QED
                    BY <2>1, <3>1, <3>2
        <2>6. ASSUME NEW t \in Session, session'[t].mode = "read"
              PROVE  session'[t].next <= NumBlocks /\ Before(session'[t].next) <= Len(file')
              <3>1. CASE t = s
                    BY <1>0, <2>4, <2>6, <3>1 DEF l
              <3>2. CASE t # s
                    BY <1>0, <2>1, <2>6, <3>2 DEF ReadInv, BlocksSent
              <3> QED
                    BY <3>1, <3>2
        <2> QED
              BY <2>5, <2>6 DEF BlocksSent
  <1> QED
        BY <1>1, <1>2, ServerSteps

\* Another place in a file that is read, or the same.
LEMMA ReadTurnReads ==
    ASSUME Basics, NEW i, i \in Infos, NEW c, NEW n \in Nat, ReadTurn(i, c, n),
           i.mode = "read", HoldsBlock(i, got), file' = file, peer' = peer, peer # Port69
    PROVE  ClientReads'
  <1>0. /\ i.blk \in Seq(Nat) /\ i.off \in Nat /\ i.blknum \in Nat \ {0} /\ file \in Seq(Nat)
        /\ got \in Seq(Nat)
        BY DEF Infos, HoldsBlock, Basics, ServerTyped, ClientTyped
  <1>1. /\ info' = [i EXCEPT !.off = i.off + n] /\ n <= Len(i.blk) - i.off
        /\ got' = got \o SubSeq(i.blk, i.off + 1, i.off + n)
        /\ pc' = "reading" => i.off + n = Len(i.blk) /\ ~i.lastblock
        BY DEF ReadTurn
  <1>2. i.off + n \in Nat /\ i.off + n <= Len(i.blk) /\ Len(i.blk) \in Nat
        <2>1. i.off \in Nat /\ Len(i.blk) \in Nat
              BY <1>0
        <2>2. n <= Len(i.blk) - i.off
              BY <1>1
        <2> QED
              BY <2>1, <2>2
  <1>3. /\ info'.off = i.off + n /\ info'.blk = i.blk /\ info'.blknum = i.blknum
        /\ info'.lastblock = i.lastblock /\ info'.mode = "read"
        BY <1>1, <1>2 DEF Infos
  <1> DEFINE b == Before(i.blknum)
             q == SubSeq(i.blk, i.off + 1, i.off + n)
  <1>4. b \in Nat
        BY <1>0, BeforeFacts
  <1>5. /\ Len(i.blk) = IF b + BlockSize <= Len(file) THEN BlockSize ELSE Len(file) - b
        /\ \A k \in 1..Len(i.blk) : i.blk[k] = file[b + k]
        <2>1. i.blk = Piece(file, i.blknum) /\ b <= Len(file)
              BY BlockIsPiece DEF HoldsBlock
        <2> QED
              BY <1>0, <2>1, PieceFacts
  <1>6. q \in Seq(Nat) /\ Len(q) = n /\ \A k \in 1..n : q[k] = i.blk[i.off + k]
        <2>1. i.blk \in Seq(Nat) /\ i.off \in Nat
              BY <1>0
        <2> DEFINE s == i.blk
                   a == i.off
        <2>2. s \in Seq(Nat) /\ a \in Nat /\ a + n <= Len(s) /\ q = SubSeq(s, a + 1, a + n)
              BY <1>2, <2>1
        <2> HIDE DEF q, s, a
        <2>3. q \in Seq(Nat) /\ Len(q) = n /\ \A k \in 1..n : q[k] = s[a + k]
              BY <2>2, MiddleFacts
        <2> QED
              BY <2>3 DEF s, a
  <1>7. b + Len(i.blk) <= Len(file) /\ Len(file) \in Nat
        BY <1>0, <1>4, <1>5 DEF HoldsBlock
  <1> HIDE DEF b, q
  <1>8. IsFront(got \o q, file, b + i.off + n)
        <2> DEFINE a == b + i.off
        <2>1. a \in Nat /\ a + Len(q) <= Len(file)
              BY <1>0, <1>2, <1>4, <1>6, <1>7
        <2>2. \A k \in 1..Len(q) : q[k] = file[a + k]
              <3> SUFFICES ASSUME NEW k \in 1..n
                           PROVE  q[k] = file[a + k]
                    BY <1>6
              <3>0. i.off \in Nat
                    BY <1>0
              <3>1. i.off + k \in 1..Len(i.blk) /\ b + (i.off + k) = a + k
                    BY <1>2, <1>4, <3>0
              <3> QED
                    BY <1>5, <1>6, <3>1
        <2>3. IsFront(got, file, a)
              BY DEF HoldsBlock, b
        <2> HIDE DEF a
        <2>4. IsFront(got \o q, file, a + Len(q))
              BY <1>0, <1>6, <2>1, <2>2, <2>3, LongerFront
        <2> QED
              BY <1>6, <2>4 DEF a
  <1>9. b + i.off + n = Before(info'.blknum) + info'.off
        BY <1>0, <1>3, <1>4 DEF b
  <1>10. HoldsBlock(info, got)'
        <2>1. IsFront(got', file', Before(info'.blknum) + info'.off)
              BY <1>1, <1>8, <1>9 DEF q
        <2>2. /\ info'.blknum \in 1 .. NumBlocks - 1 /\ Before(info'.blknum) <= Len(file')
              /\ info'.blk = Block(i.blknum)' /\ (info'.lastblock <=> IsLast(info'.blk))
              /\ info'.off <= Len(info'.blk)
              BY <1>2, <1>3 DEF HoldsBlock, Block
        <2> QED
              BY <1>3, <2>1, <2>2 DEF HoldsBlock
  <1> QED
        BY <1>1, <1>3, <1>10 DEF ClientReads

\* The only datagram that a session other than the peer sends with a block has block 1.
LEMMA FirstBlock ==
    ASSUME Basics, ReadInv, NEW m \in toClient, m.op = "data", peer = Port69
    PROVE  m.num = 1 /\ Carries(m, 1)
  <1>1. m.from \in Session /\ m.from # peer /\ session \in [Session -> Sessions]
        BY TftpAssumption DEF Basics, NetTyped, Answers, ServerTyped
  <1>2. session[m.from].next <= 1 /\ session[m.from].next \in Nat
        BY <1>1 DEF ReadInv, SessionsKeptApart, Sessions
  <1>3. PICK k \in 1..session[m.from].next : Carries(m, k)
        BY DEF ReadInv, BlocksSent
  <1>4. k = 1 /\ 1 % NumBlocks = 1
        BY <1>2
  <1> QED
        BY <1>3, <1>4 DEF Carries

\* The block that is waited for is the one that follows.
LEMMA NextBlock ==
    ASSUME Basics, ReadInv, NEW m \in toClient, IsNext(m), pc = "reading"
    PROVE  /\ m.num = info.blknum + 1 /\ m.num \in 1 .. NumBlocks - 1 /\ Carries(m, m.num)
           /\ Before(m.num) = Before(info.blknum) + info.off
  <1>1. /\ m.from \in Session /\ session \in [Session -> Sessions] /\ m.op = "data"
        /\ m.num = info.blknum + 1 /\ file \in Seq(Nat) /\ info.mode = "read" /\ peer # Port69
        BY DEF Basics, NetTyped, Answers, ServerTyped, IsNext, ClientPlaced
  <1>2. /\ HoldsBlock(info, got) /\ info.off = Len(info.blk) /\ ~info.lastblock
        /\ info.blknum \in 1 .. NumBlocks - 1
        BY <1>1 DEF ReadInv, ClientReads, HoldsBlock
  <1>3. session[m.from].next \in Nat /\ session[m.from].next <= NumBlocks
        <2>1. session[m.from].mode = "read"
              BY <1>1 DEF Basics, AnsweredInMode
        <2> QED
              BY <1>1, <2>1 DEF ReadInv, BlocksSent, Sessions
  <1>4. PICK k \in 1..session[m.from].next : Carries(m, k)
        BY <1>1 DEF ReadInv, BlocksSent
  <1>5. k \in 1..NumBlocks /\ m.num = k % NumBlocks
        BY <1>3, <1>4 DEF Carries
  <1>6. k # NumBlocks
        <2>1. m.num >= 2 /\ NumBlocks % NumBlocks = 0
              BY <1>1, <1>2
        <2> QED
              BY <1>5, <2>1
  <1>7. k \in 1 .. NumBlocks - 1 /\ m.num = k
        <2>1. k \in 1 .. NumBlocks - 1
              BY <1>5, <1>6
        <2>2. k % NumBlocks = k
              BY <2>1
        <2> QED
              BY <1>5, <2>1, <2>2
  <1>10. info.blknum \in Nat \ {0}
        BY <1>2
  <1>8. Before(m.num) = Before(info.blknum) + BlockSize
        BY <1>1, <1>10, BeforeFacts
  <1>9. Len(info.blk) = BlockSize
        <2>1. info.blk = Piece(file, info.blknum) /\ Before(info.blknum) <= Len(file)
              BY <1>2, BlockIsPiece DEF HoldsBlock
        <2>2. Len(info.blk) = IF Before(info.blknum) + BlockSize <= Len(file) THEN BlockSize
                              ELSE Len(file) - Before(info.blknum)
              BY <1>1, <1>2, <2>1, PieceFacts
        <2>0. Len(file) \in Nat
              BY <1>1
        <2>3. Before(info.blknum) \in Nat
              BY <1>10, BeforeFacts
        <2>4. ~(Len(info.blk) < BlockSize)
              BY <1>2 DEF HoldsBlock, IsLast
        <2> QED
              BY <2>0, <2>1, <2>2, <2>3, <2>4
  <1> QED
        BY <1>1, <1>2, <1>4, <1>7, <1>8, <1>9

\* The same place in the file, or none yet.
LEMMA ReadsKeptBySame ==
    ASSUME ClientReads, Basics, file' = file, got' = got, peer' = peer,
           info'.mode = info.mode, info'.blknum = info.blknum, info'.blk = info.blk,
           info'.off = info.off, info'.lastblock = info.lastblock,
           pc' = pc \/ pc' # "reading"
    PROVE  ClientReads'
  BY DEF ClientReads, HoldsBlock, Block

\* Only a read goes to where a read waits.
LEMMA ClientReadsKept ==
    ASSUME Basics, ReadInv, [Next]_vars
    PROVE  ClientReads'
  <1>0. /\ file' = file /\ ClientTyped /\ ClientPlaced /\ info \in Infos /\ toClient \subseteq Answers
        /\ ClientReads /\ file \in Seq(Nat)
        BY FileFixed DEF Basics, ClientTyped, NetTyped, ReadInv, ServerTyped
  <1>1. CASE UNCHANGED client
        BY <1>0, <1>1, ReadsKeptBySame DEF client
  <1>2. CASE Close
        <2>1. UNCHANGED <<info, peer, got>> /\ pc' \in {"done", "closing"}
              BY <1>2 DEF Close, Flush
        <2> QED
              BY <1>0, <2>1, ReadsKeptBySame
  <1>3. CASE \E mode \in {"read", "write"} : Open(mode)
        <2>1. pc = "closed" /\ peer' = peer /\ got' = got /\ pc' # "reading"
              BY <1>3 DEF Open, Send, End
        <2> QED
              BY <1>0, <2>1 DEF ClientReads, ClientPlaced
  <1>4. CASE OpenTimesOut
        <2>1. pc = "opening" /\ UNCHANGED <<info, peer, got>> /\ pc' # "reading"
              BY <1>4 DEF OpenTimesOut, Send, End, Return
        <2> QED
              BY <1>0, <2>1, ReadsKeptBySame
  <1>5. CASE OpenAnswered
        <2>1. PICK m \in toClient :
                 \/ /\ m.op = "ack" /\ info.mode = "write" /\ info' = [info EXCEPT !.blknum = 1]
                 \/ /\ m.op = "data"
                    /\ info' = [info EXCEPT !.blknum = m.num, !.blk = m.data,
                                            !.lastblock = IsLast(m.data)]
                 \/ UNCHANGED <<info, peer>>
              BY <1>5 DEF OpenAnswered
        <2>2. pc = "opening" /\ peer = Port69 /\ got' = got /\ pc' # "reading" /\ got = <<>>
              BY <1>0, <1>5 DEF OpenAnswered, ClientPlaced, ClientReads
        <2>3. CASE m.op = "ack" /\ info.mode = "write" /\ info' = [info EXCEPT !.blknum = 1]
              <3>1. info'.mode = "write"
                    BY <1>0, <2>3 DEF Infos
              <3> QED
                    BY <2>2, <3>1 DEF ClientReads
        <2>4. CASE UNCHANGED <<info, peer>>
              BY <1>0, <2>2, <2>4, ReadsKeptBySame
        <2>5. CASE /\ m.op = "data"
                   /\ info' = [info EXCEPT !.blknum = m.num, !.blk = m.data,
                                           !.lastblock = IsLast(m.data)]
              <3> DEFINE last == IsLast(m.data)
              <3>1. last \in BOOLEAN /\ m.num \in Nat /\ m.data \in Seq(Nat)
                    BY <1>0 DEF IsLast, Answers
              <3>2. info' = [info EXCEPT !.blknum = m.num, !.blk = m.data, !.lastblock = last]
                    BY <2>5
              <3>3. info.off = 0
                    BY <1>0, <2>2 DEF ClientPlaced
              <3>4. /\ info'.blknum = m.num /\ info'.blk = m.data
                    /\ info'.lastblock = IsLast(m.data) /\ info'.off = 0
                    <4> HIDE DEF last
                    <4>1. /\ info'.blknum = m.num /\ info'.blk = m.data
                          /\ info'.lastblock = last /\ info'.off = info.off
                          BY <1>0, <3>1, <3>2 DEF Infos
                    <4> QED
                          BY <3>3, <4>1 DEF last
              <3>5. m.num = 1 /\ m.data = Block(1) /\ Before(1) = 0 /\ 0 <= Len(file)
                    <4>1. m.num = 1 /\ Carries(m, 1)
                          BY <2>2, <2>5, FirstBlock
                    <4>2. Before(1) = 0 /\ Len(file) \in Nat
                          BY <1>0, BeforeFacts
                    <4> QED
                          BY <4>1, <4>2 DEF Carries
              <3>6. HoldsBlock(info, got)'
                    <4>1. IsFront(got', file', Before(info'.blknum) + info'.off)
                          <5>1. Before(info'.blknum) + info'.off = 0
                                BY <3>4, <3>5
                          <5>2. IsFront(<<>>, file, 0)
                                BY <3>5 DEF IsFront
                          <5> QED
                                BY <1>0, <2>2, <5>1, <5>2
                    <4>2. info'.blk = Block(1)' /\ info'.off <= Len(info'.blk)
                          BY <1>0, <3>1, <3>4, <3>5 DEF Block
                    <4>3. Before(info'.blknum) <= Len(file')
                          BY <1>0, <3>4, <3>5
                    <4> QED
                          BY <3>4, <3>5, <4>1, <4>2, <4>3 DEF HoldsBlock
              <3> QED
                    BY <2>2, <3>6, ClientKept DEF ClientReads, ClientPlaced
        <2> QED
              BY <2>1, <2>3, <2>4, <2>5
  <1>6. CASE (\E len \in Lengths : Read(len)) \/ ReadAnswered \/ ReadTimesOut
        <2>0. pc \in {"idle", "reading"} /\ info.mode = "read" /\ peer # Port69 /\ peer' = peer
              BY <1>6, ReadSteps
        <2>1. HoldsBlock(info, got)
              BY <1>0, <2>0 DEF ClientReads
        <2>2. ASSUME NEW c, NEW n \in Nat, ReadTurn(info, c, n)
              PROVE  ClientReads'
              BY <1>0, <2>0, <2>1, <2>2, ReadTurnReads
        <2>3. ASSUME NEW m \in toClient, IsNext(m), pc = "reading",
                     NEW n \in Nat, ReadTurn(Fetched(m), call, n)
              PROVE  ClientReads'
              <3>1. /\ m.num \in 1 .. NumBlocks - 1 /\ Carries(m, m.num)
                    /\ Before(m.num) = Before(info.blknum) + info.off
                    BY <2>3, NextBlock
              <3>2. m.num \in Nat /\ m.data \in Seq(Nat)
                    BY <1>0 DEF Answers
              <3>3. /\ Fetched(m) \in Infos /\ Fetched(m).mode = "read" /\ Fetched(m).off = 0
                    /\ Fetched(m).blk = m.data /\ Fetched(m).blknum = m.num
                    /\ (Fetched(m).lastblock <=> IsLast(m.data))
                    BY <1>0, <2>0, <3>2, FetchedTyped
              <3>4. HoldsBlock(Fetched(m), got)
                    <4>1. Before(m.num) + 0 = Before(info.blknum) + info.off
                          <5>1. Before(m.num) \in Nat
                                BY <3>1, BeforeFacts
                          <5> QED
                                BY <3>1, <5>1
                    <4>2. IsFront(got, file, Before(m.num) + 0)
                          BY <2>1, <4>1 DEF HoldsBlock
                    <4>3. 0 <= Len(m.data)
                          BY <3>2
                    <4> QED
                          BY <3>1, <3>3, <4>2, <4>3 DEF HoldsBlock, Carries
              <3> QED
                    BY <1>0, <2>0, <2>3, <3>3, <3>4, ReadTurnReads
        <2>4. ASSUME Again(Ack(info)), got' = got
              PROVE  ClientReads'
              <3>1. info' = info \/ info' = [info EXCEPT !.error = TRUE]
                    BY <1>0, <2>4, AgainCases
              <3>2. pc' = pc \/ pc' # "reading"
                    BY <1>0, <2>0, <2>4, AgainCases
              <3>3. /\ info'.mode = info.mode /\ info'.blknum = info.blknum /\ info'.blk = info.blk
                    /\ info'.off = info.off /\ info'.lastblock = info.lastblock
                    BY <1>0, <3>1 DEF Infos
              <3> QED
                    BY <1>0, <2>0, <2>4, <3>2, <3>3, ReadsKeptBySame
        <2> QED
              BY <1>6, <2>2, <2>3, <2>4, ReadSteps
  <1>7. CASE (\E len \in Lengths : Write(len)) \/ WriteAnswered \/ WriteTimesOut
        <2>1. info.mode = "write" /\ peer # Port69 /\ peer' = peer /\ got' = got /\ pc # "closed"
              BY <1>7, WriteSteps
        <2>2. info'.mode = "write"
              BY <2>1, ClientKept DEF ClientSends
        <2>3. pc' # "reading"
              BY <2>2, ClientKept DEF ClientPlaced
        <2> QED
              BY <1>0, <2>1, <2>2, <2>3 DEF ClientReads
  <1>8. CASE \/ UNCHANGED vars
             \/ \E m \in toClient : Deliver(m)
             \/ \E s \in Session : SrvRequest(s) \/ SrvAck(s) \/ SrvData(s) \/ SrvError(s)
        BY <1>1, <1>8 DEF vars, Deliver, SrvRequest, SrvAck, SrvData, SrvError
  <1> QED
        BY <1>2, <1>3, <1>4, <1>5, <1>6, <1>7, <1>8 DEF Next, Client

LEMMA AcksNumberedKept ==
    ASSUME Basics, ReadInv, [Next]_vars
    PROVE  AcksNumbered'
  <1>1. ClientSends /\ ClientReads'
        BY ClientKept, ClientReadsKept
  <1>2. ASSUME NEW m, NewQuery(m), m.op = "ack", peer' = peer
        PROVE  m.num \in 1 .. NumBlocks - 1
        <2>1. info'.mode = "read" /\ peer # Port69 /\ m = Ack(info')
              BY <1>2 DEF NewQuery, Request, Cancel, Data
        <2>2. HoldsBlock(info, got)'
              BY <1>1, <1>2, <2>1 DEF ClientReads
        <2> QED
              BY <2>1, <2>2 DEF HoldsBlock, Ack
  <1> QED
        BY <1>1, <1>2 DEF ReadInv, AcksNumbered, ClientSends

LEMMA ReadInvHolds == Spec => []ReadInv
  <1>1. Init => ReadInv
        BY TftpAssumption
           DEF Init, ReadInv, SessionsKeptApart, BlocksSent, AcksNumbered, ClientReads, Idle
  <1>2. Basics /\ ReadInv /\ [Next]_vars => ReadInv'
        BY SessionsKeptApartKept, BlocksSentKept, AcksNumberedKept, ClientReadsKept DEF ReadInv
  <1> QED
        BY <1>1, <1>2, TftpTyped, PTL DEF Spec

\* What is read is the file from its beginning, whatever the network repeats, delays or
\* loses and however many sessions send it (tftp_fileop_read, _tftp_readmore).
THEOREM WhatIsReadIsTheFile == Spec => []ReadsTheFile
  <1>1. Basics /\ ReadInv => ReadsTheFile
        <2> SUFFICES ASSUME Basics, ReadInv
                     PROVE  ReadsTheFile
              OBVIOUS
        <2>1. got \in Seq(Nat) /\ file \in Seq(Nat) /\ info \in Infos
              BY DEF Basics, ClientTyped, ServerTyped
        <2>2. CASE info.mode # "read" \/ peer = Port69
              <3>1. IsFront(got, file, 0) /\ 0 \in Nat
                    BY <2>1, <2>2 DEF ReadInv, ClientReads, IsFront
              <3> QED
                    BY <2>1, <3>1, FrontIsPrefix DEF ReadsTheFile
        <2>3. CASE info.mode = "read" /\ peer # Port69
              <3> DEFINE a == Before(info.blknum) + info.off
              <3>1. IsFront(got, file, a) /\ info.blknum \in Nat \ {0}
                    BY <2>3 DEF ReadInv, ClientReads, HoldsBlock
              <3>2. a \in Nat
                    <4>1. Before(info.blknum) \in Nat
                          BY <3>1, BeforeFacts
                    <4>2. info.off \in Nat
                          BY <2>1 DEF Infos
                    <4> QED
                          BY <4>1, <4>2
              <3> HIDE DEF a
              <3> QED
                    BY <2>1, <3>1, <3>2, FrontIsPrefix DEF ReadsTheFile
        <2> QED
              BY <2>2, <2>3
  <1> QED
        BY <1>1, TftpTyped, ReadInvHolds, PTL

-----------------------------------------------------------------------------
(* The end of the file *)

\* A read that waits has copied something; a file that is not open has not been read; and
\* between calls there is something left of the block, or it is the last.
EofInv ==
    /\ pc = "reading" => call.copied > 0
    /\ peer = Port69 => res.len = 0 /\ call.len = 0
    /\ info.mode = "read" /\ pc = "idle" /\ ~res.nobuf /\ ~info.error =>
          info.off < Len(info.blk) \/ info.lastblock
    /\ EofUnlessStarved

\* At the end of the last block the file has been read.
LEMMA EndOfFile ==
    ASSUME Basics, ReadInv, info.mode = "read", peer # Port69,
           info.lastblock, info.off = Len(info.blk)
    PROVE  got = file
  <1>1. /\ HoldsBlock(info, got) /\ file \in Seq(Nat) /\ got \in Seq(Nat)
        /\ info.blknum \in Nat \ {0}
        BY DEF ReadInv, ClientReads, Basics, ServerTyped, ClientTyped, HoldsBlock
  <1> DEFINE b == Before(info.blknum)
             l == Len(info.blk)
  <1>2. l < BlockSize /\ IsFront(got, file, b + l)
        BY <1>1 DEF HoldsBlock, IsLast
  <1>3. b \in Nat
        BY <1>1, BeforeFacts
  <1>4. b <= Len(file) /\ l = IF b + BlockSize <= Len(file) THEN BlockSize ELSE Len(file) - b
        <2>1. info.blk = Piece(file, info.blknum) /\ b <= Len(file)
              BY <1>1, BlockIsPiece DEF HoldsBlock
        <2> QED
              BY <1>1, <2>1, PieceFacts
  <1>5. Len(file) \in Nat
        BY <1>1
  <1> HIDE DEF b, l
  <1>6. b + l = Len(file) /\ b + l \in Nat
        BY <1>2, <1>3, <1>4, <1>5
  <1> QED
        BY <1>1, <1>2, <1>6, FrontIsPrefix

\* A file that has been read stays so.
LEMMA ReadStays ==
    ASSUME Basics, Basics', ReadInv, ReadInv', [Next]_vars, got = file
    PROVE  got' = file'
  <1>0. got \in Seq(Nat) /\ got' \in Seq(Nat) /\ file' = file /\ file \in Seq(Nat)
        BY FileFixed DEF Basics, ClientTyped, ServerTyped
  <1>1. CASE got' = got
        BY <1>0, <1>1
  <1>2. CASE (\E len \in Lengths : Read(len)) \/ ReadAnswered \/ ReadTimesOut
        <2>0. info.mode = "read" /\ peer # Port69 /\ peer' = peer /\ info'.mode = "read"
              <3>1. pc # "closed"
                    BY <1>2, ReadSteps
              <3> QED
                    BY <1>2, <3>1, ReadSteps, ClientKept DEF ClientSends
        <2>1. got' = got \/ \E q \in Seq(Nat) : got' = got \o q
              <3>1. ASSUME NEW i, i \in Infos, NEW c, NEW n \in Nat, ReadTurn(i, c, n),
                           i.off <= Len(i.blk)
                    PROVE  \E q \in Seq(Nat) : got' = got \o q
                    <4>1. i.blk \in Seq(Nat) /\ i.off \in Nat /\ Len(i.blk) \in Nat
                          BY <3>1 DEF Infos
                    <4>2. n <= Len(i.blk) - i.off
                          BY <3>1 DEF ReadTurn
                    <4>3. i.off + n <= Len(i.blk)
                          BY <4>1, <4>2
                    <4>4. SubSeq(i.blk, i.off + 1, i.off + n) \in Seq(Nat)
                          BY <4>1, <4>3, MiddleFacts
                    <4> QED
                          BY <3>1, <4>4 DEF ReadTurn
              <3>2. info \in Infos /\ info.off <= Len(info.blk)
                    BY DEF Basics, ClientTyped
              <3>3. ASSUME NEW m \in toClient
                    PROVE  Fetched(m) \in Infos /\ Fetched(m).off <= Len(Fetched(m).blk)
                    <4>1. m.num \in Nat /\ m.data \in Seq(Nat)
                          BY DEF Basics, NetTyped, Answers
                    <4>2. Fetched(m) \in Infos /\ Fetched(m).off = 0 /\ Fetched(m).blk = m.data
                          BY <3>2, <4>1, FetchedTyped
                    <4> QED
                          BY <4>1, <4>2
              <3> QED
                    BY <1>2, <3>1, <3>2, <3>3, ReadSteps
        <2>2. IsFront(got', file', Before(info'.blknum) + info'.off)
              BY <2>0 DEF ReadInv, ClientReads, HoldsBlock
        <2>3. Len(got') <= Len(file) /\ IsFront(got', file, Len(got'))
              BY <1>0, <2>2 DEF IsFront
        <2>4. CASE \E q \in Seq(Nat) : got' = got \o q
              <3>1. PICK q \in Seq(Nat) : got' = got \o q
                    BY <2>4
              <3>2. Len(got') = Len(got) + Len(q)
                    BY <1>0, <3>1, ConcatProperties
              <3>3. Len(got) \in Nat /\ Len(q) \in Nat
                    BY <1>0
              <3>4. Len(got') = Len(file) /\ Len(got') \in Nat
                    BY <2>3, <3>2, <3>3
              <3> QED
                    BY <1>0, <2>3, <3>4, FrontIsPrefix
        <2> QED
              BY <1>1, <2>1, <2>4
  <1>3. CASE \/ UNCHANGED vars
             \/ \E mode \in {"read", "write"} : Open(mode)
             \/ \E len \in Lengths : Write(len)
             \/ Close \/ OpenTimesOut \/ OpenAnswered \/ WriteAnswered \/ WriteTimesOut
             \/ \E m \in toClient : Deliver(m)
             \/ \E s \in Session : SrvRequest(s) \/ SrvAck(s) \/ SrvData(s) \/ SrvError(s)
        <2>1. got' = got
              BY <1>3 DEF vars, client, Open, Write, Close, OpenTimesOut, OpenAnswered, WriteAnswered,
                          WriteTimesOut, Deliver, SrvRequest, SrvAck, SrvData, SrvError
        <2> QED
              BY <1>1, <2>1
  <1> QED
        BY <1>2, <1>3 DEF Next, Client

\* Where what was asked for and what was returned stay, what they say does.
LEMMA EofKeptBySame ==
    ASSUME Basics, Basics', ReadInv, ReadInv', EofInv, [Next]_vars, res' = res,
           info'.mode = info.mode \/ peer = Port69
    PROVE  EofUnlessStarved'
  BY ReadStays DEF EofInv, EofUnlessStarved, EofIsTheEnd

LEMMA ReadTurnEof ==
    ASSUME Basics, Basics', ReadInv, ReadInv', EofInv, [Next]_vars,
           NEW i, i \in Infos, NEW c, c \in Calls, NEW n \in Nat, ReadTurn(i, c, n),
           i.mode = "read", info.mode = "read", peer' = peer, peer # Port69,
           pc \in {"idle", "reading"}, i.off <= Len(i.blk),
           i.off = Len(i.blk) => i.lastblock \/ res.nobuf,
           c.copied > 0 \/ c.left = c.len
    PROVE  EofInv'
  <1>0. /\ i.blk \in Seq(Nat) /\ i.off \in Nat /\ Len(i.blk) \in Nat
        /\ c.copied \in Nat /\ c.left \in Nat /\ c.len \in Nat /\ res.nobuf \in BOOLEAN
        BY DEF Infos, Calls, Basics, ClientTyped, Results
  <1>1. /\ n <= Len(i.blk) - i.off /\ (n = c.left \/ n = Len(i.blk) - i.off)
        /\ info' = [i EXCEPT !.off = i.off + n]
        BY DEF ReadTurn
  <1>2. /\ i.off + n \in Nat /\ i.off + n <= Len(i.blk)
        /\ (n = 0 => n = c.left \/ i.off = Len(i.blk))
    <2>1. n <= Len(i.blk) - i.off /\ (n = c.left \/ n = Len(i.blk) - i.off)
          BY <1>1
    <2> DEFINE off == i.off  len == Len(i.blk)  left == c.left
    <2>2. off \in Nat /\ len \in Nat /\ left \in Nat
          BY <1>0
    <2>3. n <= len - off /\ (n = left \/ n = len - off)
          BY <2>1
    <2> HIDE DEF off, len, left
    <2>4. off + n \in Nat /\ off + n <= len /\ (n = 0 => n = left \/ off = len)
          BY <2>2, <2>3
    <2> QED
        BY <2>4 DEF off, len, left
  <1>3. /\ info'.off = i.off + n /\ info'.blk = i.blk /\ info'.lastblock = i.lastblock
        /\ info'.mode = "read"
        BY <1>1, <1>2 DEF Infos
  <1>4. CASE /\ n > 0 /\ pc' = "reading" /\ res' = res /\ call'.copied = c.copied + n
        BY <1>0, <1>3, <1>4, EofKeptBySame DEF EofInv
  <1>5. CASE /\ pc' = IF pc \in {"reading", "writing", "idle"} THEN "idle" ELSE "done"
             /\ res'.n = c.copied + n /\ res'.len = c.len
             /\ \/ res'.nobuf
                \/ /\ res'.nobuf = res.nobuf
                   /\ n = 0 \/ i.off + n # Len(i.blk) \/ i.lastblock
        <2>1. pc' = "idle"
              BY <1>5
        <2>2. ~res'.nobuf => i.off + n < Len(i.blk) \/ i.lastblock
              BY <1>0, <1>2, <1>5
        <2>3. ASSUME ~res'.nobuf, res'.len > 0, res'.n = 0
              PROVE  got' = file'
              <3>1. n = 0 /\ c.copied = 0 /\ c.left > 0
                    BY <1>0, <1>5, <2>3
              <3>2. i.off = Len(i.blk) /\ ~res.nobuf
                    BY <1>2, <1>5, <2>3, <3>1
              <3>3. info'.lastblock /\ info'.off = Len(info'.blk)
                    BY <1>0, <1>3, <3>1, <3>2
              <3>4. (Basics /\ ReadInv /\ info.mode = "read" /\ peer # Port69
                     /\ info.lastblock /\ info.off = Len(info.blk) => got = file)'
                    BY EndOfFile, PTL
              <3> QED
                    BY <1>3, <3>3, <3>4
        <2> QED
              BY <1>3, <2>1, <2>2, <2>3 DEF EofInv, EofUnlessStarved, EofIsTheEnd
  <1> QED
        BY <1>4, <1>5 DEF ReadTurn

LEMMA EofInvKept ==
    ASSUME Basics, Basics', ReadInv, ReadInv', EofInv, [Next]_vars
    PROVE  EofInv'
  <1>0. /\ ClientTyped /\ ClientPlaced /\ ClientPlaced' /\ info \in Infos /\ toClient \subseteq Answers
        /\ res \in Results /\ call \in Calls /\ res.nobuf \in BOOLEAN
        BY DEF Basics, ClientTyped, NetTyped, Results
  <1>1. CASE UNCHANGED client
        BY <1>0, <1>1, EofKeptBySame DEF client, EofInv
  <1>2. CASE Close
        <2>1. UNCHANGED <<info, peer, got, res>> /\ pc' \in {"done", "closing"} /\ pc = "idle"
              BY <1>2 DEF Close, Flush
        <2> QED
              BY <1>0, <2>1, EofKeptBySame DEF EofInv, ClientPlaced
  <1>3. CASE (\E mode \in {"read", "write"} : Open(mode)) \/ OpenTimesOut
        <2>0. /\ pc \in {"closed", "opening"} /\ peer' = peer /\ peer = Port69 /\ call.len = 0
              /\ res.len = 0 /\ pc' \notin {"idle", "reading"} 
              BY <1>0, <1>3 DEF Open, OpenTimesOut, Send, Return, End, ClientPlaced, EofInv
        <2>1. res'.len = 0 /\ call'.len = 0
              <3>1. CASE \E mode \in {"read", "write"} : Open(mode)
                    BY <2>0, <3>1, NoCallTyped DEF Open, Send, End
              <3>2. CASE OpenTimesOut
                    <4> DEFINE d == [call EXCEPT !.retries = @ + 1]
                    <4>1. d.len = 0
                          BY <1>0, <2>0, Retried
                    <4>2. Send(Request(info.mode), pc, d) \/ Return(call)
                          BY <3>2 DEF OpenTimesOut
                    <4> HIDE DEF d
                    <4> QED
                          BY <2>0, <4>1, <4>2, NoCallTyped DEF Send, End, Return
              <3> QED
                    BY <1>3, <3>1, <3>2
        <2> QED
              BY <2>0, <2>1 DEF EofInv, EofUnlessStarved, EofIsTheEnd
  <1>4. CASE OpenAnswered
        <2>0. pc = "opening" /\ res.len = 0 /\ res' = res /\ call' = NoCall /\ pc' # "reading"
              BY <1>0, <1>4 DEF OpenAnswered, EofInv, ClientPlaced
        <2>1. ASSUME info'.mode = "read", pc' = "idle"
              PROVE  info'.off < Len(info'.blk) \/ info'.lastblock
              <3>1. peer' # Port69
                    BY <1>0, <2>1 DEF ClientPlaced
              <3>2. HoldsBlock(info, got)'
                    BY <2>1, <3>1 DEF ReadInv, ClientReads
              <3>3. info'.off = 0
                    <4>1. PICK m \in toClient :
                             \/ info' = [info EXCEPT !.blknum = 1]
                             \/ info' = [info EXCEPT !.blknum = m.num, !.blk = m.data,
                                                     !.lastblock = IsLast(m.data)]
                             \/ info' = info
                          BY <1>4 DEF OpenAnswered
                    <4>2. info'.off = info.off
                          BY <1>0, <4>1 DEF Infos
                    <4> QED
                          BY <1>0, <2>0, <4>2 DEF ClientPlaced
              <3>4. info'.blk \in Seq(Nat) /\ Len(info'.blk) \in Nat
                    BY DEF Basics, ClientTyped, Infos
              <3> QED
                    BY <3>2, <3>3, <3>4 DEF HoldsBlock, IsLast
        <2> QED
              BY <2>0, <2>1, NoCallTyped DEF EofInv, EofUnlessStarved, EofIsTheEnd
  <1>5. CASE (\E len \in Lengths : Read(len)) \/ ReadAnswered \/ ReadTimesOut
        <2>0. pc \in {"idle", "reading"} /\ info.mode = "read" /\ peer # Port69 /\ peer' = peer
              BY <1>5, ReadSteps
        <2>1. ASSUME NEW len \in Lengths, NEW n \in Nat, pc = "idle", ~info.error,
                     ReadTurn(info, [retries |-> 0, left |-> len, copied |-> 0, len |-> len], n)
              PROVE  EofInv'
              <3> DEFINE c == [retries |-> 0, left |-> len, copied |-> 0, len |-> len]
              <3>1. c \in Calls /\ c.left = c.len /\ ReadTurn(info, c, n)
                    BY <2>1, TftpAssumption DEF Calls
              <3>2. /\ info.off <= Len(info.blk)
                    /\ info.off = Len(info.blk) => info.lastblock \/ res.nobuf
                    <4>1. info.off <= Len(info.blk) /\ Len(info.blk) \in Nat
                          BY <1>0 DEF ClientTyped, Infos
                    <4> QED
                          BY <1>0, <2>0, <2>1, <4>1 DEF EofInv
              <3> HIDE DEF c
              <3> QED
                    BY <1>0, <2>0, <3>1, <3>2, ReadTurnEof
        <2>2. ASSUME NEW m \in toClient, pc = "reading", NEW n \in Nat, ReadTurn(Fetched(m), call, n)
              PROVE  EofInv'
              <3>1. m.num \in Nat /\ m.data \in Seq(Nat)
                    BY <1>0 DEF Answers
              <3>2. /\ Fetched(m) \in Infos /\ Fetched(m).mode = "read" /\ Fetched(m).off = 0
                    /\ Fetched(m).blk = m.data
                    /\ (Fetched(m).lastblock <=> IsLast(m.data))
                    BY <1>0, <2>0, <3>1, FetchedTyped
              <3>3. /\ Fetched(m).off <= Len(Fetched(m).blk)
                    /\ Fetched(m).off = Len(Fetched(m).blk) => Fetched(m).lastblock \/ res.nobuf
                    BY <3>1, <3>2 DEF IsLast
              <3>4. call.copied > 0
                    BY <2>2 DEF EofInv
              <3> QED
                    BY <1>0, <2>0, <2>2, <3>2, <3>3, <3>4, ReadTurnEof
        <2>3. ASSUME pc = "reading", Again(Ack(info)), got' = got
              PROVE  EofInv'
              <3>0. call.copied > 0
                    BY <2>3 DEF EofInv
              <3>1. info'.mode = info.mode
                    BY <1>0, <2>0, <2>3, ClientKept DEF ClientSends
              <3>2. CASE pc' = pc /\ res' = res /\ call'.copied = call.copied
                    BY <2>0, <2>3, <3>0, <3>1, <3>2, EofKeptBySame DEF EofInv
              <3>3. CASE /\ pc' = IF pc \in {"reading", "writing", "idle"} THEN "idle" ELSE "done"
                         /\ res'.n = call.copied
                         /\ \/ res'.nobuf
                            \/ info' = [info EXCEPT !.error = TRUE]
                    <4>1. res'.nobuf \/ info'.error
                          <5> DEFINE yes == TRUE
                          <5>1. CASE info' = [info EXCEPT !.error = TRUE]
                                BY <1>0, <5>1 DEF Infos
                          <5> QED
                                BY <3>3, <5>1
                    <4>2. pc' = "idle" /\ res'.n # 0
                          BY <2>3, <3>0, <3>3
                    <4> QED
                          BY <2>0, <4>1, <4>2 DEF EofInv, EofUnlessStarved, EofIsTheEnd
              <3> QED
                    BY <1>0, <2>3, <3>2, <3>3, AgainCases
        <2> QED
              BY <1>5, <2>1, <2>2, <2>3, ReadSteps
  <1>6. CASE (\E len \in Lengths : Write(len)) \/ WriteAnswered \/ WriteTimesOut
        <2>1. info.mode = "write" /\ peer # Port69 /\ peer' = peer /\ pc # "closed"
              BY <1>6, WriteSteps
        <2>2. info'.mode = "write"
              BY <2>1, ClientKept DEF ClientSends
        <2>3. pc' # "reading"
              BY <1>0, <2>2 DEF ClientPlaced
        <2> QED
              BY <2>1, <2>2, <2>3 DEF EofInv, EofUnlessStarved, EofIsTheEnd
  <1>7. CASE \/ UNCHANGED vars
             \/ \E m \in toClient : Deliver(m)
             \/ \E s \in Session : SrvRequest(s) \/ SrvAck(s) \/ SrvData(s) \/ SrvError(s)
        BY <1>1, <1>7 DEF vars, Deliver, SrvRequest, SrvAck, SrvData, SrvError
  <1> QED
        BY <1>2, <1>3, <1>4, <1>5, <1>6, <1>7 DEF Next, Client

\* A read that returned none of the bytes it was asked for has met the end of the file, as
\* long as there was a buffer for every datagram (net_tftp.c:629).
THEOREM NothingReadIsTheEnd == Spec => []EofUnlessStarved
  <1>1. Init => EofInv
        BY NoCallTyped DEF Init, EofInv, EofUnlessStarved, EofIsTheEnd
  <1>2. Basics /\ Basics' /\ ReadInv /\ ReadInv' /\ EofInv /\ [Next]_vars => EofInv'
        BY EofInvKept
  <1>3. EofInv => EofUnlessStarved
        BY DEF EofInv
  <1> QED
        BY <1>1, <1>2, <1>3, TftpTyped, ReadInvHolds, PTL DEF Spec

-----------------------------------------------------------------------------
(* A file that is written *)

\* What is written is shorter than the block numbers can tell apart.
NumbersSuffice == MaxWritten < Before(NumBlocks)

\* The block of the record i is the end of p.
EndsWith(i, p) ==
    /\ i.blknum >= 1 /\ Len(i.blk) <= BlockSize /\ Len(p) = Before(i.blknum) + Len(i.blk)
    /\ \A k \in 1..Len(i.blk) : i.blk[k] = p[Before(i.blknum) + k]

ClientWrites ==
    /\ info.mode # "write" \/ peer = Port69 => put = <<>>
    /\ info.mode = "write" => Len(put) + call.left <= MaxWritten
    /\ info.mode = "write" /\ peer # Port69 /\ pc # "done" =>
          EndsWith(info, put) /\ (info.lastblock => info.error)
    /\ pc = "writing" => Len(info.blk) = BlockSize

\* Blocks are sent of what was written; only a file that is being closed has a short one.
BlocksWritten ==
    \A m \in toServer : m.op = "data" =>
        /\ peer # Port69 /\ m.to = peer
        /\ m.num >= 1 /\ Before(m.num) <= Len(put) /\ m.data = Piece(put, m.num)
        /\ Len(m.data) = BlockSize \/ pc \in {"closing", "done"}

\* The peer stores them in order, and its acks are of those it has stored.
PeerStores ==
    info.mode = "write" /\ peer # Port69 =>
        /\ session[peer].mode = "write"
        /\ ~session[peer].closed => IsFront(session[peer].data, put, Before(session[peer].next))
        /\ session[peer].closed => session[peer].data = put /\ pc \in {"closing", "done"}
AcksOfStored ==
    \A m \in toClient : m.op = "ack" =>
        m.num = 0 \/ (peer # Port69 /\ m.from = peer /\ m.num < session[peer].next)

WriteInv == ClientWrites /\ BlocksWritten /\ PeerStores /\ AcksOfStored /\ FlushedIsStored

LEMMA NumberInRange ==
    ASSUME NumbersSuffice, NEW k \in Nat \ {0}, NEW l \in Nat, Before(k) <= l, l <= MaxWritten
    PROVE  k < NumBlocks
  <1>1. Before(k) \in Nat /\ Before(NumBlocks) \in Nat /\ MaxWritten \in Nat
        BY BeforeFacts, TftpAssumption
  <1>2. ASSUME NumBlocks < k
        PROVE  FALSE
        <2>1. Before(NumBlocks) + BlockSize <= Before(k)
              BY <1>2, BeforeLater
        <2> QED
              BY <1>1, <2>1 DEF NumbersSuffice
  <1>3. k # NumBlocks
        BY <1>1 DEF NumbersSuffice
  <1> QED
        BY <1>2, <1>3

LEMMA EndIsPiece ==
    ASSUME NEW i, i \in Infos, NEW p \in Seq(Nat), EndsWith(i, p)
    PROVE  /\ i.blknum \in Nat \ {0} /\ Before(i.blknum) <= Len(p)
           /\ i.blk = Piece(p, i.blknum)
  <1>0. i.blknum \in Nat /\ i.blk \in Seq(Nat) /\ Len(i.blk) \in Nat
        BY DEF Infos
  <1>1. i.blknum \in Nat \ {0}
        BY <1>0 DEF EndsWith
  <1> DEFINE b == Before(i.blknum)
             l == Len(i.blk)
  <1>2. b \in Nat
        BY <1>1, BeforeFacts
  <1>3. l <= BlockSize /\ Len(p) = b + l /\ \A k \in 1..l : i.blk[k] = p[b + k]
        BY DEF EndsWith
  <1>4. l \in Nat
        BY <1>0
  <1>5. b <= Len(p)
        <2> HIDE DEF b, l
        <2> QED
              BY <1>2, <1>3, <1>4
  <1>6. /\ Piece(p, i.blknum) \in Seq(Nat)
        /\ Len(Piece(p, i.blknum)) = IF b + BlockSize <= Len(p) THEN BlockSize ELSE Len(p) - b
        /\ \A k \in 1..Len(Piece(p, i.blknum)) : Piece(p, i.blknum)[k] = p[b + k]
        BY <1>1, <1>5, PieceFacts
  <1>7. Len(Piece(p, i.blknum)) = l
        <2> HIDE DEF b, l
        <2> QED
              BY <1>2, <1>3, <1>4, <1>6
  <1>8. i.blk = Piece(p, i.blknum)
        <2> DEFINE s == Piece(p, i.blknum)
        <2>1. s \in Seq(Nat) /\ i.blk \in Seq(Nat) /\ Len(s) = Len(i.blk)
              BY <1>0, <1>6, <1>7
        <2>2. \A k \in 1..Len(i.blk) : s[k] = i.blk[k]
              BY <1>3, <1>6, <1>7
        <2> HIDE DEF s
        <2>3. i.blk = s
              BY <2>1, <2>2, SeqEqual
        <2> QED
              BY <2>3 DEF s
  <1> QED
        BY <1>1, <1>5, <1>8

LEMMA EndGrows ==
    ASSUME NEW i, i \in Infos, NEW p \in Seq(Nat), NEW q \in Seq(Nat), EndsWith(i, p),
           Len(q) <= BlockSize - Len(i.blk)
    PROVE  EndsWith([i EXCEPT !.blk = i.blk \o q], p \o q)
  <1> DEFINE j == [i EXCEPT !.blk = i.blk \o q]
             b == Before(i.blknum)
             l == Len(i.blk)
             n == Len(q)
  <1>0. i.blknum \in Nat \ {0} /\ i.blk \in Seq(Nat)
        BY DEF Infos, EndsWith
  <1>1. l \in Nat /\ n \in Nat
        BY <1>0
  <1>2. b \in Nat
        BY <1>0, BeforeFacts
  <1>3. j.blknum = i.blknum /\ j.blk = i.blk \o q
        BY DEF Infos
  <1>4. l <= BlockSize /\ Len(p) = b + l /\ \A k \in 1..l : i.blk[k] = p[b + k]
        BY DEF EndsWith
  <1>5. /\ Len(i.blk \o q) = l + n /\ Len(p \o q) = Len(p) + n
        /\ \A k \in 1 .. l + n : (i.blk \o q)[k] = IF k <= l THEN i.blk[k] ELSE q[k - l]
        /\ \A k \in 1 .. Len(p) + n : (p \o q)[k] = IF k <= Len(p) THEN p[k] ELSE q[k - Len(p)]
        BY <1>0, ConcatProperties
  <1> DEFINE r == i.blk \o q
             t == p \o q
  <1>6. n <= BlockSize - l
        OBVIOUS
  <1>7. i.blknum >= 1
        BY <1>0
  <1> HIDE DEF b, l, n, r, t, j
  <1>8. ASSUME NEW k \in 1 .. l + n
        PROVE  r[k] = t[b + k]
        <2>1. b + k \in 1 .. Len(p) + n /\ (k <= l <=> b + k <= Len(p)) /\ b + k - Len(p) = k - l
              BY <1>1, <1>2, <1>4
        <2>2. CASE k <= l
              <3>1. r[k] = i.blk[k] /\ t[b + k] = p[b + k]
                    BY <1>5, <2>1, <2>2 DEF r, t
              <3>2. k \in 1..l
                    BY <1>1, <2>2
              <3> QED
                    BY <1>4, <3>1, <3>2
        <2>3. CASE ~(k <= l)
              <3>1. r[k] = q[k - l] /\ t[b + k] = q[(b + k) - Len(p)]
                    BY <1>5, <2>1, <2>3 DEF r, t
              <3> QED
                    BY <1>1, <1>2, <1>4, <2>1, <3>1
        <2> QED
              BY <2>2, <2>3
  <1>9. l + n <= BlockSize /\ Len(r) = l + n /\ Len(t) = b + (l + n)
        BY <1>1, <1>2, <1>4, <1>5, <1>6 DEF r, t
  <1>10. j.blk = r /\ Before(j.blknum) = b
        BY <1>3 DEF r, b
  <1>11. EndsWith(j, t)
        BY <1>3, <1>7, <1>8, <1>9, <1>10 DEF EndsWith
  <1> QED
        BY <1>11 DEF j, t

\* What is written later leaves the full blocks and the beginning as they are.
LEMMA PieceStays ==
    ASSUME NEW p \in Seq(Nat), NEW q \in Seq(Nat), NEW k \in Nat \ {0},
           Before(k) <= Len(p), Len(Piece(p, k)) = BlockSize
    PROVE  Before(k) <= Len(p \o q) /\ Piece(p \o q, k) = Piece(p, k)
  <1> DEFINE b == Before(k)
             t == p \o q
  <1>1. b \in Nat
        BY BeforeFacts
  <1>2. /\ Piece(p, k) \in Seq(Nat)
        /\ BlockSize = IF b + BlockSize <= Len(p) THEN BlockSize ELSE Len(p) - b
        /\ \A i \in 1..BlockSize : Piece(p, k)[i] = p[b + i]
        BY PieceFacts
  <1>3. /\ t \in Seq(Nat) /\ Len(t) = Len(p) + Len(q)
        /\ \A i \in 1 .. Len(p) + Len(q) : t[i] = IF i <= Len(p) THEN p[i] ELSE q[i - Len(p)]
        BY ConcatProperties
  <1>4. Len(p) \in Nat /\ Len(q) \in Nat
        OBVIOUS
  <1> HIDE DEF b, t
  <1>5. b + BlockSize <= Len(p) /\ b + BlockSize <= Len(t) /\ b <= Len(t)
        BY <1>1, <1>2, <1>3, <1>4
  <1>6. /\ Piece(t, k) \in Seq(Nat) /\ Len(Piece(t, k)) = BlockSize
        /\ \A i \in 1..BlockSize : Piece(t, k)[i] = t[b + i]
        <2>1. Before(k) <= Len(t) /\ Before(k) + BlockSize <= Len(t)
              BY <1>5 DEF b
        <2> QED
              BY <1>3, <2>1, PieceFacts DEF b
  <1>7. \A i \in 1..BlockSize : t[b + i] = p[b + i]
        <2> SUFFICES ASSUME NEW i \in 1..BlockSize
                     PROVE  t[b + i] = p[b + i]
              OBVIOUS
        <2>1. b + i \in 1 .. Len(p) + Len(q) /\ b + i <= Len(p)
              BY <1>1, <1>4, <1>5
        <2> QED
              BY <1>3, <2>1
  <1>8. Piece(t, k) = Piece(p, k)
        BY <1>2, <1>6, <1>7, SeqEqual
  <1> QED
        BY <1>5, <1>8 DEF b, t

LEMMA FrontStays ==
    ASSUME NEW s \in Seq(Nat), NEW p \in Seq(Nat), NEW q \in Seq(Nat), NEW n \in Nat,
           IsFront(s, p, n)
    PROVE  IsFront(s, p \o q, n)
  <1>1. /\ Len(p \o q) = Len(p) + Len(q) /\ Len(p) \in Nat /\ Len(q) \in Nat
        /\ \A i \in 1 .. Len(p) + Len(q) : (p \o q)[i] = IF i <= Len(p) THEN p[i] ELSE q[i - Len(p)]
        BY ConcatProperties
  <1>2. n <= Len(p) /\ Len(s) = n /\ \A i \in 1..n : s[i] = p[i]
        BY DEF IsFront
  <1>3. n <= Len(p) + Len(q) /\ \A i \in 1..n : i \in 1 .. Len(p) + Len(q) /\ i <= Len(p)
        BY <1>1, <1>2
  <1> QED
        BY <1>1, <1>2, <1>3 DEF IsFront

\* What the application has written grows by what a turn of the loop takes.
LEMMA PutSteps ==
    ASSUME Basics, [Next]_vars
    PROVE  /\ \/ put' = put
              \/ /\ pc \in {"idle", "writing"} /\ info.mode = "write" /\ peer # Port69
                 /\ \E q \in Seq(Nat) : put' = put \o q
           /\ pc \in {"closing", "done"} => pc' \in {"closing", "done"}
           /\ pc = "closing" \/ pc' # "done" \/ pc \in {"closed", "opening", "idle", "done"}
  <1>1. CASE \E mode \in {"read", "write"} : Open(mode)
        BY <1>1 DEF Open
  <1>2. CASE OpenTimesOut \/ OpenAnswered
        BY <1>2 DEF OpenTimesOut, OpenAnswered
  <1>3. CASE Close
        BY <1>3 DEF Close
  <1>4. CASE (\E len \in Lengths : Read(len)) \/ ReadAnswered \/ ReadTimesOut
        <2>1. pc \in {"idle", "reading"} /\ put' = put
              BY <1>4, ReadSteps
        <2>2. ASSUME NEW i, NEW c, NEW n, ReadTurn(i, c, n)
              PROVE  pc' # "done"
              BY <2>1, <2>2 DEF ReadTurn
        <2>3. ASSUME Again(Ack(info))
              PROVE  pc' # "done"
              BY <2>1, <2>3, AgainCases DEF Basics
        <2>4. pc' # "done"
              BY <1>4, <2>2, <2>3, ReadSteps
        <2> QED
              BY <2>1, <2>4
  <1>5. CASE (\E len \in Lengths : Write(len)) \/ WriteAnswered \/ WriteTimesOut
        <2>1. pc \in {"idle", "writing", "closing"} /\ info.mode = "write" /\ peer # Port69
              BY <1>5, WriteSteps
        <2>2. ASSUME NEW i, NEW c, NEW q \in Seq(Nat), WriteTurn(i, c, q), pc \in {"idle", "writing"}
              PROVE  pc' # "done" /\ put' = put \o q
              BY <2>2 DEF WriteTurn
        <2>3. ASSUME Again(Data(info)) \/ Return(call), put' = put
              PROVE  /\ pc = "closing" => pc' \in {"closing", "done"}
                     /\ pc # "closing" => pc' # "done"
              <3>1. CASE Again(Data(info))
                    BY <2>1, <3>1, AgainCases DEF Basics
              <3>2. CASE Return(call)
                    BY <2>1, <3>2 DEF Return, End
              <3> QED
                    BY <2>3, <3>1, <3>2
        <2>4. CASE \/ Again(Data(info)) /\ put' = put
                   \/ Return(call) /\ put' = put
              BY <2>1, <2>3, <2>4
        <2>5. CASE \/ /\ pc = "idle"
                      /\ \E len \in Lengths, q \in Seq(Nat) :
                            WriteTurn(info, [retries |-> 0, left |-> len, copied |-> 0, len |-> len], q)
                   \/ pc = "writing" /\ \E q \in Seq(Nat) : WriteTurn(Emptied(Sent), call, q)
              BY <2>1, <2>2, <2>5
        <2> QED
              BY <1>5, <2>4, <2>5, WriteSteps
  <1>6. CASE \/ UNCHANGED vars
             \/ \E m \in toClient : Deliver(m)
             \/ \E s \in Session : SrvRequest(s) \/ SrvAck(s) \/ SrvData(s) \/ SrvError(s)
        BY <1>6 DEF vars, client, Deliver, SrvRequest, SrvAck, SrvData, SrvError
  <1> QED
        BY <1>1, <1>2, <1>3, <1>4, <1>5, <1>6 DEF Next, Client

\* One more turn of the loop of a write.
LEMMA WriteTurnWrites ==
    ASSUME Basics, NEW i, i \in Infos, NEW c, c \in Calls, NEW q \in Seq(Nat), WriteTurn(i, c, q),
           i.mode = "write", peer' = peer, peer # Port69, pc \in {"idle", "writing"},
           EndsWith(i, put), Len(put) + c.left <= MaxWritten, i.lastblock => i.error
    PROVE  ClientWrites'
  <1>0. put \in Seq(Nat) /\ i.blk \in Seq(Nat) /\ c.left \in Nat /\ MaxWritten \in Nat
        BY TftpAssumption DEF Basics, ClientTyped, Infos, Calls
  <1>1. /\ Len(q) <= c.left /\ Len(q) <= BlockSize - Len(i.blk) /\ put' = put \o q
        /\ info' = [i EXCEPT !.blk = i.blk \o q]
        /\ \/ /\ Len(i.blk) + Len(q) = BlockSize /\ pc' = "writing" /\ call'.left = c.left - Len(q)
           \/ /\ pc' = "idle" /\ call' = NoCall
        BY DEF WriteTurn
  <1>2. EndsWith(info', put')
        BY <1>0, <1>1, EndGrows
  <1>3. i.blk \o q \in Seq(Nat) /\ Len(i.blk \o q) = Len(i.blk) + Len(q)
        /\ Len(put \o q) = Len(put) + Len(q)
        BY <1>0, ConcatProperties
  <1>4. /\ info'.mode = "write" /\ info'.lastblock = i.lastblock /\ info'.error = i.error
        /\ info'.blk = i.blk \o q
        BY <1>1, <1>3 DEF Infos
  <1>5. Len(put') + call'.left <= MaxWritten
        <2>1. Len(put) \in Nat /\ Len(q) \in Nat
              BY <1>0
        <2>2. call'.left = c.left - Len(q) \/ call'.left = 0
              BY <1>1, NoCallTyped
        <2> QED
              BY <1>0, <1>1, <1>3, <2>1, <2>2
  <1>6. pc' = "writing" => Len(info'.blk) = BlockSize
        BY <1>1, <1>3, <1>4
  <1> QED
        BY <1>2, <1>4, <1>5, <1>6 DEF ClientWrites, EndsWith

LEMMA WritesKeptBySame ==
    ASSUME ClientWrites, peer' = peer, put' = put,
           info'.mode = info.mode, info'.blknum = info.blknum, info'.blk = info.blk,
           info'.lastblock => info.lastblock \/ info'.error, info.error => info'.error,
           call'.left = call.left \/ (call'.left = 0 /\ call.left \in Nat /\ put \in Seq(Nat)
                                      /\ MaxWritten \in Nat),
           pc' = pc \/ (pc' # "writing" /\ pc # "done")
    PROVE  ClientWrites'
  <1>1. info.mode = "write" => Len(put) + call'.left <= MaxWritten
        <2>1. CASE call'.left = call.left
              BY <2>1 DEF ClientWrites
        <2>2. CASE call'.left = 0 /\ call.left \in Nat /\ put \in Seq(Nat) /\ MaxWritten \in Nat
              <3>1. Len(put) \in Nat
                    BY <2>2
              <3>2. info.mode = "write" => Len(put) + call.left <= MaxWritten
                    BY DEF ClientWrites
              <3> QED
                    BY <2>2, <3>1, <3>2
        <2> QED
              BY <2>1, <2>2
  <1> QED
        BY <1>1 DEF ClientWrites, EndsWith

LEMMA ClientWritesKept ==
    ASSUME Basics, WriteInv, NumbersSuffice, [Next]_vars
    PROVE  ClientWrites'
  <1>0. /\ ClientTyped /\ ClientPlaced /\ ClientPlaced' /\ info \in Infos /\ call \in Calls
        /\ call.left \in Nat /\ put \in Seq(Nat) /\ MaxWritten \in Nat
        /\ toClient \subseteq Answers /\ ClientWrites
        BY ClientKept, TftpAssumption DEF Basics, ClientTyped, NetTyped, WriteInv, Calls
  <1>1. CASE UNCHANGED client
        BY <1>0, <1>1, WritesKeptBySame DEF client
  <1>2. CASE Close
        <2>1. UNCHANGED <<info, peer, put, call>> /\ pc' \in {"done", "closing"} /\ pc = "idle"
              BY <1>2 DEF Close, Flush
        <2> QED
              BY <1>0, <2>1, WritesKeptBySame
  <1>3. CASE \E mode \in {"read", "write"} : Open(mode)
        <2>1. pc = "closed" /\ peer = Port69 /\ peer' = peer /\ put' = put /\ pc' # "writing"
              /\ call' = NoCall
              BY <1>0, <1>3 DEF Open, Send, End, ClientPlaced
        <2>2. put = <<>> /\ call'.left = 0
              BY <1>0, <2>1, NoCallTyped DEF ClientWrites
        <2> QED
              BY <1>0, <2>1, <2>2 DEF ClientWrites
  <1>4. CASE OpenTimesOut
        <2>1. pc = "opening" /\ peer = Port69 /\ UNCHANGED <<info, peer, put>> /\ pc' # "writing"
              BY <1>0, <1>4 DEF OpenTimesOut, Send, End, Return, ClientPlaced
        <2>2. call'.left = call.left \/ call'.left = 0
              <3> DEFINE d == [call EXCEPT !.retries = @ + 1]
              <3>1. d.left = call.left
                    BY <1>0, Retried
              <3>2. Send(Request(info.mode), pc, d) \/ Return(call)
                    BY <1>4 DEF OpenTimesOut
              <3> HIDE DEF d
              <3> QED
                    BY <3>1, <3>2, NoCallTyped DEF Send, End, Return
        <2> QED
              BY <1>0, <2>1, <2>2, WritesKeptBySame
  <1>5. CASE OpenAnswered
        <2>0. /\ pc = "opening" /\ peer = Port69 /\ put' = put /\ put = <<>>
              /\ pc' # "writing" /\ call' = NoCall /\ info.off = 0 /\ info.blk = <<>> /\ ~info.lastblock
              BY <1>0, <1>5 DEF OpenAnswered, ClientPlaced, ClientWrites
        <2>1. PICK m \in toClient :
                 \/ /\ m.op = "ack" /\ info.mode = "write" /\ info' = [info EXCEPT !.blknum = 1]
                 \/ /\ m.op = "data"
                    /\ info' = [info EXCEPT !.blknum = m.num, !.blk = m.data,
                                            !.lastblock = IsLast(m.data)]
                 \/ pc' = "done" /\ UNCHANGED <<info, peer>>
              BY <1>5 DEF OpenAnswered
        <2>2. call'.left = 0
              BY <2>0, NoCallTyped
        <2>3. CASE m.op = "ack" /\ info.mode = "write" /\ info' = [info EXCEPT !.blknum = 1]
              <3>1. /\ info'.mode = "write" /\ info'.blknum = 1 /\ info'.blk = info.blk
                    /\ info'.lastblock = info.lastblock
                    BY <1>0, <2>3 DEF Infos
              <3>2. EndsWith(info', put') /\ Len(put') + call'.left <= MaxWritten
                    BY <1>0, <2>0, <2>2, <3>1, BeforeFacts DEF EndsWith
              <3> QED
                    BY <2>0, <3>1, <3>2 DEF ClientWrites, EndsWith
        <2>4. CASE pc' = "done" /\ UNCHANGED <<info, peer>>
              BY <1>0, <2>0, <2>2, <2>4, WritesKeptBySame
        <2>5. CASE /\ m.op = "data"
                   /\ info' = [info EXCEPT !.blknum = m.num, !.blk = m.data,
                                           !.lastblock = IsLast(m.data)]
              <3>1. info.mode = "read"
                    BY <2>5 DEF Basics, AnsweredInMode
              <3>2. info'.mode = "read"
                    BY <2>0, <3>1, ClientKept DEF ClientSends
              <3> QED
                    BY <2>0, <3>2 DEF ClientWrites
        <2> QED
              BY <2>1, <2>3, <2>4, <2>5
  <1>6. CASE (\E len \in Lengths : Write(len)) \/ WriteAnswered \/ WriteTimesOut
        <2>0. /\ pc \in {"idle", "writing", "closing"} /\ info.mode = "write" /\ peer # Port69
              /\ peer' = peer
              BY <1>6, WriteSteps
        <2>1. /\ EndsWith(info, put) /\ (info.lastblock => info.error)
              /\ Len(put) + call.left <= MaxWritten
              /\ pc = "writing" => Len(info.blk) = BlockSize
              BY <1>0, <2>0 DEF ClientWrites
        <2>2. ASSUME NEW len \in Lengths, NEW q \in Seq(Nat), pc = "idle", Len(put) + len <= MaxWritten,
                     WriteTurn(info, [retries |-> 0, left |-> len, copied |-> 0, len |-> len], q)
              PROVE  ClientWrites'
              <3> DEFINE c == [retries |-> 0, left |-> len, copied |-> 0, len |-> len]
              <3>1. c \in Calls /\ c.left = len /\ WriteTurn(info, c, q)
                    BY <2>2, TftpAssumption DEF Calls
              <3> HIDE DEF c
              <3> QED
                    BY <1>0, <2>0, <2>1, <2>2, <3>1, WriteTurnWrites
        <2>3. ASSUME NEW q \in Seq(Nat), pc = "writing", WriteTurn(Emptied(Sent), call, q)
              PROVE  ClientWrites'
              <3> DEFINE i == Emptied(Sent)
                         k == info.blknum
              <3>1. /\ i \in Infos /\ i.mode = "write" /\ i.blk = <<>>
                    /\ i.blknum = (k + 1) % NumBlocks
                    /\ (i.lastblock <=> Len(info.blk) # BlockSize)
                    BY <1>0, <2>0, SentTyped
              <3>2. k \in Nat \ {0} /\ Len(put) = Before(k) + BlockSize
                    <4>1. k \in Nat
                          BY <1>0 DEF Infos
                    <4> QED
                          BY <2>1, <2>3, <4>1 DEF EndsWith
              <3>3. Before(k + 1) = Len(put) /\ k + 1 \in Nat \ {0} /\ Len(put) \in Nat
                    <4>1. Len(put) \in Nat
                          BY <1>0
                    <4>2. Before(k + 1) = Before(k) + BlockSize
                          BY <3>2, BeforeFacts
                    <4> QED
                          BY <3>2, <4>1, <4>2
              <3>4. Before(k + 1) <= Len(put) /\ Len(put) <= MaxWritten
                    BY <1>0, <2>1, <3>3
              <3>5. k + 1 < NumBlocks
                    <4> DEFINE x == k + 1
                               l == Len(put)
                    <4>1. x \in Nat \ {0} /\ l \in Nat /\ Before(x) <= l /\ l <= MaxWritten
                          BY <3>3, <3>4
                    <4> HIDE DEF x, l
                    <4>2. x < NumBlocks
                          BY <4>1, NumberInRange
                    <4> QED
                          BY <4>2 DEF x
              <3>6. i.blknum = k + 1
                    <4> DEFINE x == k + 1
                    <4>1. x \in Nat /\ x < NumBlocks /\ i.blknum = x % NumBlocks
                          BY <3>1, <3>3, <3>5
                    <4> HIDE DEF x
                    <4>2. x % NumBlocks = x
                          BY <4>1
                    <4> QED
                          BY <4>1, <4>2 DEF x
              <3>7. EndsWith(i, put)
                    <4>1. i.blknum >= 1 /\ Len(i.blk) = 0 /\ Len(put) = Before(i.blknum) + 0
                          BY <3>1, <3>2, <3>3, <3>6
                    <4> QED
                          BY <4>1 DEF EndsWith
              <3>8. ~i.lastblock
                    BY <2>1, <2>3, <3>1
              <3> HIDE DEF i
              <3>9. WriteTurn(i, call, q)
                    BY <2>3 DEF i
              <3> QED
                    BY <1>0, <2>0, <2>1, <2>3, <3>1, <3>7, <3>8, <3>9, WriteTurnWrites
        <2>4. ASSUME pc = "closing", info' = Sent, Return(call), put' = put
              PROVE  ClientWrites'
              <3>1. pc' = "done" /\ call'.left = 0
                    BY <2>4, NoCallTyped DEF Return, End
              <3>2. Len(put) <= MaxWritten
                    <4>1. Len(put) \in Nat
                          BY <1>0
                    <4> QED
                          BY <1>0, <2>1, <4>1
              <3>3. Len(put') + call'.left <= MaxWritten
                    <4>1. Len(put) \in Nat
                          BY <1>0
                    <4> QED
                          BY <2>4, <3>1, <3>2, <4>1
              <3>4. info'.mode = "write"
                    BY <1>0, <2>0, <2>4, SentTyped
              <3> QED
                    BY <2>0, <3>1, <3>3, <3>4 DEF ClientWrites
        <2>5. ASSUME pc \in {"writing", "closing"}, Return(call), put' = put,
                     info' = [info EXCEPT !.error = TRUE, !.lastblock = TRUE]
              PROVE  ClientWrites'
              <3> DEFINE yes == TRUE
              <3>1. yes \in BOOLEAN /\ info' = [info EXCEPT !.error = yes, !.lastblock = yes]
                    BY <2>5
              <3>2. /\ info'.mode = info.mode /\ info'.blknum = info.blknum /\ info'.blk = info.blk
                    /\ info'.error
                    <4> HIDE DEF yes
                    <4>1. /\ info'.mode = info.mode /\ info'.blknum = info.blknum
                          /\ info'.blk = info.blk /\ info'.error = yes
                          BY <1>0, <3>1 DEF Infos
                    <4> QED
                          BY <4>1 DEF yes
              <3>3. pc' \in {"idle", "done"} /\ call'.left = 0
                    BY <2>5, NoCallTyped DEF Return, End
              <3> QED
                    BY <1>0, <2>0, <2>5, <3>2, <3>3, WritesKeptBySame
        <2>6. ASSUME pc \in {"writing", "closing"}, Again(Data(info)), put' = put
              PROVE  ClientWrites'
              <3>1. info' = info \/ info' = [info EXCEPT !.error = TRUE]
                    BY <1>0, <2>6, AgainCases
              <3>2. /\ info'.mode = info.mode /\ info'.blknum = info.blknum /\ info'.blk = info.blk
                    /\ info'.lastblock = info.lastblock /\ (info.error => info'.error)
                    <4> DEFINE yes == TRUE
                    <4>1. yes \in BOOLEAN /\ (info' = info \/ info' = [info EXCEPT !.error = yes])
                          BY <3>1
                    <4>2. CASE info' = [info EXCEPT !.error = yes]
                          <5> HIDE DEF yes
                          <5>1. /\ info'.mode = info.mode /\ info'.blknum = info.blknum
                                /\ info'.blk = info.blk /\ info'.lastblock = info.lastblock
                                /\ info'.error = yes
                                BY <1>0, <4>1, <4>2 DEF Infos
                          <5> QED
                                BY <5>1 DEF yes
                    <4> QED
                          BY <4>1, <4>2
              <3>3. /\ call'.left = call.left \/ call'.left = 0
                    /\ pc' = pc \/ pc' \in {"idle", "done"}
                    BY <1>0, <2>6, AgainCases, NoCallTyped
              <3> QED
                    BY <1>0, <2>0, <2>6, <3>2, <3>3, WritesKeptBySame
        <2> QED
              BY <1>6, <2>2, <2>3, <2>4, <2>5, <2>6, WriteSteps
  <1>7. CASE (\E len \in Lengths : Read(len)) \/ ReadAnswered \/ ReadTimesOut
        <2>1. info.mode = "read" /\ put' = put /\ pc # "closed"
              BY <1>7, ReadSteps, ClientKept DEF Basics, ClientPlaced
        <2>2. info'.mode = "read"
              BY <2>1, ClientKept DEF ClientSends
        <2> QED
              BY <1>0, <2>1, <2>2 DEF ClientWrites, ClientPlaced
  <1>8. CASE \/ UNCHANGED vars
             \/ \E m \in toClient : Deliver(m)
             \/ \E s \in Session : SrvRequest(s) \/ SrvAck(s) \/ SrvData(s) \/ SrvError(s)
        BY <1>1, <1>8 DEF vars, Deliver, SrvRequest, SrvAck, SrvData, SrvError
  <1> QED
        BY <1>2, <1>3, <1>4, <1>5, <1>6, <1>7, <1>8 DEF Next, Client

LEMMA BlocksWrittenKept ==
    ASSUME Basics, WriteInv, NumbersSuffice, [Next]_vars
    PROVE  BlocksWritten'
  <1>0. /\ put \in Seq(Nat) /\ put' \in Seq(Nat) /\ ClientWrites' /\ ClientPlaced' /\ ClientSends
        /\ info' \in Infos /\ toServer \subseteq Queries
        BY ClientWritesKept, ClientKept DEF Basics, ClientTyped, NetTyped
  <1>1. ASSUME NEW m \in toServer, m.op = "data"
        PROVE  /\ peer' # Port69 /\ m.to = peer'
               /\ m.num >= 1 /\ Before(m.num) <= Len(put') /\ m.data = Piece(put', m.num)
               /\ Len(m.data) = BlockSize \/ pc' \in {"closing", "done"}
        <2>1. /\ peer # Port69 /\ m.to = peer /\ m.num >= 1
              /\ Before(m.num) <= Len(put) /\ m.data = Piece(put, m.num)
              /\ Len(m.data) = BlockSize \/ pc \in {"closing", "done"}
              BY <1>1 DEF WriteInv, BlocksWritten
        <2>2. m.num \in Nat \ {0}
              BY <1>0, <2>1 DEF Queries
        <2>3. peer' = peer
              BY <2>1, PeerChosen
        <2>4. CASE put' = put
              BY <2>1, <2>3, <2>4, PutSteps
        <2>5. CASE pc \in {"idle", "writing"} /\ \E q \in Seq(Nat) : put' = put \o q
              <3>1. PICK q \in Seq(Nat) : put' = put \o q
                    BY <2>5
              <3>2. Len(Piece(put, m.num)) = BlockSize
                    BY <2>1, <2>5
              <3>3. Before(m.num) <= Len(put') /\ Piece(put', m.num) = Piece(put, m.num)
                    BY <1>0, <2>1, <2>2, <3>1, <3>2, PieceStays
              <3> QED
                    BY <2>1, <2>3, <2>5, <3>3
        <2> QED
              BY <2>4, <2>5, PutSteps
  <1>2. ASSUME NEW m, NewQuery(m), m.op = "data", peer' = peer
        PROVE  /\ peer' # Port69 /\ m.to = peer'
               /\ m.num >= 1 /\ Before(m.num) <= Len(put') /\ m.data = Piece(put', m.num)
               /\ Len(m.data) = BlockSize \/ pc' \in {"closing", "done"}
        <2>1. info'.mode = "write" /\ pc' \in {"writing", "closing"} /\ m = Data(info')
              BY <1>2 DEF NewQuery, Request, Ack, Cancel
        <2>2. m.to = peer /\ m.num = info'.blknum /\ m.data = info'.blk
              BY <2>1 DEF Data
        <2>3. peer' # Port69
              BY <1>0, <2>1 DEF ClientPlaced
        <2>4. EndsWith(info', put') /\ (pc' = "writing" => Len(info'.blk) = BlockSize)
              BY <1>0, <2>1, <2>3 DEF ClientWrites, EndsWith
        <2>5. /\ info'.blknum \in Nat \ {0} /\ Before(info'.blknum) <= Len(put')
              /\ info'.blk = Piece(put', info'.blknum)
              BY <1>0, <2>4, EndIsPiece
        <2> QED
              BY <1>2, <2>1, <2>2, <2>3, <2>4, <2>5
  <1>3. ASSUME NEW m \in toServer', m \notin toServer
        PROVE  NewQuery(m) /\ peer' = peer
        BY <1>0, <1>3 DEF ClientSends
  <1> QED
        BY <1>1, <1>2, <1>3 DEF BlocksWritten

\* A block that is stored is the next of what was written.
LEMMA StoredIsNext ==
    ASSUME Basics, WriteInv, NumbersSuffice, SessionsKeptApart,
           NEW s \in Session, NEW m \in Answers, Stored(s, m)
    PROVE  /\ s = peer /\ peer # Port69 /\ info.mode = "write"
           /\ session[s].next \in Nat \ {0} /\ session[s].next < NumBlocks
           /\ \E q \in toServer :
                 /\ q.op = "data" /\ q.num = session[s].next
                 /\ session'[s].data = session[s].data \o q.data
                 /\ session'[s].closed = (Len(q.data) < BlockSize)
  <1>0. /\ session \in [Session -> Sessions] /\ toServer \subseteq Queries
        /\ put \in Seq(Nat) /\ call.left \in Nat
        BY DEF Basics, ServerTyped, NetTyped, ClientTyped, Calls
  <1>1. PICK q \in toServer :
           /\ q.op = "data" /\ q.to = s /\ q.num = session[s].next % NumBlocks
           /\ session'[s].data = session[s].data \o q.data
           /\ session'[s].closed = (Len(q.data) < BlockSize)
        BY DEF Stored
  <1>2. s = peer /\ peer # Port69 /\ info.mode = "write"
        BY <1>1 DEF WriteInv, BlocksWritten, Basics, AskedInMode
  <1>3. session[s].mode = "write" /\ ~session[s].closed
        BY DEF Stored
  <1> DEFINE n == session[s].next
             l == Len(put)
  <1>4. n \in Nat \ {0}
        <2>1. session[s].next >= 1
              BY <1>3 DEF SessionsKeptApart
        <2>2. session[s].next \in Nat
              BY <1>0 DEF Sessions
        <2> QED
              BY <2>1, <2>2
  <1>5. Before(n) <= l
        BY <1>2, <1>3 DEF WriteInv, PeerStores, IsFront
  <1>6. l \in Nat
        BY <1>0
  <1>7. l + call.left <= MaxWritten
        BY <1>2 DEF WriteInv, ClientWrites
  <1> HIDE DEF n, l
  <1>8. n < NumBlocks
        <2>1. l <= MaxWritten
              BY <1>0, <1>6, <1>7, TftpAssumption
        <2> QED
              BY <1>4, <1>5, <1>6, <2>1, NumberInRange
  <1>9. n % NumBlocks = n
        BY <1>4, <1>8
  <1> QED
        BY <1>1, <1>2, <1>4, <1>8, <1>9 DEF n

LEMMA PeerStoresKept ==
    ASSUME Basics, WriteInv, NumbersSuffice, SessionsKeptApart, [Next]_vars
    PROVE  PeerStores'
  <1>0. /\ session \in [Session -> Sessions] /\ put \in Seq(Nat) /\ Port69 \notin Session
        /\ peer \in Session \cup {Port69} /\ toServer \subseteq Queries
        /\ PeerStores /\ ClientWrites /\ ClientPlaced /\ ClientPlaced'
        BY ClientKept, TftpAssumption DEF Basics, ServerTyped, ClientTyped, WriteInv, NetTyped
  <1>1. CASE UNCHANGED <<file, session, toClient>>
        <2> SUFFICES ASSUME info'.mode = "write", peer' # Port69
                     PROVE  /\ session[peer'].mode = "write"
                            /\ ~session[peer'].closed =>
                                  IsFront(session[peer'].data, put', Before(session[peer'].next))
                            /\ session[peer'].closed =>
                                  session[peer'].data = put' /\ pc' \in {"closing", "done"}
              BY <1>1 DEF PeerStores
        <2>1. CASE peer' = peer
              <3>1. info.mode = "write"
                    <4>1. pc # "closed"
                          BY <1>0, <2>1 DEF ClientPlaced
                    <4> QED
                          BY <4>1, ClientKept DEF ClientSends
              <3>2. /\ session[peer].mode = "write" /\ peer \in Session
                    /\ ~session[peer].closed =>
                          IsFront(session[peer].data, put, Before(session[peer].next))
                    /\ session[peer].closed => session[peer].data = put /\ pc \in {"closing", "done"}
                    BY <1>0, <2>1, <3>1 DEF PeerStores
              <3>3. CASE put' = put
                    BY <2>1, <3>2, <3>3, PutSteps
              <3>4. CASE pc \in {"idle", "writing"} /\ \E q \in Seq(Nat) : put' = put \o q
                    <4>1. PICK q \in Seq(Nat) : put' = put \o q
                          BY <3>4
                    <4>2. ~session[peer].closed
                          BY <3>2, <3>4
                    <4>3. session[peer].data \in Seq(Nat)
                          BY <1>0, <3>2 DEF Sessions
                    <4> DEFINE n == Before(session[peer].next)
                    <4>4. IsFront(session[peer].data, put, n) /\ n \in Nat
                          BY <3>2, <4>2, <4>3 DEF IsFront
                    <4> HIDE DEF n
                    <4>5. IsFront(session[peer].data, put', n)
                          BY <1>0, <4>1, <4>3, <4>4, FrontStays
                    <4> QED
                          BY <2>1, <3>2, <4>2, <4>5 DEF n
              <3> QED
                    BY <3>3, <3>4, PutSteps
        <2>2. CASE peer' # peer
              <3>1. peer = Port69 /\ peer' \in Session
                    BY <2>2, PeerChosen
              <3>2. put = <<>> /\ put' = put
                    BY <1>0, <3>1, PutSteps DEF ClientWrites
              <3>3. PICK m \in toClient : peer' = m.from
                    <4>1. OpenAnswered
                          BY <2>2 DEF Next, Client, vars, client, Open, OpenTimesOut, Read, ReadAnswered,
                                ReadTimesOut, Write, WriteAnswered, WriteTimesOut, Close, Deliver,
                                SrvRequest, SrvAck, SrvData, SrvError
                    <4> QED
                          BY <2>2, <4>1 DEF OpenAnswered
              <3>4. session[peer'].mode # "none"
                    BY <3>3 DEF Basics, AnsweredInMode
              <3>5. session[peer'].mode = "write" 
                    <4>1. pc # "closed"
                          BY <1>0, <3>1, <3>4 DEF ClientPlaced, Basics, AnsweredInMode
                    <4>2. info.mode = "write"
                          BY <4>1, ClientKept DEF ClientSends
                    <4> QED
                          BY <3>1, <3>4, <4>2 DEF Basics, AnsweredInMode
              <3>6. /\ session[peer'].data = <<>> /\ ~session[peer'].closed
                    /\ session[peer'].next = 1
                    <4>1. /\ session[peer'].next <= 1 /\ session[peer'].next >= 1
                          /\ session[peer'].data = <<>> /\ ~session[peer'].closed
                          BY <1>0, <3>1, <3>4 DEF SessionsKeptApart
                    <4>2. session[peer'].next \in Nat
                          BY <1>0, <3>1 DEF Sessions
                    <4> QED
                          BY <4>1, <4>2
              <3>7. IsFront(<<>>, <<>>, Before(1))
                    BY BeforeFacts DEF IsFront
              <3> QED
                    BY <3>2, <3>5, <3>6, <3>7
        <2> QED
              BY <2>1, <2>2
  <1>2. ASSUME NEW s \in Session, NEW m \in Answers, ServerAnswers(s, m),
               info.mode = "write", peer # Port69
        PROVE  /\ session'[peer].mode = "write"
               /\ ~session'[peer].closed =>
                     IsFront(session'[peer].data, put, Before(session'[peer].next))
               /\ session'[peer].closed => session'[peer].data = put /\ pc \in {"closing", "done"}
        <2>0. /\ peer \in Session /\ session[peer].mode = "write"
              /\ ~session[peer].closed =>
                    IsFront(session[peer].data, put, Before(session[peer].next))
              /\ session[peer].closed => session[peer].data = put /\ pc \in {"closing", "done"}
              BY <1>0, <1>2 DEF PeerStores
        <2>1. CASE session'[peer] = session[peer]
              BY <2>0, <2>1
        <2>2. CASE s = peer /\ Stored(s, m)
              <3> DEFINE n == session[s].next
                         d == session[s].data
              <3>1. /\ n \in Nat \ {0} /\ n < NumBlocks /\ session'[s].next = n + 1
                    /\ session'[s].mode = "write" /\ ~session[s].closed
                    BY <1>2, <2>2, StoredIsNext DEF Stored
              <3>2. PICK q \in toServer :
                       /\ q.op = "data" /\ q.num = n /\ session'[s].data = d \o q.data
                       /\ session'[s].closed = (Len(q.data) < BlockSize)
                    BY <1>2, <2>2, StoredIsNext
              <3>3. /\ Before(n) <= Len(put) /\ q.data = Piece(put, n)
                    /\ Len(q.data) = BlockSize \/ pc \in {"closing", "done"}
                    BY <3>2 DEF WriteInv, BlocksWritten
              <3>4. d \in Seq(Nat) /\ q.data \in Seq(Nat)
                    BY <1>0 DEF Sessions, Queries
              <3>5. IsFront(d, put, Before(n))
                    BY <2>0, <2>2, <3>1
              <3> HIDE DEF n, d
              <3>6. Before(n) \in Nat /\ Before(n + 1) = Before(n) + BlockSize
                    BY <3>1, BeforeFacts
              <3>7. /\ Len(q.data) = IF Before(n) + BlockSize <= Len(put) THEN BlockSize
                                     ELSE Len(put) - Before(n)
                    /\ \A k \in 1..Len(q.data) : q.data[k] = put[Before(n) + k]
                    BY <1>0, <3>1, <3>3, PieceFacts
              <3>8. Len(put) \in Nat
                    BY <1>0
              <3> DEFINE b == Before(n)
                         l == Len(q.data)
              <3>9. b + l <= Len(put) /\ l \in Nat /\ (l < BlockSize => b + l = Len(put)) /\ l <= BlockSize
                    <4>1. b \in Nat /\ l = (IF b + BlockSize <= Len(put) THEN BlockSize
                                            ELSE Len(put) - b) /\ b <= Len(put)
                          BY <3>3, <3>6, <3>7
                    <4> HIDE DEF b, l
                    <4> QED
                          BY <3>8, <4>1
              <3>10. IsFront(d \o q.data, put, b + l)
                    <4>1. IsFront(d, put, b) /\ b \in Nat /\ b + Len(q.data) <= Len(put)
                          /\ \A k \in 1..Len(q.data) : q.data[k] = put[b + k]
                          BY <3>5, <3>6, <3>7, <3>9
                    <4> HIDE DEF b
                    <4>2. IsFront(d \o q.data, put, b + Len(q.data))
                          BY <1>0, <3>4, <4>1, LongerFront
                    <4> QED
                          BY <4>2
              <3>11. d \o q.data \in Seq(Nat) /\ b + l \in Nat
                     BY <3>4, <3>6, <3>9, ConcatProperties
              <3>12. CASE l = BlockSize
                     <4>1. ~session'[s].closed
                           <5>1. ~(l < BlockSize)
                                 BY <3>12
                           <5> QED
                                 BY <3>2, <5>1
                     <4>2. IsFront(session'[s].data, put, Before(session'[s].next))
                           BY <3>1, <3>2, <3>6, <3>10, <3>12
                     <4> QED
                           BY <2>2, <3>1, <4>1, <4>2
              <3>13. CASE l < BlockSize
                     <4>1. session'[s].closed /\ pc \in {"closing", "done"}
                           <5>1. l < BlockSize /\ l # BlockSize
                                 BY <3>9, <3>13
                           <5>2. session'[s].closed = (l < BlockSize)
                                 BY <3>2
                           <5>3. session'[s].closed
                                 BY <5>1, <5>2
                           <5> QED
                                 BY <3>3, <5>1, <5>3
                     <4>2. d \o q.data = put
                           <5> DEFINE x == b + l
                                      t == d \o q.data
                           <5>1. t \in Seq(Nat) /\ x \in Nat /\ IsFront(t, put, x) /\ x = Len(put)
                                 BY <3>9, <3>10, <3>11, <3>13
                           <5> HIDE DEF x, t
                           <5>2. t = put
                                 BY <1>0, <5>1, FrontIsPrefix
                           <5> QED
                                 BY <5>2 DEF t
                     <4> QED
                           BY <2>2, <3>1, <3>2, <4>1, <4>2
              <3>14. l = BlockSize \/ l < BlockSize
                     BY <3>9
              <3> QED
                    BY <3>12, <3>13, <3>14
        <2>3. CASE s = peer /\ ~Stored(s, m)
              <3>1. ~Granted(s, m) /\ ~Continued(s, m)
                    BY <2>0, <2>3 DEF Granted, Continued
              <3> QED
                    BY <1>2, <2>1, <2>3, <3>1 DEF ServerAnswers, GivenUp
        <2>4. CASE s # peer
              BY <1>2, <2>0, <2>1, <2>4 DEF ServerAnswers
        <2> QED
              BY <2>2, <2>3, <2>4
  <1>3. CASE \E s \in Session, m \in Answers : ServerAnswers(s, m)
        <2>1. UNCHANGED <<info, peer, put, pc>>
              BY <1>3 DEF ServerAnswers, client
        <2> QED
              BY <1>2, <1>3, <2>1 DEF PeerStores
  <1> QED
        BY <1>1, <1>3, ServerSteps

LEMMA AcksOfStoredKept ==
    ASSUME Basics, WriteInv, NumbersSuffice, SessionsKeptApart, [Next]_vars
    PROVE  AcksOfStored'
  <1>0. /\ session \in [Session -> Sessions] /\ toClient \subseteq Answers /\ Port69 \notin Session
        /\ peer \in Session \cup {Port69} /\ AcksOfStored
        BY TftpAssumption DEF Basics, ServerTyped, NetTyped, WriteInv, ClientTyped
  <1>1. CASE UNCHANGED <<file, session, toClient>>
        BY <1>0, <1>1, PeerChosen DEF AcksOfStored
  <1>2. ASSUME NEW s \in Session, NEW m \in Answers, ServerAnswers(s, m)
        PROVE  AcksOfStored'
        <2>1. toClient' = toClient \cup {m} /\ m.from = s /\ peer' = peer
              BY <1>2 DEF ServerAnswers, client
        <2>2. /\ m.op = "ack" => m.num = 0 \/ (peer # Port69 /\ s = peer /\ m.num < session'[peer].next)
              /\ peer # Port69 => session'[peer].next \in Nat /\ session[peer].next \in Nat
                                  /\ session[peer].next <= session'[peer].next
              <3>0. /\ session[s].next \in Nat
                    /\ peer # Port69 => session[peer].next \in Nat
                    BY <1>0 DEF Sessions
              <3>1. CASE Granted(s, m)
                    <4>1. session[s].next = 0 /\ session'[s].next = 1
                          BY <3>1 DEF Granted, SessionsKeptApart
                    <4>2. peer # Port69 => session'[peer].next \in Nat
                                           /\ session[peer].next <= session'[peer].next
                          BY <1>0, <1>2, <3>0, <4>1 DEF ServerAnswers
                    <4> QED
                          BY <3>0, <3>1, <4>2 DEF Granted
              <3>2. CASE Continued(s, m)
                    <4>1. peer # Port69 => session'[peer].next \in Nat
                                           /\ session[peer].next <= session'[peer].next
                          BY <1>0, <1>2, <3>0, <3>2 DEF ServerAnswers, Continued
                    <4> QED
                          BY <3>0, <3>2, <4>1 DEF Continued
              <3>3. CASE Stored(s, m)
                    <4>1. /\ s = peer /\ peer # Port69 /\ session[s].next < NumBlocks
                          /\ session'[s].next = session[s].next + 1
                          /\ m.num = session[s].next % NumBlocks
                          BY <3>3, StoredIsNext DEF Stored
                    <4>2. m.num = session[s].next
                          BY <3>0, <4>1
                    <4> QED
                          BY <3>0, <4>1, <4>2
              <3>4. CASE GivenUp(s, m)
                    BY <3>0, <3>4 DEF GivenUp
              <3> QED
                    BY <1>2, <3>1, <3>2, <3>3, <3>4 DEF ServerAnswers
        <2>3. ASSUME NEW l \in toClient, l.op = "ack"
              PROVE  l.num = 0 \/ (peer # Port69 /\ l.from = peer /\ l.num < session'[peer].next)
              <3>1. l.num = 0 \/ (peer # Port69 /\ l.from = peer /\ l.num < session[peer].next)
                    BY <1>0, <2>3 DEF AcksOfStored
              <3>2. l.num \in Nat
                    BY <1>0 DEF Answers
              <3> QED
                    BY <2>2, <3>1, <3>2
        <2> QED
              BY <2>1, <2>2, <2>3 DEF AcksOfStored
  <1> QED
        BY <1>1, <1>2, ServerSteps

\* When the last block has been acknowledged the peer has stored all that was written.
LEMMA LastIsStored ==
    ASSUME Basics, WriteInv, NEW m \in toClient, Acked(m), pc = "closing",
           Len(info.blk) # BlockSize
    PROVE  session[peer].closed /\ session[peer].data = put
  <1>0. /\ session \in [Session -> Sessions] /\ peer \in Session /\ info.mode = "write"
        /\ put \in Seq(Nat) /\ info \in Infos /\ m.op = "ack" /\ m.num = info.blknum
        BY DEF Basics, ServerTyped, ClientPlaced, ClientTyped, Acked
  <1>1. EndsWith(info, put) /\ peer # Port69
        BY <1>0 DEF WriteInv, ClientWrites, Basics, ClientPlaced
  <1> DEFINE k == info.blknum
             n == session[peer].next
  <1>2. k \in Nat \ {0} /\ Len(info.blk) \in Nat
        BY <1>0, <1>1 DEF EndsWith, Infos
  <1>3. k < n
        BY <1>0, <1>2 DEF WriteInv, AcksOfStored
  <1>4. n \in Nat \ {0}
        <2>1. n \in Nat
              BY <1>0 DEF Sessions
        <2> QED
              BY <1>2, <1>3, <2>1
  <1>5. Len(put) = Before(k) + Len(info.blk) /\ Len(info.blk) <= BlockSize
        BY <1>1 DEF EndsWith
  <1>6. ~session[peer].closed => Before(n) <= Len(put)
        BY <1>0, <1>1 DEF WriteInv, PeerStores, IsFront
  <1> HIDE DEF k, n
  <1>7. Before(k) + BlockSize <= Before(n) /\ Before(k) \in Nat /\ Before(n) \in Nat
        BY <1>2, <1>3, <1>4, BeforeLater, BeforeFacts
  <1>8. session[peer].closed
        BY <1>2, <1>5, <1>6, <1>7
  <1> QED
        BY <1>0, <1>1, <1>8 DEF WriteInv, PeerStores

LEMMA FlushedKept ==
    ASSUME Basics, WriteInv, NumbersSuffice, SessionsKeptApart, [Next]_vars
    PROVE  FlushedIsStored'
  <1>0. /\ session \in [Session -> Sessions] /\ info \in Infos /\ info' \in Infos
        /\ ClientPlaced /\ ClientPlaced' /\ ClientTyped' /\ ClientWrites /\ ClientWrites'
        /\ peer \in Session \cup {Port69} /\ FlushedIsStored
        BY ClientKept, ClientWritesKept DEF Basics, ServerTyped, ClientTyped, WriteInv
  <1>1. CASE pc' # "done"
        <2>1. info'.mode = "write" /\ info'.lastblock => info'.error
              BY <1>0, <1>1 DEF ClientPlaced, ClientWrites
        <2> QED
              BY <2>1 DEF FlushedIsStored
  <1>2. CASE peer' = Port69
        BY <1>0, <1>2 DEF FlushedIsStored, ClientPlaced
  <1>3. CASE /\ peer' = peer /\ peer # Port69 /\ info'.mode = info.mode /\ put' = put
             /\ info'.lastblock = info.lastblock /\ info'.error = info.error
        <2> SUFFICES ASSUME info.mode = "write", info.lastblock, ~info.error
                     PROVE  session'[peer].closed /\ session'[peer].data = put
              BY <1>3 DEF FlushedIsStored
        <2>1. session[peer].closed /\ session[peer].data = put /\ session[peer].mode = "write"
              BY <1>0, <1>3 DEF FlushedIsStored, WriteInv, PeerStores
        <2>2. CASE UNCHANGED <<file, session, toClient>>
              BY <2>1, <2>2
        <2>3. ASSUME NEW s \in Session, NEW m \in Answers, ServerAnswers(s, m)
              PROVE  session'[peer] = session[peer]
              <3>1. CASE s = peer
                    <4>1. ~Granted(s, m) /\ ~Continued(s, m) /\ ~Stored(s, m)
                          BY <2>1, <3>1 DEF Granted, Continued, Stored
                    <4> QED
                          BY <2>3, <4>1 DEF ServerAnswers, GivenUp
              <3>2. CASE s # peer
                    BY <1>0, <1>3, <2>3, <3>2 DEF ServerAnswers
              <3> QED
                    BY <3>1, <3>2
        <2> QED
              BY <2>1, <2>2, <2>3, ServerSteps
  <1>4. CASE \/ UNCHANGED client
             \/ Close
        <2>1. UNCHANGED <<info, peer, put>>
              BY <1>4 DEF client, Close
        <2> QED
              BY <1>2, <1>3, <2>1
  <1>5. CASE (\E mode \in {"read", "write"} : Open(mode)) \/ OpenTimesOut \/ OpenAnswered
        <2>1. CASE peer' = peer
              <3>1. peer = Port69
                    BY <1>0, <1>5 DEF Open, OpenTimesOut, OpenAnswered, ClientPlaced
              <3> QED
                    BY <1>2, <2>1, <3>1
        <2>2. CASE peer' # peer
              <3>1. pc' = "idle"
                    BY <1>5, <2>2 DEF Open, OpenTimesOut, OpenAnswered
              <3> QED
                    BY <1>1, <3>1
        <2> QED
              BY <2>1, <2>2
  <1>6. CASE (\E len \in Lengths : Read(len)) \/ ReadAnswered \/ ReadTimesOut
        <2>1. info.mode = "read" /\ pc # "closed"
              BY <1>0, <1>6, ReadSteps DEF ClientPlaced
        <2>2. info'.mode = "read"
              BY <2>1, ClientKept DEF ClientSends
        <2> QED
              BY <2>2 DEF FlushedIsStored
  <1>7. CASE (\E len \in Lengths : Write(len)) \/ WriteAnswered \/ WriteTimesOut
        <2>0. /\ pc \in {"idle", "writing", "closing"} /\ info.mode = "write" /\ peer # Port69
              /\ peer' = peer /\ session' = session
              BY <1>7, WriteSteps DEF server
        <2>1. info.lastblock => info.error
              BY <1>0, <2>0 DEF ClientWrites
        <2>2. ASSUME pc = "closing", info' = Sent, put' = put, NEW m \in toClient, Acked(m)
              PROVE  FlushedIsStored'
              <3>1. info'.lastblock <=> Len(info.blk) # BlockSize
                    BY <1>0, <2>2, SentTyped
              <3> QED
                    BY <2>0, <2>2, <3>1, LastIsStored DEF FlushedIsStored
        <2>3. ASSUME info' = [info EXCEPT !.error = TRUE, !.lastblock = TRUE]
              PROVE  FlushedIsStored'
              <3> DEFINE yes == TRUE
              <3>1. yes \in BOOLEAN /\ info' = [info EXCEPT !.error = yes, !.lastblock = yes]
                    BY <2>3
              <3>2. info'.error
                    <4> HIDE DEF yes
                    <4>1. info'.error = yes
                          BY <1>0, <3>1 DEF Infos
                    <4> QED
                          BY <4>1 DEF yes
              <3> QED
                    BY <3>2 DEF FlushedIsStored
        <2>4. ASSUME pc \in {"writing", "closing"}, Again(Data(info)), put' = put
              PROVE  FlushedIsStored'
              <3>1. info' = info \/ info' = [info EXCEPT !.error = TRUE]
                    BY <2>4, AgainCases DEF Basics
              <3>2. CASE info' = info
                    BY <1>3, <2>0, <2>4, <3>2
              <3>3. CASE info' = [info EXCEPT !.error = TRUE]
                    <4> DEFINE yes == TRUE
                    <4>1. yes \in BOOLEAN /\ info' = [info EXCEPT !.error = yes]
                          BY <3>3
                    <4>2. info'.error
                          <5> HIDE DEF yes
                          <5>1. info'.error = yes
                                BY <1>0, <4>1 DEF Infos
                          <5> QED
                                BY <5>1 DEF yes
                    <4> QED
                          BY <4>2 DEF FlushedIsStored
              <3> QED
                    BY <3>1, <3>2, <3>3
        <2>5. ASSUME NEW i, NEW c, NEW q, WriteTurn(i, c, q), pc \in {"idle", "writing"}
              PROVE  FlushedIsStored'
              <3>1. pc' # "done"
                    BY <2>5 DEF WriteTurn
              <3> QED
                    BY <1>1, <3>1
        <2> QED
              BY <1>7, <2>0, <2>2, <2>3, <2>4, <2>5, WriteSteps
  <1>8. CASE \/ UNCHANGED vars
             \/ \E m \in toClient : Deliver(m)
             \/ \E s \in Session : SrvRequest(s) \/ SrvAck(s) \/ SrvData(s) \/ SrvError(s)
        BY <1>4, <1>8 DEF vars, Deliver, SrvRequest, SrvAck, SrvData, SrvError
  <1> QED
        BY <1>4, <1>5, <1>6, <1>7, <1>8 DEF Next, Client

LEMMA WriteInvHolds == NumbersSuffice => (Spec => []WriteInv)
  <1>1. Init => WriteInv
        <2> SUFFICES ASSUME Init
                     PROVE  WriteInv
              OBVIOUS
        <2>1. info.mode = "none" /\ peer = Port69 /\ put = <<>> /\ pc = "closed" /\ ~info.lastblock
              /\ toServer = {} /\ toClient = {}
              BY DEF Init
        <2> QED
              BY <2>1 DEF WriteInv, ClientWrites, BlocksWritten, PeerStores, AcksOfStored,
                          FlushedIsStored
  <1>2. NumbersSuffice /\ Basics /\ ReadInv /\ WriteInv /\ [Next]_vars => WriteInv'
        BY ClientWritesKept, BlocksWrittenKept, PeerStoresKept, AcksOfStoredKept, FlushedKept
           DEF WriteInv, ReadInv
  <1>3. ASSUME NumbersSuffice
        PROVE  Basics /\ ReadInv /\ WriteInv /\ [Next]_vars => WriteInv'
        BY <1>2, <1>3
  <1> SUFFICES ASSUME NumbersSuffice
               PROVE  Spec => []WriteInv
        OBVIOUS
  <1>4. Basics /\ ReadInv /\ WriteInv /\ [Next]_vars => WriteInv'
        BY <1>3
  <1> QED
        BY <1>1, <1>4, TftpTyped, ReadInvHolds, PTL DEF Spec

\* What the server has stored is what was written, from its beginning, whatever the
\* network does, as long as no block number is used twice (tftp_fileop_write, _tftp_writemore).
THEOREM WhatIsStoredWasWritten == NumbersSuffice => (Spec => []WritesTheFile)
  <1> SUFFICES ASSUME NumbersSuffice
               PROVE  Spec => []WritesTheFile
        OBVIOUS
  <1>1. Basics /\ ReadInv /\ WriteInv => WritesTheFile
        <2> SUFFICES ASSUME Basics, ReadInv, WriteInv, peer # Port69
                     PROVE  IsPrefix(session[peer].data, put)
              BY DEF WritesTheFile
        <2>1. /\ session[peer].data \in Seq(Nat) /\ put \in Seq(Nat) /\ peer \in Session
              /\ session[peer].mode \in Modes
              BY DEF Basics, ServerTyped, ClientTyped, Sessions
        <2>2. CASE session[peer].mode # "write"
              <3>1. IsFront(session[peer].data, put, 0) /\ 0 \in Nat
                    BY <2>1, <2>2 DEF ReadInv, SessionsKeptApart, IsFront
              <3> QED
                    BY <2>1, <3>1, FrontIsPrefix
        <2>3. CASE session[peer].mode = "write"
              <3> DEFINE n == Len(session[peer].data)
              <3>1. info.mode = "write"
                    BY <2>1, <2>3 DEF Basics, AnsweredInMode
              <3>2. IsFront(session[peer].data, put, n) /\ n \in Nat
                    <4>1. CASE session[peer].closed
                          BY <2>1, <3>1, <4>1 DEF WriteInv, PeerStores, IsFront
                    <4>2. CASE ~session[peer].closed
                          BY <2>1, <3>1, <4>2 DEF WriteInv, PeerStores, IsFront
                    <4> QED
                          BY <4>1, <4>2
              <3> HIDE DEF n
              <3> QED
                    BY <2>1, <3>2, FrontIsPrefix
        <2> QED
              BY <2>2, <2>3
  <1> QED
        BY <1>1, TftpTyped, ReadInvHolds, WriteInvHolds, PTL

\* A file whose last block has been acknowledged is stored, all of it, as long as no block
\* number is used twice (_tftp_close).
THEOREM AckedFileIsStored == NumbersSuffice => (Spec => []FlushedIsStored)
  <1>1. WriteInv => FlushedIsStored
        BY DEF WriteInv
  <1> QED
        BY <1>1, WriteInvHolds, PTL

=============================================================================
