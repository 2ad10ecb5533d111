---------------------------- MODULE MemoryProofs ----------------------------
(***************************************************************************)
(* Theorems about the two structures of the driver's memory, for every     *)
(* size of them: EthRing, the rings of descriptors, and Heap, the pool     *)
(* that they and everything else are allocated from.                       *)
(*                                                                         *)
(* The receive ring and the transmit ring are queues of frames, whatever   *)
(* the controller does between two stores of the driver.                   *)
(*                                                                         *)
(* The heap stays well formed and implements Allocator, for every size of  *)
(* the pool, of its nodes and of the requests.  kfree is proved in two     *)
(* steps, as kmemcompact works: each merge keeps the tiling and the areas, *)
(* and after the second nothing is left to merge.                          *)
(***************************************************************************)
EXTENDS EthRing, Heap, Integers, SequenceTheorems, TLAPS

USE RingAssumption

-----------------------------------------------------------------------------
(* Places in a ring *)

\* The k-th descriptor behind f
At(f, k) == IF f + k < NrRx THEN f + k ELSE f + k - NrRx

LEMMA ModIs ==
    ASSUME NEW n \in Nat \ {0}
    PROVE  /\ \A a \in 0 .. n - 1 : a % n = a
           /\ \A a \in n .. 2 * n - 1 : a % n = a - n
OBVIOUS

LEMMA AtIs ==
    ASSUME NEW f \in Rx, NEW k \in 0 .. NrRx
    PROVE  /\ At(f, k) \in Rx /\ (f + k) % NrRx = At(f, k)
           /\ At(f, 0) = f /\ At(f, NrRx) = f
<1>1. f \in 0 .. NrRx - 1 /\ NrRx \in Nat \ {0}
  BY DEF Rx
<1>2. CASE f + k \in 0 .. NrRx - 1
  BY <1>1, <1>2, ModIs DEF At, Rx
<1>3. CASE f + k \in NrRx .. 2 * NrRx - 1
  BY <1>1, <1>3, ModIs DEF At, Rx
<1> QED BY <1>1, <1>2, <1>3

LEMMA AtOnce ==
    ASSUME NEW f \in Rx, NEW j \in 0 .. NrRx - 1, NEW k \in 0 .. NrRx - 1, At(f, j) = At(f, k)
    PROVE  j = k
BY DEF At, Rx

LEMMA AtAll ==
    ASSUME NEW f \in Rx, NEW i \in Rx
    PROVE  \E k \in 0 .. NrRx - 1 : i = At(f, k)
<1> DEFINE k == IF i >= f THEN i - f ELSE i - f + NrRx
<1>1. k \in 0 .. NrRx - 1 /\ i = At(f, k)
  BY DEF At, Rx
<1> QED BY <1>1

LEMMA AtNext ==
    ASSUME NEW f \in Rx, NEW k \in 0 .. NrRx - 1
    PROVE  /\ At(At(f, 1), k) = At(f, k + 1) /\ At(f, 1) \in Rx /\ k + 1 \in 0 .. NrRx
           /\ At(f, k + 1) = IF At(f, k) = NrRx - 1 THEN 0 ELSE At(f, k) + 1
BY DEF At, Rx

LEMMA LastIs ==
    ASSUME NEW f \in Rx
    PROVE  At(At(f, 1), NrRx - 1) = f /\ At(f, 1) = IF f = NrRx - 1 THEN 0 ELSE f + 1
BY DEF At, Rx

-----------------------------------------------------------------------------
(* Sequences of frames *)

LEMMA Appended ==
    ASSUME NEW n \in Nat, NEW s \in [1 .. n -> Frame], NEW t \in [1 .. n + 1 -> Frame],
           NEW f \in Frame, \A k \in 1 .. n : t[k] = s[k], t[n + 1] = f
    PROVE  t = Append(s, f) /\ Len(s) = n
<1>1. s \in Seq(Frame) /\ Len(s) = n /\ t \in Seq(Frame) /\ Len(t) = n + 1
  OBVIOUS
<1>2. /\ Append(s, f) \in Seq(Frame) /\ Len(Append(s, f)) = n + 1
      /\ \A k \in 1 .. n + 1 : Append(s, f)[k] = IF k <= n THEN s[k] ELSE f
  BY <1>1, AppendProperties
<1>3. \A k \in 1 .. n + 1 : t[k] = Append(s, f)[k]
  BY <1>2
<1> QED BY <1>1, <1>2, <1>3, SeqEqual

LEMMA Removed ==
    ASSUME NEW n \in Nat \ {0}, NEW s \in [1 .. n -> Frame], NEW t \in [1 .. n - 1 -> Frame],
           \A k \in 1 .. n - 1 : t[k] = s[k + 1]
    PROVE  t = Tail(s) /\ s # <<>> /\ Head(s) = s[1]
<1>1. s \in Seq(Frame) /\ Len(s) = n /\ t \in Seq(Frame) /\ Len(t) = n - 1
  OBVIOUS
<1>2. s # <<>>
  BY <1>1
<1>3. /\ Tail(s) \in Seq(Frame) /\ Len(Tail(s)) = n - 1
      /\ \A k \in 1 .. n - 1 : Tail(s)[k] = s[k + 1]
  BY <1>1, <1>2, HeadTailProperties
<1>4. t = Tail(s)
  BY <1>1, <1>3, SeqEqual
<1> QED BY <1>1, <1>2, <1>4

-----------------------------------------------------------------------------
(* Types *)

RxDescriptor == [own : BOOLEAN, eop : BOOLEAN, wrap : BOOLEAN, room : BOOLEAN,
                 frame : Frame \cup {NoFrame, Cut}]
TxDescriptor == [own : BOOLEAN, wrap : BOOLEAN, frame : Frame \cup {NoFrame}]

RxTyped == /\ rx \in [Rx -> RxDescriptor] /\ rd \in Rx /\ rxHw \in Rx
           /\ filling \in BOOLEAN /\ rxOn \in BOOLEAN /\ got \in Frame \cup {NoFrame}
TxTyped == /\ tx \in [Tx -> TxDescriptor] /\ wr \in Tx /\ txHw \in Tx
           /\ txOn \in BOOLEAN /\ sent \in Frame \cup {NoFrame}
PcTyped == pc \in {"idle", "copied", "sized", "cleared", "given", "filled", "owned", "started",
                   "closing", "closed"}

LEMMA TypedIs == TypeOK <=> RxTyped /\ TxTyped /\ PcTyped
BY DEF TypeOK, RxTyped, TxTyped, PcTyped, RxDescriptor, TxDescriptor

-----------------------------------------------------------------------------
(* The receive ring *)

Reading == {"copied", "sized", "cleared", "given"}
Busy    == pc \in {"copied", "sized", "cleared"}
Oldest  == IF pc \in Reading THEN At(rd, 1) ELSE rd

Full(i)  == rx[i].eop /\ ~ rx[i].own /\ rx[i].frame \in Frame
Spare(i) == rx[i].own /\ ~ rx[i].eop /\ rx[i].room
Handled(i) == ~ rx[i].own /\ (rx[i].eop <=> pc # "cleared") /\ (pc # "copied" => rx[i].room)

\* From the oldest on, c descriptors have frames; the rest is the controller's but
\* for the one that is being read, which is the last.
Ring(c) ==
    \A k \in 0 .. NrRx - 1 :
       /\ k < c => Full(At(Oldest, k))
       /\ k >= c /\ Busy /\ k = NrRx - 1 => Handled(At(Oldest, k))
       /\ k >= c /\ ~ (Busy /\ k = NrRx - 1) => Spare(At(Oldest, k))

RxInv(c) ==
    /\ c \in 0 .. NrRx /\ (Busy => c < NrRx)
    /\ rxHw = At(Oldest, c)
    /\ Ring(c)
    /\ filling => rx[rxHw].own /\ rx[rxHw].frame \in Frame
    /\ \A i \in Rx : rx[i].wrap = (i = NrRx - 1)

Frames(c) == [k \in 1 .. c |-> rx[At(Oldest, k - 1)].frame]

LEMMA OldestIs ==
    TypeOK => /\ Oldest \in Rx /\ First = Oldest /\ rd \in Rx
              /\ Busy => At(Oldest, NrRx - 1) = rd
<1> SUFFICES ASSUME TypeOK
             PROVE  /\ Oldest \in Rx /\ First = Oldest /\ rd \in Rx
                    /\ Busy => At(Oldest, NrRx - 1) = rd
  OBVIOUS
<1>1. rd \in Rx /\ 1 \in 0 .. NrRx
  BY DEF TypeOK
<1>2. At(rd, 1) \in Rx /\ (rd + 1) % NrRx = At(rd, 1) /\ At(At(rd, 1), NrRx - 1) = rd
  BY <1>1, AtIs, LastIs
<1> QED BY <1>1, <1>2 DEF Oldest, First, Reading, Busy

\* The number of frames in the ring is the one that the refinement picks.
LEMMA CountIs == TypeOK => \A c : RxInv(c) => Count = c
<1> SUFFICES ASSUME TypeOK, NEW c, RxInv(c) PROVE Count = c
  OBVIOUS
<1>1. /\ Oldest \in Rx /\ First = Oldest /\ rd \in Rx /\ c \in 0 .. NrRx
      /\ Busy => At(Oldest, NrRx - 1) = rd /\ c < NrRx
  BY OldestIs DEF RxInv
<1>2. ASSUME NEW k \in 0 .. NrRx - 1 PROVE Unread((First + k) % NrRx) <=> k < c
  <2>1. (First + k) % NrRx = At(Oldest, k) /\ NrRx - 1 \in 0 .. NrRx - 1 /\ NrRx \in Nat
    BY <1>1, AtIs
  <2>2. At(Oldest, k) = rd /\ Busy => k = NrRx - 1
    BY <1>1, <2>1, AtOnce
  <2>3. CASE k < c
    <3>1. rx[At(Oldest, k)].eop
      BY <2>3 DEF RxInv, Ring, Full
    <3>2. ~ (At(Oldest, k) = rd /\ Busy)
      BY <1>1, <2>1, <2>2, <2>3
    <3> QED BY <2>1, <2>3, <3>1, <3>2 DEF Unread, Busy
  <2>4. CASE ~ (k < c)
    <3>1. k >= c
      BY <1>1, <2>4
    <3>2. CASE Busy /\ k = NrRx - 1
      <4>1. Handled(At(Oldest, k)) /\ At(Oldest, k) = rd
        BY <1>1, <3>1, <3>2 DEF RxInv, Ring
      <4> QED BY <2>1, <2>4, <3>2, <4>1 DEF Handled, Unread, Busy
    <3>3. CASE ~ (Busy /\ k = NrRx - 1)
      <4>1. Spare(At(Oldest, k))
        BY <3>1, <3>3 DEF RxInv, Ring
      <4> QED BY <2>1, <2>4, <4>1 DEF Spare, Unread
    <3> QED BY <3>2, <3>3
  <2> QED BY <2>3, <2>4
<1>3. ASSUME NEW n \in 0 .. NrRx, \A k \in 0 .. NrRx - 1 : Unread((First + k) % NrRx) <=> k < n
      PROVE  n = c
  <2>1. \A k \in 0 .. NrRx - 1 : k < n <=> k < c
    BY <1>2, <1>3
  <2>2. ~ (n < c)
    <3> SUFFICES ASSUME n < c PROVE FALSE
      OBVIOUS
    <3>1. n \in 0 .. NrRx - 1 /\ ~ (n < n)
      BY <1>1
    <3> QED BY <2>1, <3>1
  <2>3. ~ (c < n)
    <3> SUFFICES ASSUME c < n PROVE FALSE
      OBVIOUS
    <3>1. c \in 0 .. NrRx - 1 /\ ~ (c < c)
      BY <1>1
    <3> QED BY <2>1, <3>1
  <2> QED BY <1>1, <2>2, <2>3
<1> QED BY <1>1, <1>2, <1>3 DEF Count

LEMMA FramesTyped == RxTyped => \A c : RxInv(c) => Frames(c) \in [1 .. c -> Frame]
<1> SUFFICES ASSUME RxTyped, NEW c, RxInv(c) PROVE Frames(c) \in [1 .. c -> Frame]
  OBVIOUS
<1>1. ASSUME NEW k \in 1 .. c PROVE rx[At(Oldest, k - 1)].frame \in Frame
  <2>1. c \in 0 .. NrRx
    BY DEF RxInv
  <2>2. k - 1 \in 0 .. NrRx - 1 /\ k - 1 < c
    BY <2>1
  <2>3. Full(At(Oldest, k - 1))
    BY <2>2 DEF RxInv, Ring
  <2> QED BY <2>3 DEF Full
<1> QED BY <1>1 DEF Frames

LEMMA FramesThen == RxTyped' => (\A c : RxInv(c) => Frames(c) \in [1 .. c -> Frame])'
BY FramesTyped, PTL

LEMMA OldestThen ==
    TypeOK' => (/\ Oldest \in Rx /\ First = Oldest /\ rd \in Rx
                /\ Busy => At(Oldest, NrRx - 1) = rd)'
BY OldestIs, PTL

LEMMA CountThen == TypeOK' => (\A c : RxInv(c) => Count = c)'
BY CountIs, PTL

-----------------------------------------------------------------------------
(* The receive ring, step by step *)

\* What the next state of the queue is to the refinement
Kept(c, d) == RxTyped' /\ RxInv(d)' /\ Frames(d)' = Frames(c)

LEMMA RingRests ==
    ASSUME NEW c, RxTyped, RxInv(c), rx' = rx, rd' = rd, rxHw' = rxHw, filling' = filling,
           got' = got, rxOn' \in BOOLEAN,
           pc' = pc \/ (pc \notin Reading /\ pc' \notin Reading)
    PROVE  Kept(c, c)
<1>1. Oldest' = Oldest /\ (Busy' <=> Busy) /\ (Busy => pc' = pc)
  BY DEF Oldest, Busy, Reading
<1>2. RxTyped'
  BY DEF RxTyped
<1>3. Ring(c)'
  BY <1>1 DEF RxInv, Ring, Full, Spare, Handled
<1>4. RxInv(c)'
  BY <1>1, <1>3 DEF RxInv
<1>5. Frames(c)' = Frames(c)
  BY <1>1 DEF Frames
<1> QED BY <1>2, <1>4, <1>5 DEF Kept

LEMMA StoreKeeps ==
    ASSUME NEW c, RxTyped, PcTyped, RxInv(c), NEW f \in Frame, Store(f)
    PROVE  Kept(c, c) /\ got' = got
<1>1. Oldest \in Rx /\ rd \in Rx
  BY AtIs DEF RxTyped, Oldest
<1>2. /\ ~ filling /\ rx[rxHw].own /\ rxHw \in Rx
      /\ rx' = [rx EXCEPT ![rxHw].frame = IF rx[rxHw].room THEN f ELSE Cut]
      /\ filling' = TRUE /\ UNCHANGED <<rd, rxHw, rxOn, got, pc>>
  BY DEF Store, RxTyped
<1>3. c \in 0 .. NrRx - 1 /\ rxHw = At(Oldest, c)
  <2>1. c # NrRx
    <3> SUFFICES ASSUME c = NrRx PROVE FALSE
      OBVIOUS
    <3>1. rxHw = At(Oldest, 0) /\ 0 \in 0 .. NrRx - 1 /\ 0 < c
      BY <1>1, AtIs DEF RxInv
    <3>2. Full(rxHw)
      BY <3>1 DEF RxInv, Ring
    <3> QED BY <1>2, <3>2 DEF Full
  <2> QED BY <2>1 DEF RxInv
<1>4. rx[rxHw].room /\ Spare(rxHw)
  <2>1. c >= c
    BY <1>3
  <2>2. Handled(rxHw) \/ Spare(rxHw)
    BY <1>3, <2>1 DEF RxInv, Ring
  <2> QED BY <1>2, <2>2 DEF Handled, Spare
<1>5. rx' = [rx EXCEPT ![rxHw].frame = f]
  BY <1>2, <1>4
<1>6. /\ rx' \in [Rx -> RxDescriptor]
      /\ \A i \in Rx : /\ rx'[i].own = rx[i].own /\ rx'[i].eop = rx[i].eop
                       /\ rx'[i].wrap = rx[i].wrap /\ rx'[i].room = rx[i].room
                       /\ i # rxHw => rx'[i].frame = rx[i].frame
      /\ rx'[rxHw].frame = f
  BY <1>2, <1>5 DEF RxTyped, RxDescriptor
<1>7. Oldest' = Oldest /\ (Busy' <=> Busy)
  BY <1>2 DEF Oldest, Busy
<1>8. ASSUME NEW k \in 0 .. NrRx - 1
      PROVE  /\ At(Oldest, k) \in Rx
             /\ k < c => At(Oldest, k) # rxHw
  BY <1>1, <1>3, AtIs, AtOnce
<1>9. Ring(c)'
  <2> SUFFICES ASSUME NEW k \in 0 .. NrRx - 1
               PROVE  /\ k < c => Full(At(Oldest, k))'
                      /\ k >= c /\ Busy /\ k = NrRx - 1 => Handled(At(Oldest, k))'
                      /\ k >= c /\ ~ (Busy /\ k = NrRx - 1) => Spare(At(Oldest, k))'
    BY <1>7 DEF Ring
  <2>1. k < c => Full(At(Oldest, k))'
    BY <1>6, <1>7, <1>8 DEF RxInv, Ring, Full
  <2>2. k >= c /\ Busy /\ k = NrRx - 1 => Handled(At(Oldest, k))'
    BY <1>2, <1>6, <1>7, <1>8 DEF RxInv, Ring, Handled
  <2>3. k >= c /\ ~ (Busy /\ k = NrRx - 1) => Spare(At(Oldest, k))'
    BY <1>6, <1>7, <1>8 DEF RxInv, Ring, Spare
  <2> QED BY <2>1, <2>2, <2>3
<1>10. RxInv(c)'
  BY <1>2, <1>3, <1>6, <1>7, <1>9 DEF RxInv
<1>11. Frames(c)' = Frames(c)
  <2>1. ASSUME NEW k \in 1 .. c PROVE rx'[At(Oldest, k - 1)].frame = rx[At(Oldest, k - 1)].frame
    <3>1. k - 1 \in 0 .. NrRx - 1 /\ k - 1 < c
      BY <1>3
    <3> QED BY <1>6, <1>8, <3>1
  <2> QED BY <1>7, <2>1 DEF Frames
<1>12. RxTyped'
  BY <1>2, <1>6 DEF RxTyped
<1> QED BY <1>2, <1>10, <1>11, <1>12 DEF Kept

LEMMA StoredKeeps ==
    ASSUME NEW c, RxTyped, PcTyped, RxInv(c), Stored
    PROVE  /\ c < NrRx /\ RxTyped' /\ RxInv(c + 1)' /\ got' = got
           /\ \E f \in Frame : Frames(c + 1)' = Append(Frames(c), f)
<1> DEFINE d == c + 1
           f == rx[rxHw].frame
<1>1. Oldest \in Rx /\ rd \in Rx
  BY AtIs DEF RxTyped, Oldest
<1>2. /\ filling /\ rx[rxHw].own /\ rxHw \in Rx /\ f \in Frame
      /\ rx' = [rx EXCEPT ![rxHw].own = FALSE, ![rxHw].eop = TRUE, ![rxHw].room = FALSE]
      /\ rxHw' = IF rx[rxHw].wrap THEN 0 ELSE rxHw + 1
      /\ filling' = FALSE /\ UNCHANGED <<rd, rxOn, got, pc>>
  BY DEF Stored, RxTyped, RxInv
<1>3. c \in 0 .. NrRx - 1 /\ rxHw = At(Oldest, c)
  <2>1. c # NrRx
    <3> SUFFICES ASSUME c = NrRx PROVE FALSE
      OBVIOUS
    <3>1. rxHw = At(Oldest, 0) /\ 0 \in 0 .. NrRx - 1 /\ 0 < c
      BY <1>1, AtIs DEF RxInv
    <3>2. Full(rxHw)
      BY <3>1 DEF RxInv, Ring
    <3> QED BY <1>2, <3>2 DEF Full
  <2> QED BY <2>1 DEF RxInv
<1>4. ~ (Busy /\ c = NrRx - 1)
  <2> SUFFICES ASSUME Busy, c = NrRx - 1 PROVE FALSE
    OBVIOUS
  <2>1. c >= c
    BY <1>3
  <2>2. Handled(rxHw)
    BY <1>3, <2>1 DEF RxInv, Ring
  <2> QED BY <1>2, <2>2 DEF Handled
<1>5. /\ rx' \in [Rx -> RxDescriptor]
      /\ \A i \in Rx : /\ rx'[i].wrap = rx[i].wrap /\ rx'[i].frame = rx[i].frame
                       /\ i # rxHw => rx'[i] = rx[i]
      /\ ~ rx'[rxHw].own /\ rx'[rxHw].eop
  BY <1>2 DEF RxTyped, RxDescriptor
<1>6. Oldest' = Oldest /\ (Busy' <=> Busy)
  BY <1>2 DEF Oldest, Busy
<1>7. ASSUME NEW k \in 0 .. NrRx - 1
      PROVE  At(Oldest, k) \in Rx /\ (k # c => At(Oldest, k) # rxHw)
  BY <1>1, <1>3, AtIs, AtOnce
<1>8. d \in 0 .. NrRx /\ (Busy => d < NrRx) /\ (\A k \in 0 .. NrRx - 1 : k < d <=> k < c \/ k = c)
  BY <1>3, <1>4
<1> HIDE DEF d
<1>9. Ring(d)'
  <2> SUFFICES ASSUME NEW k \in 0 .. NrRx - 1
               PROVE  /\ k < d => Full(At(Oldest, k))'
                      /\ k >= d /\ Busy /\ k = NrRx - 1 => Handled(At(Oldest, k))'
                      /\ k >= d /\ ~ (Busy /\ k = NrRx - 1) => Spare(At(Oldest, k))'
    BY <1>6 DEF Ring
  <2>1. CASE k = c
    <3>1. k < d /\ ~ (k >= d)
      BY <1>8, <2>1
    <3>2. Full(At(Oldest, k))'
      BY <1>2, <1>3, <1>5, <1>6, <2>1 DEF Full
    <3> QED BY <3>1, <3>2
  <2>2. CASE k # c
    <3>1. rx'[At(Oldest, k)] = rx[At(Oldest, k)]
      BY <1>5, <1>7, <2>2
    <3>2. (k < d => k < c) /\ (k >= d => k >= c)
      BY <1>3, <2>2 DEF d
    <3> QED BY <1>2, <1>6, <3>1, <3>2 DEF RxInv, Ring, Full, Handled, Spare
  <2> QED BY <2>1, <2>2
<1>10. rxHw' = At(Oldest, d)
  <2>1. rx[rxHw].wrap <=> rxHw = NrRx - 1
    BY <1>2 DEF RxInv
  <2>2. At(Oldest, c + 1) = IF At(Oldest, c) = NrRx - 1 THEN 0 ELSE At(Oldest, c) + 1
    BY <1>1, <1>3, AtNext
  <2> QED BY <1>2, <1>3, <2>1, <2>2 DEF d
<1>11. RxInv(d)'
  BY <1>2, <1>5, <1>6, <1>8, <1>9, <1>10 DEF RxInv
<1>12. RxTyped'
  <2>1. d \in 0 .. NrRx
    BY <1>8
  <2>2. rxHw' \in Rx
    BY <1>1, <1>10, <2>1, AtIs
  <2> QED BY <1>2, <1>5, <2>2 DEF RxTyped
<1>13. Frames(d)' = Append(Frames(c), f)
  <2>1. Frames(c) \in [1 .. c -> Frame] /\ Frames(d)' \in [1 .. d -> Frame]
    BY <1>11, <1>12, FramesTyped, FramesThen
  <2>2. ASSUME NEW k \in 1 .. d
        PROVE  Frames(d)'[k] = rx[At(Oldest, k - 1)].frame
    <3>1. k - 1 \in 0 .. NrRx - 1
      BY <1>3 DEF d
    <3> QED BY <1>5, <1>6, <1>7, <3>1 DEF Frames
  <2>3. \A k \in 1 .. c : k \in 1 .. d /\ Frames(c)[k] = rx[At(Oldest, k - 1)].frame
    BY <1>3 DEF Frames, d
  <2>4. Frames(d)'[c + 1] = f
    <3>1. c + 1 \in 1 .. d /\ (c + 1) - 1 = c
      BY <1>3 DEF d
    <3> QED BY <1>3, <2>2, <3>1
  <2>5. c \in Nat /\ d = c + 1
    BY <1>3 DEF d
  <2> HIDE DEF f
  <2> DEFINE t == Frames(d)'
  <2>6. t \in [1 .. c + 1 -> Frame] /\ t[c + 1] = f /\ \A k \in 1 .. c : t[k] = Frames(c)[k]
    BY <2>1, <2>2, <2>3, <2>4, <2>5
  <2> HIDE DEF t
  <2>7. t = Append(Frames(c), f)
    BY <1>2, <2>1, <2>5, <2>6, Appended
  <2> QED BY <2>7 DEF t
<1> QED BY <1>2, <1>3, <1>11, <1>12, <1>13 DEF d

LEMMA CopyKeeps ==
    ASSUME NEW c, RxTyped, PcTyped, RxInv(c), Copy
    PROVE  /\ RxTyped' /\ RxInv(c - 1)'
           /\ Frames(c) # <<>> /\ got' = Head(Frames(c)) /\ Frames(c - 1)' = Tail(Frames(c))
<1> DEFINE d == c - 1
<1>1. /\ pc = "idle" /\ rx[rd].eop /\ got' = rx[rd].frame /\ pc' = "copied"
      /\ UNCHANGED <<rx, rd, rxHw, filling, rxOn>> /\ rd \in Rx
  BY DEF Copy, RxTyped
<1>2. Oldest = rd /\ Oldest' = At(rd, 1) /\ ~ Busy /\ Busy' /\ At(rd, 0) = rd /\ At(rd, NrRx) = rd
  BY <1>1, AtIs DEF Oldest, Busy, Reading
<1>3. c \in 1 .. NrRx /\ Full(rd)
  <2>1. c \in 0 .. NrRx /\ 0 \in 0 .. NrRx - 1
    BY DEF RxInv
  <2>2. c # 0
    <3> SUFFICES ASSUME c = 0 PROVE FALSE
      OBVIOUS
    <3>1. Spare(At(Oldest, 0))
      BY <1>2, <2>1 DEF RxInv, Ring
    <3> QED BY <1>1, <1>2, <3>1 DEF Spare
  <2>3. 0 < c
    BY <2>1, <2>2
  <2>4. Full(At(Oldest, 0))
    BY <2>1, <2>3 DEF RxInv, Ring
  <2> QED BY <1>2, <2>1, <2>2, <2>4
<1>4. \A k \in 0 .. NrRx - 1 : At(At(rd, 1), k) = At(rd, k + 1)
  BY <1>1, AtNext
<1>5. d \in 0 .. NrRx - 1 /\ d + 1 = c
  BY <1>3
<1> HIDE DEF d
<1>6. Ring(d)'
  <2> SUFFICES ASSUME NEW k \in 0 .. NrRx - 1
               PROVE  /\ k < d => Full(At(rd, k + 1))
                      /\ k >= d /\ k = NrRx - 1 => Handled(At(rd, k + 1))'
                      /\ k >= d /\ ~ (k = NrRx - 1) => Spare(At(rd, k + 1))
    BY <1>1, <1>2, <1>4 DEF Ring, Full, Spare, Handled
  <2>1. CASE k = NrRx - 1
    <3>1. At(rd, k + 1) = rd /\ ~ (k < d)
      BY <1>2, <1>5, <2>1
    <3>2. Handled(rd)'
      BY <1>1, <1>3 DEF Handled, Full
    <3>3. Handled(At(rd, k + 1))'
      BY <1>1, <3>1, <3>2 DEF Handled
    <3> QED BY <2>1, <3>1, <3>3
  <2>2. CASE k # NrRx - 1
    <3>1. k + 1 \in 0 .. NrRx - 1 /\ (k < d => k + 1 < c) /\ (k >= d => k + 1 >= c)
      BY <1>5, <2>2
    <3> QED BY <1>2, <2>2, <3>1 DEF RxInv, Ring
  <2> QED BY <2>1, <2>2
<1>7. RxInv(d)'
  <2>1. rxHw' = At(Oldest', d)
    BY <1>1, <1>2, <1>4, <1>5 DEF RxInv
  <2>2. d \in 0 .. NrRx /\ d < NrRx
    BY <1>5
  <2> QED BY <1>1, <1>6, <2>1, <2>2 DEF RxInv
<1>8. RxTyped'
  BY <1>1, <1>3 DEF RxTyped, Full
<1>9. Frames(c) \in [1 .. c -> Frame] /\ Frames(d)' \in [1 .. d -> Frame]
  BY <1>7, <1>8, FramesTyped, FramesThen
<1>10. Frames(c)[1] = rx[rd].frame
  BY <1>2, <1>3 DEF Frames
<1>11. ASSUME NEW k \in 1 .. d PROVE Frames(d)'[k] = Frames(c)[k + 1]
  <2>1. k - 1 \in 0 .. NrRx - 1 /\ (k - 1) + 1 = k /\ k + 1 \in 1 .. c /\ (k + 1) - 1 = k
    BY <1>5
  <2>2. At(Oldest', k - 1) = At(Oldest, k)
    BY <1>2, <1>4, <2>1
  <2>3. Frames(c)[k + 1] = rx[At(Oldest, k)].frame
    BY <2>1 DEF Frames
  <2> QED BY <1>1, <2>2, <2>3 DEF Frames
<1>12. Frames(d)' = Tail(Frames(c)) /\ Frames(c) # <<>> /\ Head(Frames(c)) = Frames(c)[1]
  <2> DEFINE t == Frames(d)'
             s == Frames(c)
  <2>1. /\ c \in Nat \ {0} /\ s \in [1 .. c -> Frame] /\ t \in [1 .. c - 1 -> Frame]
        /\ \A k \in 1 .. c - 1 : t[k] = s[k + 1]
    BY <1>3, <1>9, <1>11 DEF d
  <2> HIDE DEF s, t
  <2>2. t = Tail(s) /\ s # <<>> /\ Head(s) = s[1]
    BY <2>1, Removed
  <2> QED BY <2>2 DEF s, t
<1> QED BY <1>1, <1>7, <1>8, <1>10, <1>12 DEF d

\* The descriptor that is being read is not among those with frames.
LEMMA ReadingKeeps ==
    ASSUME NEW c, RxTyped, RxInv(c), Busy, pc' \in Reading, NEW x \in RxDescriptor,
           x.wrap = rx[rd].wrap, rx' = [rx EXCEPT ![rd] = x],
           UNCHANGED <<rd, rxHw, filling, rxOn, got>>,
           Busy' => ~ x.own /\ (x.eop <=> pc' # "cleared") /\ (pc' # "copied" => x.room),
           ~ Busy' => x.own /\ ~ x.eop /\ x.room
    PROVE  Kept(c, c)
<1>1. /\ Oldest = At(rd, 1) /\ Oldest' = Oldest /\ rd \in Rx /\ Oldest \in Rx
      /\ At(Oldest, NrRx - 1) = rd /\ c \in 0 .. NrRx - 1
  BY AtNext, LastIs DEF Oldest, Busy, Reading, RxTyped, RxInv
<1>2. /\ rx' \in [Rx -> RxDescriptor] /\ rx'[rd] = x
      /\ \A i \in Rx : i # rd => rx'[i] = rx[i]
  BY <1>1 DEF RxTyped
<1>3. ASSUME NEW k \in 0 .. NrRx - 1
      PROVE  At(Oldest, k) \in Rx /\ (k # NrRx - 1 => At(Oldest, k) # rd)
  BY <1>1, AtIs, AtOnce
<1>4. Ring(c)'
  <2> SUFFICES ASSUME NEW k \in 0 .. NrRx - 1
               PROVE  /\ k < c => Full(At(Oldest, k))'
                      /\ k >= c /\ Busy' /\ k = NrRx - 1 => Handled(At(Oldest, k))'
                      /\ k >= c /\ ~ (Busy' /\ k = NrRx - 1) => Spare(At(Oldest, k))'
    BY DEF Ring
  <2>1. CASE k = NrRx - 1
    <3>1. ~ (k < c) /\ rx'[At(Oldest, k)] = x
      BY <1>1, <1>2, <2>1
    <3> QED BY <1>1, <2>1, <3>1 DEF Handled, Spare
  <2>2. CASE k # NrRx - 1
    <3>1. rx'[At(Oldest, k)] = rx[At(Oldest, k)]
      BY <1>2, <1>3, <2>2
    <3> QED BY <1>1, <2>2, <3>1 DEF RxInv, Ring, Full, Spare
  <2> QED BY <2>1, <2>2
<1>5. RxInv(c)'
  <2>1. filling => rx'[rxHw].own /\ rx'[rxHw].frame \in Frame
    <3> SUFFICES ASSUME filling PROVE rx'[rxHw].own /\ rx'[rxHw].frame \in Frame
      OBVIOUS
    <3>1. rx[rxHw].own /\ rx[rxHw].frame \in Frame /\ rxHw \in Rx
      BY DEF RxInv, RxTyped
    <3>2. NrRx - 1 \in 0 .. NrRx - 1 /\ NrRx - 1 >= c
      BY <1>1
    <3>3. ~ rx[rd].own
      BY <1>1, <3>2 DEF RxInv, Ring, Handled
    <3> QED BY <1>2, <3>1, <3>3
  <2>2. \A i \in Rx : rx'[i].wrap = (i = NrRx - 1)
    BY <1>2 DEF RxInv
  <2>3. c \in 0 .. NrRx /\ c < NrRx
    BY <1>1
  <2> QED BY <1>1, <1>4, <2>1, <2>2, <2>3 DEF RxInv
<1>6. Frames(c)' = Frames(c)
  <2>1. ASSUME NEW k \in 1 .. c PROVE rx'[At(Oldest, k - 1)] = rx[At(Oldest, k - 1)]
    <3>1. k - 1 \in 0 .. NrRx - 1 /\ k - 1 # NrRx - 1
      BY <1>1
    <3> QED BY <1>2, <1>3, <3>1
  <2> QED BY <1>1, <2>1 DEF Frames
<1>7. RxTyped'
  BY <1>2 DEF RxTyped
<1> QED BY <1>5, <1>6, <1>7 DEF Kept

LEMMA SetLengthKeeps ==
    ASSUME NEW c, RxTyped, RxInv(c), SetLength PROVE Kept(c, c) /\ got' = got
<1> DEFINE x == [rx[rd] EXCEPT !.room = TRUE]
<1>1. /\ pc = "copied" /\ pc' = "sized" /\ rx' = [rx EXCEPT ![rd] = x]
      /\ UNCHANGED <<rd, rxHw, filling, rxOn, got>>
  BY DEF SetLength
<1>2. x \in RxDescriptor /\ x.wrap = rx[rd].wrap /\ x.room
  BY DEF RxTyped, RxDescriptor
<1>3. ~ x.own /\ x.eop
  <2>1. Handled(rd)
    <3>1. c \in 0 .. NrRx - 1 /\ At(Oldest, NrRx - 1) = rd
      BY <1>1, LastIs DEF RxTyped, RxInv, Oldest, Busy, Reading
    <3>2. NrRx - 1 \in 0 .. NrRx - 1 /\ NrRx - 1 >= c
      BY <3>1
    <3> QED BY <1>1, <3>1, <3>2 DEF RxInv, Ring, Busy
  <2>2. x.own = rx[rd].own /\ x.eop = rx[rd].eop
    BY DEF RxTyped, RxDescriptor
  <2> QED BY <1>1, <2>1, <2>2 DEF Handled
<1> HIDE DEF x
<1>4. Busy /\ Busy' /\ pc' \in Reading
  BY <1>1 DEF Busy, Reading
<1> QED BY <1>1, <1>2, <1>3, <1>4, ReadingKeeps

LEMMA ClearStatusKeeps ==
    ASSUME NEW c, RxTyped, RxInv(c), ClearStatus PROVE Kept(c, c) /\ got' = got
<1> DEFINE x == [rx[rd] EXCEPT !.own = FALSE, !.eop = FALSE]
<1>1. /\ pc = "sized" /\ pc' = "cleared" /\ rx' = [rx EXCEPT ![rd] = x]
      /\ UNCHANGED <<rd, rxHw, filling, rxOn, got>>
  BY DEF ClearStatus, RxTyped, RxDescriptor
<1>2. x \in RxDescriptor /\ x.wrap = rx[rd].wrap /\ ~ x.own /\ ~ x.eop /\ x.room = rx[rd].room
  BY DEF RxTyped, RxDescriptor
<1>3. rx[rd].room
  <2>1. c \in 0 .. NrRx - 1 /\ At(Oldest, NrRx - 1) = rd
    BY <1>1, LastIs DEF RxTyped, RxInv, Oldest, Busy, Reading
  <2>2. NrRx - 1 \in 0 .. NrRx - 1 /\ NrRx - 1 >= c
    BY <2>1
  <2> QED BY <1>1, <2>1, <2>2 DEF RxInv, Ring, Busy, Handled
<1> HIDE DEF x
<1>4. Busy /\ Busy' /\ pc' \in Reading
  BY <1>1 DEF Busy, Reading
<1> QED BY <1>1, <1>2, <1>3, <1>4, ReadingKeeps

LEMMA GiveBackKeeps ==
    ASSUME NEW c, RxTyped, RxInv(c), GiveBack PROVE Kept(c, c) /\ got' = got
<1> DEFINE x == [rx[rd] EXCEPT !.own = TRUE]
<1>1. /\ pc = "cleared" /\ pc' = "given" /\ rx' = [rx EXCEPT ![rd] = x]
      /\ UNCHANGED <<rd, rxHw, filling, rxOn, got>>
  BY DEF GiveBack
<1>2. /\ x \in RxDescriptor /\ x.wrap = rx[rd].wrap /\ x.own
      /\ x.eop = rx[rd].eop /\ x.room = rx[rd].room
  BY DEF RxTyped, RxDescriptor
<1>3. rx[rd].room /\ ~ rx[rd].eop
  <2>1. c \in 0 .. NrRx - 1 /\ At(Oldest, NrRx - 1) = rd
    BY <1>1, LastIs DEF RxTyped, RxInv, Oldest, Busy, Reading
  <2>2. NrRx - 1 \in 0 .. NrRx - 1 /\ NrRx - 1 >= c
    BY <2>1
  <2> QED BY <1>1, <2>1, <2>2 DEF RxInv, Ring, Busy, Handled
<1> HIDE DEF x
<1>4. Busy /\ ~ Busy' /\ pc' \in Reading
  BY <1>1 DEF Busy, Reading
<1> QED BY <1>1, <1>2, <1>3, <1>4, ReadingKeeps

LEMMA AdvanceKeeps ==
    ASSUME NEW c, RxTyped, RxInv(c), Advance PROVE Kept(c, c) /\ got' = got
<1>1. /\ pc = "given" /\ pc' = "idle" /\ rd' = At(rd, 1) /\ rd' \in Rx /\ rxOn' = TRUE
      /\ UNCHANGED <<rx, rxHw, filling, got>>
  <2>1. rd \in Rx /\ 0 \in 0 .. NrRx - 1
    BY DEF RxTyped
  <2> QED BY <2>1, LastIs, AtNext DEF Advance
<1>2. Oldest' = Oldest /\ ~ Busy /\ ~ Busy'
  BY <1>1 DEF Oldest, Busy, Reading
<1>3. RxTyped'
  BY <1>1 DEF RxTyped
<1>4. Ring(c)'
  BY <1>1, <1>2 DEF RxInv, Ring, Full, Spare, Handled
<1>5. RxInv(c)'
  BY <1>1, <1>2, <1>4 DEF RxInv
<1>6. Frames(c)' = Frames(c)
  BY <1>1, <1>2 DEF Frames
<1> QED BY <1>1, <1>3, <1>5, <1>6 DEF Kept

-----------------------------------------------------------------------------
(* The transmit ring *)

Sending == pc \in {"owned", "started"}
Behind  == IF wr = NrTx - 1 THEN 0 ELSE wr + 1

\* Only the descriptor that was written last can be the controller's, which comes to it next.
TxInv ==
    /\ \A i \in Tx : (tx[i].wrap <=> i = NrTx - 1) /\ (i # wr => ~ tx[i].own)
    /\ pc = "filled" \/ Sending => tx[wr].frame \in Frame
    /\ tx[wr].own => Sending
    /\ txHw = IF Sending /\ ~ tx[wr].own THEN Behind ELSE wr

LEMMA BehindIs == wr \in Tx => Behind \in Tx
BY DEF Behind, Tx

LEMMA SendingRests ==
    ASSUME TxTyped, TxInv, UNCHANGED <<tx, wr, txHw, sent>>, txOn' \in BOOLEAN,
           Sending' <=> Sending, pc' = "filled" => pc = "filled"
    PROVE  TxTyped' /\ TxInv' /\ Waiting' = Waiting /\ sent' = sent
BY DEF TxTyped, TxInv, Waiting, Behind

LEMMA FillKeeps ==
    ASSUME TxTyped, TxInv, NEW f \in Frame, Fill(f)
    PROVE  TxTyped' /\ TxInv' /\ Waiting' = Waiting /\ sent' = sent
<1>1. /\ pc = "idle" /\ ~ tx[wr].own /\ pc' = "filled"
      /\ tx' = [tx EXCEPT ![wr].frame = f] /\ UNCHANGED <<wr, txHw, txOn, sent>>
  BY DEF Fill
<1>2. /\ tx' \in [Tx -> TxDescriptor] /\ tx'[wr].frame = f
      /\ \A i \in Tx : tx'[i].own = tx[i].own /\ tx'[i].wrap = tx[i].wrap
  BY <1>1 DEF TxTyped, TxDescriptor
<1>3. ~ Sending /\ ~ Sending' /\ wr \in Tx
  BY <1>1 DEF Sending, TxTyped
<1>4. TxTyped'
  BY <1>1, <1>2 DEF TxTyped
<1>5. TxInv'
  BY <1>1, <1>2, <1>3 DEF TxInv
<1> QED BY <1>1, <1>2, <1>3, <1>4, <1>5 DEF Waiting

LEMMA StartKeeps ==
    ASSUME TxTyped, TxInv, Start
    PROVE  /\ TxTyped' /\ TxInv' /\ sent' = sent
           /\ Waiting = <<>> /\ tx[wr].frame \in Frame /\ Waiting' = <<tx[wr].frame>>
<1>1. /\ pc = "filled" /\ pc' = "owned"
      /\ tx' = [tx EXCEPT ![wr].own = TRUE, ![wr].wrap = (wr = NrTx - 1)]
      /\ UNCHANGED <<wr, txHw, txOn, sent>> /\ wr \in Tx
  BY DEF Start, TxTyped
<1>2. ~ Sending /\ Sending'
  BY <1>1 DEF Sending
<1>3. ~ tx[wr].own /\ tx[wr].frame \in Frame /\ txHw = wr
  BY <1>1, <1>2 DEF TxInv
<1>4. /\ tx' \in [Tx -> TxDescriptor] /\ tx'[wr].own /\ tx'[wr].frame = tx[wr].frame
      /\ tx'[wr].wrap <=> wr = NrTx - 1
      /\ \A i \in Tx : i # wr => tx'[i] = tx[i]
  BY <1>1 DEF TxTyped, TxDescriptor
<1>5. TxTyped'
  BY <1>1, <1>4 DEF TxTyped
<1>6. TxInv'
  <2>1. \A i \in Tx : (tx'[i].wrap <=> i = NrTx - 1) /\ (i # wr => ~ tx'[i].own)
    BY <1>4 DEF TxInv
  <2> QED BY <1>1, <1>2, <1>3, <1>4, <2>1 DEF TxInv
<1> QED BY <1>1, <1>3, <1>4, <1>5, <1>6 DEF Waiting

LEMMA TransmitKeeps ==
    ASSUME TxTyped, TxInv, Transmit
    PROVE  /\ TxTyped' /\ TxInv'
           /\ Waiting = <<sent'>> /\ Waiting' = <<>>
<1>1. /\ tx[txHw].own /\ sent' = tx[txHw].frame /\ tx' = [tx EXCEPT ![txHw].own = FALSE]
      /\ txHw' = (IF tx[txHw].wrap THEN 0 ELSE txHw + 1)
      /\ UNCHANGED <<wr, txOn, pc>> /\ wr \in Tx /\ txHw \in Tx
  BY DEF Transmit, TxTyped
<1>2. txHw = wr /\ Sending /\ Sending'
  BY <1>1 DEF TxInv, Sending
<1>3. /\ tx' \in [Tx -> TxDescriptor] /\ ~ tx'[wr].own
      /\ \A i \in Tx : tx'[i].wrap = tx[i].wrap /\ tx'[i].frame = tx[i].frame
      /\ \A i \in Tx : i # wr => tx'[i] = tx[i]
  BY <1>1, <1>2 DEF TxTyped, TxDescriptor
<1>4. tx[wr].wrap <=> wr = NrTx - 1
  BY <1>1 DEF TxInv
<1>5. txHw' = Behind /\ Behind' = Behind /\ Behind \in Tx
  BY <1>1, <1>2, <1>4, BehindIs DEF Behind
<1>6. TxTyped'
  BY <1>1, <1>2, <1>3, <1>5 DEF TxTyped, TxDescriptor
<1>7. TxInv'
  <2>1. \A i \in Tx : (tx'[i].wrap <=> i = NrTx - 1) /\ (i # wr => ~ tx'[i].own)
    BY <1>3 DEF TxInv
  <2>2. tx'[wr].frame \in Frame
    BY <1>1, <1>2, <1>3 DEF TxInv
  <2> QED BY <1>1, <1>2, <1>3, <1>5, <2>1, <2>2 DEF TxInv
<1> QED BY <1>1, <1>2, <1>3, <1>6, <1>7 DEF Waiting

LEMMA DoneKeeps ==
    ASSUME TxTyped, TxInv, Done
    PROVE  TxTyped' /\ TxInv' /\ Waiting' = Waiting /\ sent' = sent
<1>1. /\ pc = "started" /\ ~ tx[wr].own /\ wr' = Behind /\ pc' = "idle"
      /\ UNCHANGED <<tx, txHw, txOn, sent>> /\ wr \in Tx /\ Behind \in Tx
  BY BehindIs DEF Done, Behind, TxTyped
<1>2. Sending /\ ~ Sending'
  BY <1>1 DEF Sending
<1>3. txHw = Behind /\ \A i \in Tx : ~ tx[i].own
  BY <1>1, <1>2 DEF TxInv
<1>4. TxTyped'
  BY <1>1 DEF TxTyped
<1>5. TxInv'
  BY <1>1, <1>2, <1>3 DEF TxInv
<1> QED BY <1>1, <1>3, <1>4, <1>5 DEF Waiting

-----------------------------------------------------------------------------
(* Every step *)

Inv == RxTyped /\ TxTyped /\ PcTyped /\ (\E c : RxInv(c)) /\ TxInv

LEMMA InitInv == Init => Inv /\ RxInv(0)
<1> SUFFICES ASSUME Init PROVE Inv /\ RxInv(0)
  OBVIOUS
<1>1. /\ rx = [i \in Rx |-> [own |-> TRUE, eop |-> FALSE, wrap |-> i = NrRx - 1, room |-> TRUE,
                            frame |-> NoFrame]]
      /\ tx = [i \in Tx |-> [own |-> FALSE, wrap |-> i = NrTx - 1, frame |-> NoFrame]]
      /\ rd = 0 /\ rxHw = 0 /\ wr = 0 /\ txHw = 0 /\ 0 \in Rx /\ 0 \in Tx
      /\ filling = FALSE /\ rxOn = TRUE /\ txOn = FALSE
      /\ got = NoFrame /\ sent = NoFrame /\ pc = "idle"
  BY DEF Init, Rx, Tx
<1>2. Oldest = 0 /\ ~ Busy /\ ~ Sending /\ PcTyped
  BY <1>1 DEF Oldest, Busy, Reading, Sending, PcTyped
<1>3. /\ rx \in [Rx -> RxDescriptor]
      /\ \A i \in Rx : rx[i].own /\ ~ rx[i].eop /\ rx[i].room /\ rx[i].wrap = (i = NrRx - 1)
  BY <1>1 DEF RxDescriptor
<1>4. /\ tx \in [Tx -> TxDescriptor]
      /\ \A i \in Tx : ~ tx[i].own /\ (tx[i].wrap <=> i = NrTx - 1)
  BY <1>1 DEF TxDescriptor
<1>5. RxTyped /\ TxTyped
  BY <1>1, <1>3, <1>4 DEF RxTyped, TxTyped
<1>6. TxInv
  BY <1>1, <1>2, <1>4 DEF TxInv
<1>7. RxInv(0)
  <2>1. \A k \in 0 .. NrRx - 1 : At(Oldest, k) \in Rx /\ ~ (k < 0)
    BY <1>1, <1>2, AtIs
  <2>2. Ring(0)
    BY <1>2, <1>3, <2>1 DEF Ring, Spare
  <2>3. 0 \in 0 .. NrRx /\ At(Oldest, 0) = 0
    BY <1>1, <1>2, AtIs
  <2> QED BY <1>1, <1>2, <1>3, <2>2, <2>3 DEF RxInv
<1> QED BY <1>2, <1>5, <1>6, <1>7 DEF Inv

\* Nothing, a frame that comes or a frame that leaves
RxStep(c) ==
    /\ RxTyped'
    /\ \E d : /\ RxInv(d)'
             /\ \/ Frames(d)' = Frames(c) /\ got' = got
                \/ /\ c < NrRx /\ got' = got
                   /\ \E f \in Frame : Frames(d)' = Append(Frames(c), f)
                \/ Frames(c) # <<>> /\ got' = Head(Frames(c)) /\ Frames(d)' = Tail(Frames(c))

TxStep ==
    /\ TxTyped' /\ TxInv'
    /\ \/ Waiting' = Waiting /\ sent' = sent
       \/ Waiting = <<>> /\ sent' = sent /\ \E f \in Frame : Waiting' = <<f>>
       \/ Waiting = <<sent'>> /\ Waiting' = <<>>

LEMMA KeptSteps == ASSUME NEW c, Kept(c, c), got' = got PROVE RxStep(c)
BY DEF Kept, RxStep

LEMMA NextSteps ==
    ASSUME Inv, NEW c, RxInv(c), [Next]_vars
    PROVE  PcTyped' /\ RxStep(c) /\ TxStep
<1> USE DEF Inv
<1>1. CASE UNCHANGED vars
  <2>1. Kept(c, c) /\ got' = got /\ PcTyped'
    BY <1>1, RingRests DEF vars, rxVars, txVars, PcTyped, RxTyped
  <2>2. TxStep
    BY <1>1, SendingRests DEF vars, rxVars, txVars, TxStep, TxTyped, Sending
  <2> QED BY <2>1, <2>2, KeptSteps
<1>2. ASSUME txVars' = txVars, pc' = pc \/ (~ Sending /\ ~ Sending' /\ pc' # "filled") PROVE TxStep
  BY <1>2, SendingRests DEF txVars, TxStep, TxTyped, Sending
<1>3. ASSUME UNCHANGED <<rx, rd, rxHw, filling, got>>, rxOn' \in BOOLEAN,
             pc' = pc \/ (pc \notin Reading /\ pc' \notin Reading)
      PROVE  RxStep(c)
  BY <1>3, RingRests, KeptSteps
<1>4. ASSUME NEW f \in Frame, Store(f) PROVE PcTyped' /\ RxStep(c) /\ TxStep
  <2>1. txVars' = txVars /\ pc' = pc
    BY <1>4 DEF Store, txVars
  <2> QED BY <1>2, <1>4, <2>1, StoreKeeps, KeptSteps DEF PcTyped
<1>5. CASE Stored
  <2>1. txVars' = txVars /\ pc' = pc
    BY <1>5 DEF Stored, txVars
  <2>2. RxStep(c)
    BY <1>5, StoredKeeps DEF RxStep
  <2> QED BY <1>2, <2>1, <2>2 DEF PcTyped
<1>6. CASE RxStops
  <2>1. txVars' = txVars /\ pc' = pc /\ UNCHANGED <<rx, rd, rxHw, filling, got>> /\ rxOn' \in BOOLEAN
    BY <1>6 DEF RxStops, txVars
  <2> QED BY <1>2, <1>3, <2>1 DEF PcTyped
<1>7. CASE Transmit
  <2>1. pc' = pc /\ UNCHANGED <<rx, rd, rxHw, filling, got>> /\ rxOn' \in BOOLEAN
    BY <1>7 DEF Transmit, rxVars, RxTyped
  <2>2. TxStep
    BY <1>7, TransmitKeeps DEF TxStep
  <2> QED BY <1>3, <2>1, <2>2 DEF PcTyped
<1>8. CASE TxStops
  <2>1. pc' = pc /\ UNCHANGED <<rx, rd, rxHw, filling, got>> /\ rxOn' \in BOOLEAN
    BY <1>8 DEF TxStops, rxVars, RxTyped
  <2>2. TxStep
    BY <1>8, SendingRests DEF TxStops, TxStep, Sending
  <2> QED BY <1>3, <2>1, <2>2 DEF PcTyped
<1>9. CASE Copy
  <2>1. txVars' = txVars /\ pc = "idle" /\ pc' = "copied"
    BY <1>9 DEF Copy, txVars
  <2>2. RxStep(c)
    BY <1>9, CopyKeeps DEF RxStep
  <2> QED BY <1>2, <2>1, <2>2 DEF PcTyped, Sending
<1>10. CASE SetLength
  <2>1. txVars' = txVars /\ pc = "copied" /\ pc' = "sized"
    BY <1>10 DEF SetLength, txVars
  <2> QED BY <1>2, <1>10, <2>1, SetLengthKeeps, KeptSteps DEF PcTyped, Sending
<1>11. CASE ClearStatus
  <2>1. txVars' = txVars /\ pc = "sized" /\ pc' = "cleared"
    BY <1>11 DEF ClearStatus, txVars
  <2> QED BY <1>2, <1>11, <2>1, ClearStatusKeeps, KeptSteps DEF PcTyped, Sending
<1>12. CASE GiveBack
  <2>1. txVars' = txVars /\ pc = "cleared" /\ pc' = "given"
    BY <1>12 DEF GiveBack, txVars
  <2> QED BY <1>2, <1>12, <2>1, GiveBackKeeps, KeptSteps DEF PcTyped, Sending
<1>13. CASE Advance
  <2>1. txVars' = txVars /\ pc = "given" /\ pc' = "idle"
    BY <1>13 DEF Advance, txVars
  <2> QED BY <1>2, <1>13, <2>1, AdvanceKeeps, KeptSteps DEF PcTyped, Sending
<1>14. ASSUME NEW f \in Frame, Fill(f) PROVE PcTyped' /\ RxStep(c) /\ TxStep
  <2>1. /\ pc = "idle" /\ pc' = "filled" /\ UNCHANGED <<rx, rd, rxHw, filling, got>>
        /\ rxOn' \in BOOLEAN
    BY <1>14 DEF Fill, rxVars, RxTyped
  <2>2. TxStep
    BY <1>14, FillKeeps DEF TxStep
  <2> QED BY <1>3, <2>1, <2>2 DEF PcTyped, Reading
<1>15. CASE Start
  <2>1. /\ pc = "filled" /\ pc' = "owned" /\ UNCHANGED <<rx, rd, rxHw, filling, got>>
        /\ rxOn' \in BOOLEAN
    BY <1>15 DEF Start, rxVars, RxTyped
  <2>2. TxStep
    BY <1>15, StartKeeps DEF TxStep
  <2> QED BY <1>3, <2>1, <2>2 DEF PcTyped, Reading
<1>16. CASE EnableTx
  <2>1. /\ pc = "owned" /\ pc' = "started" /\ UNCHANGED <<rx, rd, rxHw, filling, got>>
        /\ rxOn' \in BOOLEAN
    BY <1>16 DEF EnableTx, rxVars, RxTyped
  <2>2. TxStep
    BY <1>16, SendingRests DEF EnableTx, TxStep, Sending
  <2> QED BY <1>3, <2>1, <2>2 DEF PcTyped, Reading
<1>17. CASE Done
  <2>1. /\ pc = "started" /\ pc' = "idle" /\ UNCHANGED <<rx, rd, rxHw, filling, got>>
        /\ rxOn' \in BOOLEAN
    BY <1>17 DEF Done, rxVars, RxTyped
  <2>2. TxStep
    BY <1>17, DoneKeeps DEF TxStep
  <2> QED BY <1>3, <2>1, <2>2 DEF PcTyped, Reading
<1>18. CASE Close
  <2>1. /\ pc = "idle" /\ pc' = "closing" /\ UNCHANGED <<rx, rd, rxHw, filling, got>>
        /\ rxOn' \in BOOLEAN
    BY <1>18 DEF Close
  <2>2. TxStep
    BY <1>18, SendingRests DEF Close, TxStep, Sending
  <2> QED BY <1>3, <2>1, <2>2 DEF PcTyped, Reading
<1>19. CASE Free
  <2>1. /\ pc = "closing" /\ pc' = "closed" /\ UNCHANGED <<rx, rd, rxHw, filling, got>>
        /\ rxOn' \in BOOLEAN /\ txVars' = txVars
    BY <1>19 DEF Free, rxVars, RxTyped
  <2> QED BY <1>2, <1>3, <2>1 DEF PcTyped, Reading, Sending
<1> QED
  BY <1>1, <1>4, <1>5, <1>6, <1>7, <1>8, <1>9, <1>10, <1>11, <1>12, <1>13, <1>14, <1>15, <1>16,
     <1>17, <1>18, <1>19 DEF Next, Controller, Read, Write

LEMMA StepKeeps == Inv /\ [Next]_vars => Inv'
<1> SUFFICES ASSUME Inv, [Next]_vars PROVE Inv'
  OBVIOUS
<1>1. PICK c : RxInv(c)
  BY DEF Inv
<1>2. PcTyped' /\ RxStep(c) /\ TxStep
  BY <1>1, NextSteps
<1>3. PICK d : RxInv(d)'
  BY <1>2 DEF RxStep
<1> QED BY <1>2, <1>3 DEF Inv, RxStep, TxStep

\* The queue that the refinement reads off the ring is the frames in it.
LEMMA QueuedIs == Inv => \A c : RxInv(c) => Queued = Frames(c)
<1> SUFFICES ASSUME Inv, NEW c, RxInv(c) PROVE Queued = Frames(c)
  OBVIOUS
<1>1. TypeOK
  BY TypedIs DEF Inv
<1>2. Count = c /\ First = Oldest /\ Oldest \in Rx /\ c \in 0 .. NrRx
  BY <1>1, CountIs, OldestIs DEF RxInv
<1>3. ASSUME NEW k \in 1 .. c PROVE (First + k - 1) % NrRx = At(Oldest, k - 1)
  <2>1. k - 1 \in 0 .. NrRx /\ First + k - 1 = Oldest + (k - 1)
    BY <1>2 DEF Rx
  <2> QED BY <1>2, <2>1, AtIs
<1> QED BY <1>2, <1>3 DEF Queued, Frames

LEMMA QueuedThen == Inv' => (\A c : RxInv(c) => Queued = Frames(c))'
BY QueuedIs, PTL

LEMMA StepQueues ==
    Inv /\ Inv' /\ [Next]_vars =>
        [Received!Next]_<<Queued, got>> /\ [Sent!Next]_<<Waiting, sent>>
<1> SUFFICES ASSUME Inv, Inv', [Next]_vars
             PROVE  [Received!Next]_<<Queued, got>> /\ [Sent!Next]_<<Waiting, sent>>
  OBVIOUS
<1>1. PICK c : RxInv(c)
  BY DEF Inv
<1>2. PcTyped' /\ RxStep(c) /\ TxStep
  BY <1>1, NextSteps
<1>3. PICK d :
        /\ RxInv(d)'
        /\ \/ Frames(d)' = Frames(c) /\ got' = got
           \/ /\ c < NrRx /\ got' = got
              /\ \E f \in Frame : Frames(d)' = Append(Frames(c), f)
           \/ Frames(c) # <<>> /\ got' = Head(Frames(c)) /\ Frames(d)' = Tail(Frames(c))
  BY <1>2 DEF RxStep
<1>4. Queued = Frames(c) /\ Queued' = Frames(d)'
  BY <1>1, <1>3, QueuedIs, QueuedThen
<1>5. Len(Queued) = c
  <2>1. Frames(c) \in [1 .. c -> Frame] /\ c \in Nat
    BY <1>1, FramesTyped DEF Inv, RxInv
  <2> QED BY <1>4, <2>1
<1>6. [Received!Next]_<<Queued, got>>
  BY <1>3, <1>4, <1>5 DEF Received!Next, Received!Put, Received!Get
<1>7. [Sent!Next]_<<Waiting, sent>>
  <2>1. CASE Waiting' = Waiting /\ sent' = sent
    BY <2>1
  <2>2. CASE Waiting = <<>> /\ sent' = sent /\ \E f \in Frame : Waiting' = <<f>>
    <3>1. PICK f \in Frame : Waiting' = <<f>>
      BY <2>2
    <3>2. Waiting' = Append(Waiting, f) /\ Len(Waiting) < 1
      BY <2>2, <3>1
    <3> QED BY <2>2, <3>2 DEF Sent!Next, Sent!Put
  <2>3. CASE Waiting = <<sent'>> /\ Waiting' = <<>>
    <3>1. Waiting # <<>> /\ Head(Waiting) = sent' /\ Tail(Waiting) = <<>>
      BY <2>3
    <3> QED BY <2>3, <3>1 DEF Sent!Next, Sent!Get
  <2> QED BY <1>2, <2>1, <2>2, <2>3 DEF TxStep
<1> QED BY <1>6, <1>7

LEMMA InitQueues == Init => Received!Init /\ Sent!Init
<1> SUFFICES ASSUME Init PROVE Received!Init /\ Sent!Init
  OBVIOUS
<1>1. Inv /\ RxInv(0)
  BY InitInv
<1>2. Queued = Frames(0) /\ Frames(0) = <<>>
  <2>1. Queued = Frames(0) /\ Frames(0) \in [1 .. 0 -> Frame]
    BY <1>1, QueuedIs, FramesTyped DEF Inv
  <2> QED BY <2>1
<1>3. Waiting = <<>>
  <2>1. wr \in Tx /\ ~ tx[wr].own
    BY DEF Init, Tx
  <2> QED BY <2>1 DEF Waiting
<1> QED BY <1>2, <1>3 DEF Init, Received!Init, Sent!Init

-----------------------------------------------------------------------------
(* The theorems *)

LEMMA InvAlways == Spec => []Inv
BY InitInv, StepKeeps, PTL DEF Spec

\* The pointers and descriptors of both rings keep their types (rxBds, txBds).
THEOREM TypeCorrect == Spec => []TypeOK
<1>1. Inv => TypeOK
  BY TypedIs DEF Inv
<1> QED BY <1>1, InvAlways, PTL

\* For rings of every size: frames are read whole, once and in the order in which they
\* were stored, and go out once and in the order in which they were written
\* (bcm6348_ether_read, bcm6348_ether_write, the DMA controller).
THEOREM RingsAreFrameQueues == Spec => RingsAreQueues
BY InvAlways, InitQueues, StepQueues, PTL DEF Spec, RingsAreQueues, Received!Spec, Sent!Spec

-----------------------------------------------------------------------------
(* The heap *)

HIDE RingAssumption
USE HeapAssumption DEF HeapAssumption

-----------------------------------------------------------------------------
(* Lemmas about the operators *)

\* Rounding goes up, by less than the alignment, and to a multiple of it.
LEMMA RoundUpFacts ==
    ASSUME NEW x \in Nat, NEW al \in Nat \ {0}
    PROVE  /\ RoundUp(x, al) \in Nat /\ RoundUp(x, al) >= x /\ RoundUp(x, al) < x + al
           /\ RoundUp(x, al) % al = 0
           /\ x % al # 0 => RoundUp(x, al) = x + (al - (x % al))
<1>1. x % al \in 0 .. al - 1
  OBVIOUS
<1>2. x % al # 0 => (x + al - (x % al)) % al = 0
  <2>1. x = al * (x \div al) + (x % al) /\ x \div al \in Int
    OBVIOUS
  <2>2. x + al - (x % al) = al * ((x \div al) + 1)
    BY <2>1
  <2>3. (al * ((x \div al) + 1)) % al = 0
    BY <2>1
  <2> QED
    BY <2>2, <2>3
<1> QED
  BY <1>1, <1>2 DEF RoundUp

\* A merge keeps the nodes and the list they form.
LEMMA MergeKeepsTiling ==
    ASSUME NEW n, NEW h, Typed(n, h), Tiled(n), AreasInBlocks(n, h),
           NEW a \in DOMAIN n, Mergeable(n, a)
    PROVE  Typed(Merged(n, a), h) /\ Tiled(Merged(n, a)) /\ AreasInBlocks(Merged(n, a), h)
<1> DEFINE b == n[a].next
           m == Merged(n, a)
<1>1. /\ b \in DOMAIN n /\ b # NULL /\ b = End(n, a) /\ a < b /\ n[a].status = "free" /\ n[b].status = "free"
      /\ a \in Nat /\ b \in Nat /\ b # Base /\ \A c \in DOMAIN n : c \in Nat /\ n[c] \in Node
  <2>1. \A c \in DOMAIN n : c \in Nat /\ n[c] \in Node
    BY DEF Typed
  <2>2. b # NULL /\ n[a].status = "free" /\ n[b].status = "free"
    BY DEF Mergeable
  <2>3. b = End(n, a) /\ b \in DOMAIN n /\ Base <= a
    BY <2>2 DEF Tiled
  <2>4. a < b
    BY <2>1, <2>3 DEF End, Data, Node
  <2> QED
    BY <2>1, <2>2, <2>3, <2>4
<1>2. /\ DOMAIN m = DOMAIN n \ {b}
      /\ m[a] = [next |-> n[b].next, length |-> n[a].length + Header + n[b].length,
                 status |-> "free", data |-> n[a].data]
      /\ \A c \in DOMAIN m \ {a} : m[c] = n[c]
  BY <1>1 DEF Merged
<1>3. /\ m[a].next = n[b].next /\ m[a].length = n[a].length + Header + n[b].length
      /\ m[a].status = "free" /\ m[a] \in Node
  <2>1. n[a] \in Node /\ n[b] \in Node
    BY <1>1
  <2> HIDE DEF b, m
  <2> QED
    BY <1>2, <2>1 DEF Node
<1>4. End(m, a) = End(n, b)
  BY <1>1, <1>3 DEF End, Data, Node
<1>5. \A c \in DOMAIN m \ {a} : End(m, c) = End(n, c) /\ m[c].next = n[c].next /\ m[c].status = n[c].status
  BY <1>2 DEF End
<1>6. Typed(m, h)
  <2>1. m = [c \in DOMAIN m |-> m[c]]
    BY DEF Merged
  <2> QED
    BY <1>1, <1>2, <1>3, <2>1 DEF Typed
<1>7. Tiled(m)
  <2> HIDE DEF m
  <2>1. Base \in DOMAIN m
    BY <1>1, <1>2 DEF Tiled
  <2>2. ASSUME NEW c \in DOMAIN m
        PROVE  Base <= c /\ c % Ptr = 0 /\ End(m, c) <= Top
    BY <1>1, <1>2, <1>4, <1>5 DEF Tiled
  <2>3. ASSUME NEW c \in DOMAIN m, c # Base
        PROVE  \E d \in DOMAIN m : m[d].next = c
    <3>1. PICK d \in DOMAIN n : n[d].next = c
      BY <2>3, <1>2 DEF Tiled
    <3>2. CASE d = b
      BY <3>1, <3>2, <1>1, <1>2, <1>3
    <3>3. CASE d # b
      <4>1. d # a
        BY <3>1, <1>2
      <4> QED
        BY <3>1, <3>3, <4>1, <1>2, <1>5
    <3> QED
      BY <3>2, <3>3
  <2>4. ASSUME NEW c \in DOMAIN n, n[c].next = b
        PROVE  c = a
    <3>1. End(n, c) = b /\ End(n, a) = b /\ c \in Nat /\ a < b /\ c < b
      BY <2>4, <1>1 DEF Tiled, End, Data, Node
    <3>2. ~ (c < a) /\ ~ (a < c)
      BY <3>1, <1>1 DEF Tiled
    <3> QED
      BY <3>1, <3>2, <1>1
  <2>5. ASSUME NEW c \in DOMAIN m
        PROVE  IF m[c].next = NULL THEN End(m, c) = Top
               ELSE m[c].next = End(m, c) /\ m[c].next \in DOMAIN m
    <3>1. CASE c = a
      <4>1. n[b].next # b
        <5>1. b \in Nat /\ n[b].length \in Nat /\ Base <= b
          BY <1>1 DEF Tiled, Node
        <5>2. n[b].next = NULL \/ n[b].next = b + Header + n[b].length
          BY <1>1 DEF Tiled, End, Data
        <5> HIDE DEF b
        <5> QED
          BY <5>1, <5>2 DEF NULL
      <4> QED
        BY <3>1, <4>1, <1>1, <1>2, <1>3, <1>4 DEF Tiled
    <3>2. CASE c # a
      BY <3>2, <2>4, <1>1, <1>2, <1>5 DEF Tiled
    <3> QED
      BY <3>1, <3>2
  <2>6. ASSUME NEW c \in DOMAIN m, NEW d \in DOMAIN m, c < d
        PROVE  End(m, c) <= d
    <3>1. CASE c = a
      <4>1. d # b /\ d \in DOMAIN n /\ d \in Nat
        BY <1>1, <1>2
      <4>2. ~ (d < b)
        \* d would lie between a and b = End(n, a)
        <5>1. End(n, a) <= d
          BY <2>6, <3>1, <4>1, <1>1 DEF Tiled
        <5> QED
          BY <5>1, <1>1, <4>1
      <4>3. End(n, b) <= d
        <5>1. b < d /\ b \in DOMAIN n
          BY <4>1, <4>2, <1>1
        <5> HIDE DEF b
        <5> QED
          BY <4>1, <5>1 DEF Tiled
      <4> QED
        BY <3>1, <4>3, <1>4
    <3>2. CASE c # a
      BY <2>6, <3>2, <1>1, <1>2, <1>5 DEF Tiled
    <3> QED
      BY <3>1, <3>2
  <2> QED
    BY <2>1, <2>2, <2>3, <2>5, <2>6 DEF Tiled
<1>8. AreasInBlocks(m, h)
  <2>1. \A c \in DOMAIN m \ {a} : m[c] = n[c] /\ c \in DOMAIN n
    BY <1>2
  <2>2. \A c \in DOMAIN n : n[c].status = "alloc" => c \in DOMAIN m \ {a}
    BY <1>1, <1>2
  <2> HIDE DEF m
  <2> QED
    BY <1>3, <1>5, <2>1, <2>2 DEF AreasInBlocks
<1> QED
  BY <1>6, <1>7, <1>8

\* In a tiled pool a node follows at most one other, and lies behind it.
LEMMA OneBefore ==
    ASSUME NEW n, NEW h, Typed(n, h), Tiled(n),
           NEW a \in DOMAIN n, NEW b \in DOMAIN n, NEW c \in DOMAIN n, n[b].next = a
    PROVE  b < a /\ (n[c].next = a => c = b)
<1>1. a \in Nat /\ b \in Nat /\ c \in Nat /\ n[b] \in Node /\ n[c] \in Node /\ a # NULL
  BY DEF Typed, Tiled, NULL
<1>2. a = End(n, b) /\ b < a
  BY <1>1 DEF Tiled, End, Data, Node
<1>3. ASSUME n[c].next = a
      PROVE  c = b
  <2>1. a = End(n, c) /\ c < a
    BY <1>1, <1>3 DEF Tiled, End, Data, Node
  <2>2. ~ (c < b) /\ ~ (b < c)
    BY <1>1, <1>2, <2>1 DEF Tiled
  <2> QED
    BY <1>1, <2>2
<1> QED
  BY <1>2, <1>3

\* The next node lies behind.
LEMMA NextIsBehind ==
    ASSUME NEW n, NEW h, Typed(n, h), Tiled(n), NEW a \in DOMAIN n, n[a].next # NULL
    PROVE  /\ n[a].next \in DOMAIN n /\ a \in Nat /\ n[a].next \in Nat
           /\ a < n[a].next /\ n[a].next # a
<1>1. n[a].next \in DOMAIN n
  BY DEF Tiled
<1>2. a \in Nat /\ n[a].next \in Nat
  BY <1>1 DEF Typed
<1>3. a < n[a].next
  BY <1>1, OneBefore
<1> QED
  BY <1>1, <1>2, <1>3

\* What can be merged after a merge could be merged before it.
LEMMA MergeAddsNoPair ==
    ASSUME NEW n, NEW h, Typed(n, h), Tiled(n), AreasInBlocks(n, h),
           NEW a \in DOMAIN n, Mergeable(n, a),
           NEW x \in DOMAIN Merged(n, a), Mergeable(Merged(n, a), x)
    PROVE  /\ x = a => Mergeable(n, n[a].next)
           /\ x # a => Mergeable(n, x) /\ n[x].next # n[a].next
<1> DEFINE b == n[a].next
           m == Merged(n, a)
<1>1. b \in DOMAIN n /\ n[a].status = "free" /\ n[b].status = "free" /\ a < b /\ a # b
  BY NextIsBehind DEF Mergeable
<1>2. /\ DOMAIN m = DOMAIN n \ {b}
      /\ m[a].next = n[b].next
      /\ \A c \in DOMAIN m \ {a} : m[c] = n[c]
  BY <1>1 DEF Merged
<1>3. m[a].status = "free"
  BY <1>1 DEF Merged
<1>4. Tiled(m) /\ Typed(m, h)
  BY MergeKeepsTiling
<1>5. m[x].next # NULL /\ m[x].status = "free" /\ m[m[x].next].status = "free" /\ m[x].next \in DOMAIN m
  BY <1>4 DEF Mergeable, Tiled
<1>6. CASE x = a
  <2> HIDE DEF m, b
  <2>1. n[b].next # NULL /\ n[n[b].next].status = "free"
    BY <1>1, <1>2, <1>3, <1>5, <1>6
  <2> QED
    BY <1>1, <1>6, <2>1 DEF Mergeable, b
<1>7. CASE x # a
  <2> HIDE DEF m, b
  <2>1. m[x] = n[x] /\ x \in DOMAIN n
    BY <1>2, <1>7 DEF m
  <2>2. n[x].next # NULL /\ n[x].status = "free" /\ n[n[x].next].status = "free" /\ n[x].next # b
    BY <1>1, <1>2, <1>3, <1>5, <2>1
  <2> QED
    BY <1>7, <2>2 DEF Mergeable, b
<1> QED
  BY <1>6, <1>7

\* Two blocks in use hold two areas.
LEMMA OneBlockPerArea ==
    ASSUME NEW n, NEW h, Typed(n, h), Tiled(n), AreasInBlocks(n, h),
           NEW a \in DOMAIN n, NEW b \in DOMAIN n, n[a].status = "alloc", n[b].status = "alloc",
           n[a].data = n[b].data
    PROVE  a = b
<1>1. a \in Nat /\ b \in Nat /\ n[a] \in Node /\ n[b] \in Node /\ h[n[a].data] \in Nat
  BY DEF Typed, AreasInBlocks
<1>2. /\ Data(a) <= n[a].data /\ n[a].data <= End(n, a)
      /\ Data(b) <= n[a].data /\ n[a].data <= End(n, b)
  BY <1>1 DEF AreasInBlocks, Node, End, Data
<1>3. ~ (a < b)
  <2>1. a < b => End(n, a) <= b
    BY DEF Tiled
  <2> QED
    BY <1>1, <1>2, <2>1 DEF Data, End, Node
<1>4. ~ (b < a)
  <2>1. b < a => End(n, b) <= a
    BY DEF Tiled
  <2> QED
    BY <1>1, <1>2, <2>1 DEF Data, End, Node
<1> QED
  BY <1>1, <1>3, <1>4

-----------------------------------------------------------------------------
(* kfree *)

\* Marking a block free leaves only its own pairs to merge.
LEMMA FreedKeeps ==
    ASSUME WellFormed, NEW a \in DOMAIN node, node[a].status = "alloc",
           NEW h, h = [q \in DOMAIN held \ {node[a].data} |-> held[q]]
    PROVE  /\ Typed(Freed(a), h) /\ Tiled(Freed(a)) /\ AreasInBlocks(Freed(a), h)
           /\ DOMAIN Freed(a) = DOMAIN node
           /\ \A x \in DOMAIN Freed(a) : Mergeable(Freed(a), x) => x = a \/ Freed(a)[x].next = a
<1> DEFINE f == Freed(a)
<1>1. /\ DOMAIN f = DOMAIN node /\ \A c \in DOMAIN node \ {a} : f[c] = node[c]
      /\ f[a].status = "free"
      /\ \A c \in DOMAIN node : f[c].next = node[c].next /\ f[c].length = node[c].length
  BY DEF Freed
<1>2. Typed(f, h)
  BY DEF Freed, WellFormed, Typed, Node
<1>3. Tiled(f)
  <2>1. \A c \in DOMAIN node : End(f, c) = End(node, c)
    BY <1>1 DEF End
  <2> HIDE DEF f
  <2> QED
    BY <1>1, <2>1 DEF Tiled, WellFormed
<1>4. AreasInBlocks(f, h)
  <2>1. \A c \in DOMAIN f : f[c].status = "alloc" =>
           c # a /\ f[c] = node[c] /\ node[c].data # node[a].data
    BY <1>1, OneBlockPerArea DEF WellFormed
  <2>2. \A c \in DOMAIN f : f[c].status = "alloc" => 
           /\ f[c].data \in DOMAIN h
           /\ Data(c) <= f[c].data /\ f[c].data + h[f[c].data] <= End(f, c)
    BY <1>1, <2>1 DEF AreasInBlocks, WellFormed, End
  <2>3. \A p \in DOMAIN h : \E c \in DOMAIN f : f[c].status = "alloc" /\ f[c].data = p
    <3> SUFFICES ASSUME NEW p \in DOMAIN h
                 PROVE  \E c \in DOMAIN f : f[c].status = "alloc" /\ f[c].data = p
      OBVIOUS
    <3>1. p \in DOMAIN held /\ p # node[a].data
      OBVIOUS
    <3>2. PICK c \in DOMAIN node : node[c].status = "alloc" /\ node[c].data = p
      BY <3>1 DEF WellFormed, AreasInBlocks
    <3> QED
      BY <1>1, <3>1, <3>2
  <2> QED
    BY <2>2, <2>3 DEF AreasInBlocks
<1>5. ASSUME NEW x \in DOMAIN f, Mergeable(f, x), x # a, f[x].next # a
      PROVE  FALSE
  <2>1. f[x] = node[x] /\ f[x].next \in DOMAIN node /\ f[f[x].next] = node[node[x].next]
    BY <1>1, <1>3, <1>5 DEF Mergeable, Tiled
  <2> HIDE DEF f
  <2> QED
    BY <1>1, <1>5, <2>1 DEF Mergeable, WellFormed, Compacted
<1> QED
  BY <1>1, <1>2, <1>3, <1>4, <1>5

\* After the two merges nothing is left to merge.
LEMMA CompactCompacts ==
    ASSUME NEW n, NEW h, Typed(n, h), Tiled(n), AreasInBlocks(n, h), NEW a \in DOMAIN n,
           \A x \in DOMAIN n : Mergeable(n, x) => x = a \/ n[x].next = a
    PROVE  /\ Typed(Compact(n, a), h) /\ Tiled(Compact(n, a)) /\ AreasInBlocks(Compact(n, a), h)
           /\ Compacted(Compact(n, a))
<1> DEFINE m == MergeNext(n, a)
<1>1. Typed(m, h) /\ Tiled(m) /\ AreasInBlocks(m, h)
  BY MergeKeepsTiling DEF MergeNext
<1>2. a \in DOMAIN m
  <2>1. Mergeable(n, a) => n[a].next # a
    BY NextIsBehind DEF Mergeable
  <2> QED
    BY <2>1 DEF MergeNext, Merged
<1>3. ASSUME NEW x \in DOMAIN m, Mergeable(m, x)
      PROVE  m[x].next = a
  <2>1. CASE ~ Mergeable(n, a)
    BY <1>3, <2>1 DEF MergeNext
  <2>2. CASE Mergeable(n, a)
    <3> DEFINE b == n[a].next
    <3>1. m = Merged(n, a) /\ x \in DOMAIN Merged(n, a) /\ Mergeable(Merged(n, a), x)
      BY <1>3, <2>2 DEF MergeNext
    <3>2. b \in DOMAIN n /\ a < b /\ a # b /\ a \in Nat /\ b \in Nat
      BY <2>2, NextIsBehind DEF Mergeable
    <3>3. n[b].next # a
      <4>1. n[b].next = a => b < a
        BY <3>2, OneBefore
      <4> QED
        BY <3>2, <4>1
    <3>4. ~ Mergeable(n, b)
      BY <3>2, <3>3
    <3>5. x # a /\ Mergeable(n, x)
      BY <2>2, <3>1, <3>4, MergeAddsNoPair
    <3>6. x \in DOMAIN n /\ m[x] = n[x]
      BY <3>1, <3>5 DEF Merged
    <3> QED
      BY <3>5, <3>6
  <2> QED
    BY <2>1, <2>2
<1> HIDE DEF m
<1>4. CASE Before(m, a) = {}
  <2>1. Compact(n, a) = m
    BY <1>4 DEF Compact, m
  <2> QED
    BY <1>1, <1>3, <1>4, <2>1 DEF Before, Compacted
<1>5. CASE Before(m, a) # {}
  <2> DEFINE p == CHOOSE b \in Before(m, a) : TRUE
  <2>1. p \in DOMAIN m /\ m[p].next = a
    <3>1. p \in Before(m, a)
      BY <1>5
    <3> QED
      BY <3>1 DEF Before
  <2>2. Compact(n, a) = MergeNext(m, p)
    BY <1>5 DEF Compact, m
  <2> HIDE DEF p
  <2>3. \A x \in DOMAIN m : m[x].next = a => x = p
    BY <1>1, <1>2, <2>1, OneBefore
  <2>4. p < a /\ p \in Nat /\ a \in Nat
    BY <1>1, <1>2, <2>1, OneBefore DEF Typed
  <2>5. Typed(MergeNext(m, p), h) /\ Tiled(MergeNext(m, p)) /\ AreasInBlocks(MergeNext(m, p), h)
    BY <1>1, <2>1, MergeKeepsTiling DEF MergeNext
  <2>6. ASSUME NEW x \in DOMAIN MergeNext(m, p), Mergeable(MergeNext(m, p), x)
        PROVE  FALSE
    <3>1. CASE ~ Mergeable(m, p)
      BY <1>3, <2>3, <2>6, <3>1 DEF MergeNext
    <3>2. CASE Mergeable(m, p)
      <4>1. x \in DOMAIN Merged(m, p) /\ Mergeable(Merged(m, p), x)
        BY <2>6, <3>2 DEF MergeNext
      <4>2. ~ Mergeable(m, a)
        <5>1. m[a].next = a => a < a
          BY <1>1, <1>2, OneBefore
        <5> QED
          BY <1>2, <1>3, <2>4, <5>1
      <4>3. x # p /\ Mergeable(m, x) /\ m[x].next # a /\ x \in DOMAIN m
        <5>1. x \in DOMAIN m
          BY <4>1 DEF Merged
        <5> QED
          BY <1>1, <2>1, <3>2, <4>1, <4>2, <5>1, MergeAddsNoPair
      <4> QED
        BY <1>3, <4>3
    <3> QED
      BY <3>1, <3>2
  <2> QED
    BY <2>2, <2>5, <2>6 DEF Compacted
<1> QED
  BY <1>4, <1>5

-----------------------------------------------------------------------------
(* kmalloc *)

\* The area lies in the block that was found, and so does the rest that is cut off.
LEMMA AreaFits ==
    ASSUME NEW size \in Nat, NEW align \in Nat, Typed(node, held), Tiled(node),
           NEW a \in Fits(Size(size), Alignment(align)),
           NEW d, d = RoundUp(Data(a), Alignment(align)),
           NEW rest, rest = RoundUp(d + Size(size), Ptr)
    PROVE  /\ a \in DOMAIN node /\ a \in Nat /\ node[a] \in Node /\ node[a].status = "free"
           /\ d \in Nat /\ Data(a) <= d /\ d + size <= End(node, a) /\ d % Alignment(align) = 0
           /\ rest \in Nat /\ a < rest /\ d + size <= rest /\ rest % Ptr = 0 /\ Data(a) <= rest
           /\ ~ (node[a].length - RealSize(a, Size(size), Alignment(align)) < MinBlk)
                => Data(rest) <= End(node, a)
<1> DEFINE s  == Size(size)
           al == Alignment(align)
           r  == RealSize(a, s, al)
<1>1. s \in Nat /\ size <= s
  BY RoundUpFacts DEF Size
<1>2. al \in Nat \ {0}
  BY DEF Alignment
<1>3. /\ a \in DOMAIN node /\ a \in Nat /\ node[a] \in Node /\ node[a].status = "free"
      /\ node[a].length >= r
  BY DEF Fits, Typed
<1>4. Data(a) \in Nat /\ a < Data(a)
  BY <1>3 DEF Data
<1> HIDE DEF s, al
<1>5. d \in Nat /\ Data(a) <= d /\ d % al = 0
  BY <1>2, <1>4, RoundUpFacts DEF al
<1>6. r \in Nat /\ d + s <= Data(a) + r
  <2>1. CASE Data(a) % al = 0
    BY <1>1, <1>4, <2>1 DEF RealSize, RoundUp, al
  <2>2. CASE Data(a) % al # 0
    <3>1. d = Data(a) + (al - (Data(a) % al))
      BY <1>2, <1>4, <2>2, RoundUpFacts DEF al
    <3>2. al - (Data(a) % al) \in Nat
      BY <1>2, <1>4
    <3>3. r = s + (s + (al - (Data(a) % al)))
      BY <2>2 DEF RealSize
    <3> HIDE DEF r
    <3> QED
      BY <1>1, <1>4, <3>1, <3>2, <3>3
  <2> QED
    BY <2>1, <2>2
<1> HIDE DEF r
<1>7. End(node, a) = Data(a) + node[a].length /\ node[a].length \in Nat
  BY <1>3 DEF End, Node
<1>8. d + size <= End(node, a)
  BY <1>1, <1>3, <1>4, <1>5, <1>6, <1>7
<1>9. rest \in Nat /\ d + s <= rest /\ rest < d + s + Ptr /\ rest % Ptr = 0
  <2>1. d + s \in Nat
    BY <1>1, <1>5
  <2> QED
    BY <2>1, RoundUpFacts DEF s
<1>10. ASSUME ~ (node[a].length - r < MinBlk)
       PROVE  Data(rest) <= End(node, a)
  <2>1. r + MinBlk <= node[a].length
    BY <1>6, <1>7, <1>10
  <2> QED
    BY <2>1, <1>1, <1>4, <1>5, <1>6, <1>7, <1>9 DEF Data
<1>11. a < rest /\ d + size <= rest /\ Data(a) <= rest
  BY <1>1, <1>3, <1>4, <1>5, <1>9
<1> QED
  BY <1>3, <1>5, <1>8, <1>9, <1>10, <1>11 DEF r, s, al

\* No caller holds an area in a free block.
LEMMA FreeBlockHoldsNone ==
    ASSUME NEW n, NEW h, Typed(n, h), Tiled(n), AreasInBlocks(n, h),
           NEW a \in DOMAIN n, n[a].status = "free", NEW q \in DOMAIN h
    PROVE  q + h[q] <= a \/ End(n, a) < q
<1>1. PICK b \in DOMAIN n : n[b].status = "alloc" /\ n[b].data = q
  BY DEF AreasInBlocks
<1>2. a \in Nat /\ b \in Nat /\ n[a] \in Node /\ n[b] \in Node /\ q \in Nat /\ h[q] \in Nat
  BY DEF Typed
<1>3. a # b /\ Data(b) <= q /\ q + h[q] <= End(n, b)
  BY <1>1 DEF AreasInBlocks
<1>4. (a < b => End(n, a) <= b) /\ (b < a => End(n, b) <= a)
  BY DEF Tiled
<1> QED
  BY <1>2, <1>3, <1>4 DEF Data, End, Node

\* A block taken whole.
LEMMA TakenKeeps ==
    ASSUME WellFormed, NEW a \in DOMAIN node, node[a].status = "free", NEW size \in Nat,
           NEW d \in Nat, Data(a) <= d, d + size <= End(node, a),
           NEW h, h = [p \in DOMAIN held \cup {d} |-> IF p = d THEN size ELSE held[p]]
    PROVE  Typed(Taken(a, d), h) /\ Tiled(Taken(a, d)) /\ AreasInBlocks(Taken(a, d), h)
           /\ Compacted(Taken(a, d))
<1> DEFINE t == Taken(a, d)
<1>1. /\ DOMAIN t = DOMAIN node /\ \A c \in DOMAIN node \ {a} : t[c] = node[c]
      /\ t[a].status = "alloc" /\ t[a].data = d
      /\ \A c \in DOMAIN node : t[c].next = node[c].next /\ t[c].length = node[c].length
  BY DEF Taken
<1>2. Typed(t, h)
  BY DEF Taken, WellFormed, Typed, Node
<1>3. \A c \in DOMAIN node : End(t, c) = End(node, c)
  BY <1>1 DEF End
<1>4. \A c \in DOMAIN node : node[c].status = "alloc" => c # a /\ node[c].data # d
  <2> SUFFICES ASSUME NEW c \in DOMAIN node, node[c].status = "alloc"
               PROVE  c # a /\ node[c].data # d
    OBVIOUS
  <2>1. node[c].data \in DOMAIN held
    BY DEF WellFormed, AreasInBlocks
  <2>2. /\ node[c].data + held[node[c].data] <= a \/ End(node, a) < node[c].data
    BY <2>1, FreeBlockHoldsNone DEF WellFormed
  <2>3. a \in Nat /\ node[a] \in Node /\ node[c].data \in Nat /\ held[node[c].data] \in Nat
    BY <2>1 DEF WellFormed, Typed, Node
  <2> QED
    BY <2>2, <2>3 DEF Data, End, Node
<1> HIDE DEF t
<1>5. Tiled(t)
  BY <1>1, <1>3 DEF Tiled, WellFormed
<1>6. AreasInBlocks(t, h)
  <2>1. ASSUME NEW c \in DOMAIN t, t[c].status = "alloc"
        PROVE  /\ t[c].data \in DOMAIN h
               /\ Data(c) <= t[c].data /\ t[c].data + h[t[c].data] <= End(t, c)
    <3>1. CASE c = a
      BY <1>1, <1>3, <3>1
    <3>2. CASE c # a
      BY <1>1, <1>3, <1>4, <2>1, <3>2 DEF WellFormed, AreasInBlocks
    <3> QED
      BY <3>1, <3>2
  <2>2. ASSUME NEW p \in DOMAIN h
        PROVE  \E c \in DOMAIN t : t[c].status = "alloc" /\ t[c].data = p
    <3>1. CASE p = d
      BY <1>1, <3>1
    <3>2. CASE p # d
      <4>1. PICK c \in DOMAIN node : node[c].status = "alloc" /\ node[c].data = p
        BY <2>2, <3>2 DEF WellFormed, AreasInBlocks
      <4> QED
        BY <1>1, <1>4, <4>1
    <3> QED
      BY <3>1, <3>2
  <2> QED
    BY <2>1, <2>2 DEF AreasInBlocks
<1>7. Compacted(t)
  <2> SUFFICES ASSUME NEW c \in DOMAIN t, Mergeable(t, c)
               PROVE  FALSE
    BY DEF Compacted
  <2>1. t[c].next \in DOMAIN t
    BY <1>5 DEF Mergeable, Tiled
  <2>2. c # a /\ t[c].next # a
    BY <1>1 DEF Mergeable
  <2> QED
    BY <1>1, <2>1, <2>2 DEF Mergeable, WellFormed, Compacted
<1> QED
  BY <1>2, <1>5, <1>6, <1>7 DEF t

\* A block cut in two.
LEMMA SplitKeeps ==
    ASSUME WellFormed, NEW a \in DOMAIN node, node[a].status = "free", NEW size \in Nat,
           NEW d \in Nat, Data(a) <= d,
           NEW rest \in Nat, d + size <= rest, rest % Ptr = 0, Data(rest) <= End(node, a),
           NEW h, h = [p \in DOMAIN held \cup {d} |-> IF p = d THEN size ELSE held[p]]
    PROVE  Typed(Split(a, d, rest), h) /\ Tiled(Split(a, d, rest)) /\ AreasInBlocks(Split(a, d, rest), h)
           /\ Compacted(Split(a, d, rest))
<1> DEFINE t == Split(a, d, rest)
<1>1. /\ a \in Nat /\ node[a] \in Node /\ Data(a) \in Nat /\ a < Data(a) /\ Data(a) <= rest /\ rest < Data(rest)
      /\ Data(rest) \in Nat /\ End(node, a) \in Nat /\ End(node, a) = Data(a) + node[a].length /\ a < rest
      /\ d + size <= End(node, a) /\ Base <= a
  <2>1. a \in Nat /\ node[a] \in Node /\ Base <= a
    BY DEF WellFormed, Typed, Tiled
  <2>2. node[a].length \in Nat
    BY <2>1 DEF Node
  <2> QED
    BY <2>1, <2>2 DEF Data, End
<1>2. rest \notin DOMAIN node /\ rest # NULL /\ rest # a
  <2>1. rest \in DOMAIN node => End(node, a) <= rest
    BY <1>1 DEF WellFormed, Tiled
  <2> QED
    BY <1>1, <2>1 DEF NULL
<1>3. /\ DOMAIN t = DOMAIN node \cup {rest}
      /\ \A c \in DOMAIN node \ {a} : t[c] = node[c]
      /\ t[a] = [next |-> rest, length |-> rest - Data(a), status |-> "alloc", data |-> d]
      /\ t[rest] = [next |-> node[a].next, length |-> Data(a) + node[a].length - Data(rest),
                    status |-> "free", data |-> Data(rest)]
  BY <1>2 DEF Split
<1>4. End(t, a) = rest /\ End(t, rest) = End(node, a)
  <2> HIDE DEF t
  <2>0. t[a].length = rest - Data(a) /\ t[rest].length = Data(a) + node[a].length - Data(rest)
    BY <1>3
  <2>1. End(node, a) = Data(a) + node[a].length
    BY <1>1
  <2>2. node[a].length \in Nat /\ rest \in Nat /\ Data(a) \in Nat /\ Data(rest) \in Nat
    BY <1>1 DEF Node
  <2>3. End(t, a) = Data(a) + t[a].length /\ End(t, rest) = Data(rest) + t[rest].length
    BY DEF End
  <2> QED
    BY <2>0, <2>1, <2>2, <2>3
<1>5. \A c \in DOMAIN node \ {a} : End(t, c) = End(node, c)
  BY <1>3 DEF End
<1>6. Typed(t, h)
  <2>1. t = [c \in DOMAIN t |-> t[c]]
    BY DEF Split
  <2>2. t[a] \in Node /\ t[rest] \in Node
    BY <1>1, <1>3 DEF Node
  <2> HIDE DEF t
  <2> QED
    BY <1>3, <2>1, <2>2 DEF WellFormed, Typed
<1>7. \A c \in DOMAIN node : node[c].status = "alloc" => c # a /\ node[c].data # d
  <2> SUFFICES ASSUME NEW c \in DOMAIN node, node[c].status = "alloc"
               PROVE  c # a /\ node[c].data # d
    OBVIOUS
  <2>1. node[c].data \in DOMAIN held
    BY DEF WellFormed, AreasInBlocks
  <2>2. /\ node[c].data + held[node[c].data] <= a \/ End(node, a) < node[c].data
    BY <2>1, FreeBlockHoldsNone DEF WellFormed
  <2>3. node[c].data \in Nat /\ held[node[c].data] \in Nat
    BY <2>1 DEF WellFormed, Typed
  <2> QED
    BY <1>1, <2>2, <2>3
<1> HIDE DEF t
<1>8. Tiled(t)
  <2>1. ASSUME NEW c \in DOMAIN t
        PROVE  Base <= c /\ c % Ptr = 0 /\ End(t, c) <= Top
    BY <1>1, <1>3, <1>4, <1>5 DEF WellFormed, Tiled, Top
  <2>2. ASSUME NEW c \in DOMAIN t, c # Base
        PROVE  \E b \in DOMAIN t : t[b].next = c
    <3>1. CASE c = rest
      BY <1>3, <3>1
    <3>2. CASE c # rest
      <4>1. PICK b \in DOMAIN node : node[b].next = c
        BY <1>3, <2>2, <3>2 DEF WellFormed, Tiled
      <4>2. CASE b = a
        BY <1>3, <4>1, <4>2
      <4>3. CASE b # a
        BY <1>3, <4>1, <4>3
      <4> QED
        BY <4>2, <4>3
    <3> QED
      BY <3>1, <3>2
  <2>3. ASSUME NEW c \in DOMAIN t
        PROVE  IF t[c].next = NULL THEN End(t, c) = Top
               ELSE t[c].next = End(t, c) /\ t[c].next \in DOMAIN t
    <3>1. CASE c = a
      BY <1>2, <1>3, <1>4, <3>1
    <3>2. CASE c = rest
      BY <1>3, <1>4, <3>2 DEF WellFormed, Tiled
    <3>3. CASE c # a /\ c # rest
      BY <1>3, <1>5, <3>3 DEF WellFormed, Tiled
    <3> QED
      BY <3>1, <3>2, <3>3
  <2>4. ASSUME NEW c \in DOMAIN t, NEW b \in DOMAIN t, c < b
        PROVE  End(t, c) <= b
    <3>1. CASE c = a
      <4>1. b # rest => b \in DOMAIN node /\ End(node, a) <= b /\ b \in Nat
        BY <1>3, <2>4, <3>1 DEF WellFormed, Tiled, Typed
      <4> QED
        BY <1>1, <1>4, <3>1, <4>1
    <3>2. CASE c = rest
      <4>1. b \in DOMAIN node /\ a < b
        <5>1. b \in DOMAIN node /\ b \in Nat
          BY <1>3, <2>4, <3>2 DEF WellFormed, Typed
        <5> QED
          BY <1>1, <2>4, <3>2, <5>1
      <4> QED
        BY <1>4, <3>2, <4>1 DEF WellFormed, Tiled
    <3>3. CASE c # a /\ c # rest /\ b = rest
      <4>1. c \in DOMAIN node /\ c \in Nat /\ End(t, c) = End(node, c) /\ node[c] \in Node
        BY <1>3, <1>5, <3>3 DEF WellFormed, Typed
      <4>2. a < c => End(node, a) <= c
        BY <4>1 DEF WellFormed, Tiled
      <4>3. c < a
        BY <1>1, <2>4, <3>3, <4>1, <4>2
      <4>4. End(node, c) <= a
        BY <4>1, <4>3 DEF WellFormed, Tiled
      <4> QED
        BY <1>1, <3>3, <4>1, <4>4 DEF End, Data, Node
    <3>4. CASE c # a /\ c # rest /\ b # rest
      BY <1>3, <1>5, <2>4, <3>4 DEF WellFormed, Tiled
    <3> QED
      BY <3>1, <3>2, <3>3, <3>4
  <2> QED
    BY <1>3, <2>1, <2>2, <2>3, <2>4 DEF WellFormed, Tiled
<1>9. AreasInBlocks(t, h)
  <2>1. ASSUME NEW c \in DOMAIN t, t[c].status = "alloc"
        PROVE  /\ t[c].data \in DOMAIN h
               /\ Data(c) <= t[c].data /\ t[c].data + h[t[c].data] <= End(t, c)
    <3>1. CASE c = a
      BY <1>3, <1>4, <3>1
    <3>2. CASE c # a
      <4>1. c \in DOMAIN node /\ t[c] = node[c] /\ End(t, c) = End(node, c)
        BY <1>3, <1>5, <2>1, <3>2
      <4> QED
        BY <1>7, <2>1, <4>1 DEF WellFormed, AreasInBlocks
    <3> QED
      BY <3>1, <3>2
  <2>2. ASSUME NEW p \in DOMAIN h
        PROVE  \E c \in DOMAIN t : t[c].status = "alloc" /\ t[c].data = p
    <3>1. CASE p = d
      BY <1>3, <3>1
    <3>2. CASE p # d
      <4>1. PICK c \in DOMAIN node : node[c].status = "alloc" /\ node[c].data = p
        BY <2>2, <3>2 DEF WellFormed, AreasInBlocks
      <4> QED
        BY <1>3, <1>7, <4>1
    <3> QED
      BY <3>1, <3>2
  <2> QED
    BY <2>1, <2>2 DEF AreasInBlocks
<1>10. Compacted(t)
  <2> SUFFICES ASSUME NEW c \in DOMAIN t, Mergeable(t, c)
               PROVE  FALSE
    BY DEF Compacted
  <2>1. t[c].next \in DOMAIN t /\ t[c].next # NULL /\ t[c].status = "free" /\ t[t[c].next].status = "free"
    BY <1>8 DEF Mergeable, Tiled
  <2>2. c # a /\ t[c].next # a
    BY <1>3, <2>1
  <2>3. t[c].next # rest
    BY <1>2, <1>3, <1>6, <1>8, <2>1, <2>2, OneBefore
  <2>4. node[t[c].next].status = "free"
    BY <1>3, <2>1, <2>2, <2>3
  <2>5. CASE c = rest
    BY <1>3, <2>1, <2>4, <2>5 DEF Mergeable, WellFormed, Compacted
  <2>6. CASE c # rest
    BY <1>3, <2>1, <2>2, <2>4, <2>6 DEF Mergeable, WellFormed, Compacted
  <2> QED
    BY <2>5, <2>6
<1> QED
  BY <1>6, <1>8, <1>9, <1>10 DEF t

-----------------------------------------------------------------------------
(* The theorems *)

\* Where nothing is held there is one block.
LEMMA NothingHeld ==
    ASSUME NEW n, NEW h, Typed(n, h), Tiled(n), Compacted(n), AreasInBlocks(n, h), DOMAIN h = {}
    PROVE  DOMAIN n = {Base} /\ End(n, Base) = Top
<1>1. \A a \in DOMAIN n : n[a].status = "free"
  BY DEF AreasInBlocks, Typed, Node
<1>2. \A a \in DOMAIN n : n[a].next = NULL
  BY <1>1 DEF Compacted, Mergeable, Tiled
<1>3. \A a \in DOMAIN n : a # Base => a = NULL
  BY <1>2 DEF Tiled
<1>4. \A a \in DOMAIN n : a # NULL
  BY DEF Tiled, NULL, Typed
<1>5. DOMAIN n = {Base}
  <2>1. Base \in DOMAIN n
    BY DEF Tiled
  <2>2. \A a \in DOMAIN n : a = Base
    BY <1>3, <1>4
  <2> QED
    BY <2>1, <2>2
<1>6. n[Base].next = NULL
  BY <1>2, <1>5
<1> QED
  BY <1>5, <1>6 DEF Tiled

LEMMA InitWellFormed == HeapInit => WellFormed
<1> SUFFICES ASSUME HeapInit PROVE WellFormed
  OBVIOUS
<1>1. /\ DOMAIN node = {Base} /\ DOMAIN held = {}
      /\ node[Base] = [next |-> NULL, length |-> Length - Header, status |-> "free", data |-> Data(Base)]
  BY DEF HeapInit
<1>2. Typed(node, held)
  BY <1>1 DEF HeapInit, Typed, Node, Data, NULL
<1>3. End(node, Base) = Top
  BY <1>1 DEF End, Data, Top
<1>4. Tiled(node)
  BY <1>1, <1>3 DEF Tiled, Top
<1>5. Compacted(node) /\ AreasInBlocks(node, held)
  BY <1>1 DEF Compacted, Mergeable, AreasInBlocks
<1> QED
  BY <1>1, <1>2, <1>3, <1>4, <1>5 DEF WellFormed

LEMMA KmallocKeeps ==
    ASSUME WellFormed, NEW size \in Sizes, NEW align \in Aligns, Kmalloc(size, align)
    PROVE  WellFormed' /\ A!Kmalloc(size, align)
<1> DEFINE s  == Size(size)
           al == Alignment(align)
<1>1. PICK a \in Fits(s, al) :
         LET d    == RoundUp(Data(a), al)
             rest == RoundUp(d + s, Ptr)
         IN /\ held' = [p \in DOMAIN held \cup {d} |-> IF p = d THEN size ELSE held[p]]
            /\ node' = IF node[a].length - RealSize(a, s, al) < MinBlk
                       THEN Taken(a, d) ELSE Split(a, d, rest)
  BY DEF Kmalloc
<1> DEFINE d    == RoundUp(Data(a), al)
           rest == RoundUp(d + s, Ptr)
<1>2. size \in Nat /\ align \in Nat
  OBVIOUS
<1>3. /\ a \in DOMAIN node /\ a \in Nat /\ node[a] \in Node /\ node[a].status = "free"
      /\ d \in Nat /\ Data(a) <= d /\ d + size <= End(node, a) /\ d % al = 0
      /\ rest \in Nat /\ d + size <= rest /\ rest % Ptr = 0
      /\ ~ (node[a].length - RealSize(a, s, al) < MinBlk) => Data(rest) <= End(node, a)
  BY <1>2, AreaFits DEF WellFormed
<1>4. held' = [p \in DOMAIN held \cup {d} |-> IF p = d THEN size ELSE held[p]]
  BY <1>1
<1>5. /\ Typed(node', held') /\ Tiled(node') /\ AreasInBlocks(node', held') /\ Compacted(node')
  <2>1. CASE node[a].length - RealSize(a, s, al) < MinBlk
    <3>1. node' = Taken(a, d)
      BY <1>1, <2>1
    <3> HIDE DEF d
    <3> QED
      BY <1>2, <1>3, <1>4, <3>1, TakenKeeps
  <2>2. CASE ~ (node[a].length - RealSize(a, s, al) < MinBlk)
    <3>1. node' = Split(a, d, rest)
      BY <1>1, <2>2
    <3>2. Data(rest) <= End(node, a)
      BY <1>3, <2>2
    <3> HIDE DEF d, rest
    <3> QED
      BY <1>2, <1>3, <1>4, <3>1, <3>2, SplitKeeps
  <2> QED
    BY <2>1, <2>2
<1>6. WellFormed'
  BY <1>5, NothingHeld DEF WellFormed
<1>7. d \in (Base .. Base + Length) \ DOMAIN held /\ d + size <= Base + Length
  <2>1. Base <= a /\ End(node, a) <= Base + Length
    BY <1>3 DEF WellFormed, Tiled, Top
  <2>2. \A q \in DOMAIN held : q + held[q] <= a \/ End(node, a) < q
    BY <1>3, FreeBlockHoldsNone DEF WellFormed
  <2> HIDE DEF d
  <2>3. d \notin DOMAIN held
    <3>1. d \in DOMAIN held => d + held[d] <= a \/ End(node, a) < d
      BY <2>2
    <3>2. d \in DOMAIN held => held[d] \in Nat
      BY DEF WellFormed, Typed
    <3> DEFINE e == End(node, a)
    <3>3. e \in Nat /\ d \in Nat /\ a \in Nat /\ a < d /\ d + size <= e
      BY <1>3 DEF Data, End, Node
    <3> HIDE DEF e
    <3>4. d <= e
      BY <1>2, <3>3
    <3> SUFFICES ASSUME d \in DOMAIN held
                 PROVE  FALSE
      OBVIOUS
    <3>5. d + held[d] <= a \/ e < d
      BY <3>1 DEF e
    <3> QED
      BY <3>2, <3>3, <3>4, <3>5
  <2> QED
    BY <1>2, <1>3, <2>1, <2>3 DEF Data, End, Node
<1>8. \A q \in DOMAIN held : A!Apart(d, size, q, held[q])
  <2> SUFFICES ASSUME NEW q \in DOMAIN held
               PROVE  A!Apart(d, size, q, held[q])
    OBVIOUS
  <2>1. q + held[q] <= a \/ End(node, a) < q
    BY <1>3, FreeBlockHoldsNone DEF WellFormed
  <2>2. q \in Nat /\ held[q] \in Nat
    BY DEF WellFormed, Typed
  <2> HIDE DEF d
  <2> QED
    BY <1>2, <1>3, <2>1, <2>2 DEF A!Apart, Data, End, Node
<1>9. d % A!Promised(align) = 0
  BY <1>3 DEF A!Promised, Alignment
<1> HIDE DEF d
<1> QED
  BY <1>4, <1>6, <1>7, <1>8, <1>9 DEF A!Kmalloc

LEMMA KfreeKeeps ==
    ASSUME WellFormed, NEW p \in DOMAIN held, Kfree(p)
    PROVE  WellFormed' /\ A!Kfree(p)
<1>1. PICK a \in DOMAIN node : /\ node[a].status = "alloc" /\ node[a].data = p
                              /\ node' = Compact(Freed(a), a)
                              /\ held' = [q \in DOMAIN held \ {p} |-> held[q]]
  BY DEF Kfree
<1>2. /\ Typed(Freed(a), held') /\ Tiled(Freed(a)) /\ AreasInBlocks(Freed(a), held')
      /\ a \in DOMAIN Freed(a)
      /\ \A x \in DOMAIN Freed(a) : Mergeable(Freed(a), x) => x = a \/ Freed(a)[x].next = a
  BY <1>1, FreedKeeps
<1>3. Typed(node', held') /\ Tiled(node') /\ AreasInBlocks(node', held') /\ Compacted(node')
  BY <1>1, <1>2, CompactCompacts
<1> QED
  BY <1>1, <1>3, NothingHeld DEF WellFormed, A!Kfree

LEMMA NextKeeps ==
    ASSUME WellFormed, [HeapNext]_heapVars
    PROVE  WellFormed' /\ [A!Next]_held
<1>1. CASE UNCHANGED heapVars
  BY <1>1 DEF heapVars, WellFormed
<1>2. ASSUME NEW size \in Sizes, NEW align \in Aligns, Kmalloc(size, align)
      PROVE  WellFormed' /\ A!Next
  BY <1>2, KmallocKeeps DEF A!Next
<1>3. ASSUME NEW p \in DOMAIN held, Kfree(p)
      PROVE  WellFormed' /\ A!Next
  BY <1>3, KfreeKeeps DEF A!Next
<1> QED
  BY <1>1, <1>2, <1>3 DEF HeapNext

\* The pool is well formed between calls: the list tiles it, nothing is left
\* uncompacted, and callers' areas are its used blocks (kmalloc, kfree).
THEOREM HeapWellFormed == HeapSpec => []WellFormed
BY InitWellFormed, NextKeeps, PTL DEF HeapSpec

\* kmalloc and kfree implement Allocator: no area overlaps another in use, leaves
\* the pool or misses its alignment.
THEOREM HeapIsAnAllocator == HeapSpec => IsAnAllocator
<1>1. HeapInit => A!Init
  BY DEF HeapInit, A!Init
<1>2. WellFormed /\ [HeapNext]_heapVars => [A!Next]_held
  BY NextKeeps
<1> QED
  BY <1>1, <1>2, HeapWellFormed, PTL DEF HeapSpec, IsAnAllocator, A!Spec
=============================================================================
