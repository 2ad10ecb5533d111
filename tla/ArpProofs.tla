------------------------------ MODULE ArpProofs ------------------------------
(***************************************************************************)
(* Theorems about Arp: for every pool, table and set of hops, a buffer is  *)
(* in exactly one place, an entry holds packets for its own hop only, and  *)
(* a packet goes where its hop was last said to be.                        *)
(***************************************************************************)
EXTENDS Arp, FiniteSetTheorems, WellFoundedInduction, TLAPS

Row == [state : {"unused", "arping", "established"}, ip : Ip \cup {NoIp}, hw : Hw \cup {NoHw},
        timer : Int, retries : Int, usage : Nat, txqueue : Seq(Buf)]

Types ==
    /\ entry \in [Entry -> Row]
    /\ free \subseteq Buf
    /\ kept \in Seq(Buf)
    /\ hop \in [Buf -> Ip \cup {NoIp}]
    /\ told \in [Ip \ StaticIp -> Hw \cup {NoHw}]

(* An entry in use is for a hop.                                           *)
UsedForAHop == \A i \in Entry : entry[i].state # "unused" => entry[i].ip \in Ip

(* An established entry has the address its hop was last said to have.     *)
KnowsWhatWasTold ==
    \A i \in Entry : entry[i].state = "established" /\ entry[i].ip \notin StaticIp
                        => entry[i].hw = told[entry[i].ip]

Inv == /\ Types /\ UsedForAHop /\ KnowsWhatWasTold
       /\ OneHome /\ WaitsForItsHop /\ OneEntryPerHop /\ SentWhereTold

USE ArpAssumption

-----------------------------------------------------------------------------
(* Choosing                                                                *)

(* A set of naturals with a member has a least one: the numbers below it   *)
(* are the smallest of a family of finite sets.                            *)
LEMMA LeastExists ==
    ASSUME NEW S \in SUBSET Nat, S # {}
    PROVE  \E x \in S : \A y \in S : x =< y
<1> DEFINE Below(x) == 0 .. (x - 1)
           T == {Below(x) : x \in S}
<1>1. T \subseteq FiniteSubsetsOf(Nat)
  <2> SUFFICES ASSUME NEW x \in S PROVE Below(x) \in FiniteSubsetsOf(Nat)
    OBVIOUS
  <2>1. IsFiniteSet(Below(x))
    BY FS_Interval
  <2> QED BY <2>1 DEF FiniteSubsetsOf
<1>2. T # {}
  OBVIOUS
<1>3. PICK t \in T : \A u \in T : ~ (<<u, t>> \in StrictSubsetOrdering(Nat))
  <2>1. IsWellFoundedOn(StrictSubsetOrdering(Nat), FiniteSubsetsOf(Nat))
    BY FS_StrictSubsetOrderingWellFounded
  <2> HIDE DEF T
  <2> QED BY <1>1, <1>2, <2>1, WFMin
<1>4. PICK x \in S : t = Below(x)
  OBVIOUS
<1>5. ASSUME NEW y \in S, y < x PROVE FALSE
  <2>1. Below(y) \in T
    OBVIOUS
  <2>2. Below(y) \subseteq Below(x) /\ y \in Below(x) /\ y \notin Below(y)
    BY <1>5
  <2>3. <<Below(y), Below(x)>> \in StrictSubsetOrdering(Nat)
    BY <2>2 DEF StrictSubsetOrdering
  <2> QED BY <1>3, <1>4, <2>1, <2>3
<1> QED BY <1>5

LEMMA MinIsMember == ASSUME NEW S \in SUBSET Nat, S # {} PROVE Min(S) \in S
  BY LeastExists DEF Min

LEMMA FoundMatches ==
    ASSUME NEW ip, Matching(ip) # {}
    PROVE  Found(ip) \in Matching(ip) /\ Found(ip) \in Entry
<1>1. Matching(ip) \in SUBSET Nat
  BY DEF Matching, Entry
<1> QED BY <1>1, MinIsMember DEF Found, Matching

(* Some entry is used least.                                               *)
LEMMA SomeLeastUsed == ASSUME Types PROVE LeastUsed # {}
<1> DEFINE U == {entry[i].usage : i \in Entry}
<1>1. U \in SUBSET Nat
  BY DEF Types, Row
<1>2. U # {}
  BY DEF Entry
<1>5. PICK x \in U : \A y \in U : x =< y
  <2> HIDE DEF U
  <2> QED BY <1>1, <1>2, LeastExists
<1>6. PICK i \in Entry : x = entry[i].usage
  OBVIOUS
<1> QED BY <1>5, <1>6 DEF LeastUsed

LEMMA NewEntryIsEntry == ASSUME Types PROVE NewEntry \in Entry
<1>1. Unoccupied \in SUBSET Nat /\ LeastUsed \in SUBSET Nat
  BY DEF Unoccupied, LeastUsed, Entry
<1>2. LeastUsed # {}
  BY SomeLeastUsed
<1> QED BY <1>1, <1>2, MinIsMember DEF NewEntry, Unoccupied, LeastUsed

LEMMA AllocIsFree == ASSUME free # {} PROVE Alloc \in free
  BY DEF Alloc

-----------------------------------------------------------------------------
(* Queues                                                                  *)

LEMMA OneInQueue == ASSUME NEW b PROVE ToSet(<<b>>) = {b} /\ IsInjective(<<b>>)
  BY DEF ToSet, IsInjective

LEMMA EmptyQueue == ToSet(<<>>) = {} /\ IsInjective(<<>>)
  BY DEF ToSet, IsInjective

LEMMA Appended ==
    ASSUME NEW q \in Seq(Buf), NEW b \in Buf, IsInjective(q), b \notin ToSet(q)
    PROVE  /\ Append(q, b) \in Seq(Buf) /\ Len(Append(q, b)) = Len(q) + 1
           /\ ToSet(Append(q, b)) = ToSet(q) \cup {b}
           /\ IsInjective(Append(q, b))
<1> DEFINE r == Append(q, b)
<1>1. /\ r \in Seq(Buf) /\ Len(r) = Len(q) + 1 /\ DOMAIN r = 1 .. Len(q) + 1
      /\ DOMAIN q = 1 .. Len(q) /\ Len(q) \in Nat
      /\ \A i \in 1 .. Len(q) : r[i] = q[i]
      /\ r[Len(q) + 1] = b
  OBVIOUS
<1> HIDE DEF r
<1>2. ToSet(r) = ToSet(q) \cup {b}
  <2>1. \A i \in DOMAIN r : r[i] \in ToSet(q) \cup {b}
    BY <1>1 DEF ToSet
  <2>2. \A i \in DOMAIN q : q[i] \in ToSet(r)
    BY <1>1 DEF ToSet
  <2>3. b \in ToSet(r)
    BY <1>1 DEF ToSet
  <2> QED BY <2>1, <2>2, <2>3 DEF ToSet
<1>3. IsInjective(r)
  BY <1>1 DEF IsInjective, ToSet
<1> QED BY <1>1, <1>2, <1>3 DEF r

LEMMA Taken ==
    ASSUME NEW q \in Seq(Buf), q # <<>>, IsInjective(q)
    PROVE  /\ Head(q) \in Buf /\ Tail(q) \in Seq(Buf)
           /\ ToSet(q) = ToSet(Tail(q)) \cup {Head(q)}
           /\ Head(q) \notin ToSet(Tail(q))
           /\ IsInjective(Tail(q))
<1> DEFINE r == Tail(q)
<1>1. /\ r \in Seq(Buf) /\ Len(q) \in Nat \ {0} /\ DOMAIN r = 1 .. Len(q) - 1
      /\ DOMAIN q = 1 .. Len(q) /\ Head(q) = q[1] /\ Head(q) \in Buf
      /\ \A i \in 1 .. Len(q) - 1 : r[i] = q[i + 1]
  OBVIOUS
<1> HIDE DEF r
<1>2. \A i \in DOMAIN r : i + 1 \in DOMAIN q /\ i + 1 # 1 /\ r[i] = q[i + 1]
  BY <1>1
<1>3. \A i \in DOMAIN q : i = 1 \/ (i - 1 \in DOMAIN r /\ r[i - 1] = q[i])
  BY <1>1
<1>4. 1 \in DOMAIN q
  BY <1>1
<1>5. ToSet(q) = ToSet(r) \cup {Head(q)}
  <2>1. \A i \in DOMAIN q : q[i] \in ToSet(r) \cup {Head(q)}
    BY <1>1, <1>3 DEF ToSet
  <2>2. \A i \in DOMAIN r : r[i] \in ToSet(q)
    BY <1>2 DEF ToSet
  <2>3. Head(q) \in ToSet(q)
    BY <1>1, <1>4 DEF ToSet
  <2> QED BY <2>1, <2>2, <2>3 DEF ToSet
<1>6. Head(q) \notin ToSet(r)
  BY <1>1, <1>2, <1>4 DEF ToSet, IsInjective
<1>7. IsInjective(r)
  BY <1>1, <1>2 DEF IsInjective
<1> QED BY <1>1, <1>5, <1>6, <1>7 DEF r

LEMMA WaitingAreBuffers ==
    ASSUME Types
    PROVE  /\ \A i \in Entry : Waiting(entry[i]) \subseteq Buf
           /\ ToSet(kept) \subseteq Buf
<1>1. \A q \in Seq(Buf) : ToSet(q) \subseteq Buf
  BY DEF ToSet
<1> QED BY <1>1 DEF Types, Row, Waiting

-----------------------------------------------------------------------------
(* What the steps have in common                                           *)

(* The queues of the entries D are emptied and their buffers given back.   *)
LEMMA QueuesEmptied ==
    ASSUME Types, OneHome, WaitsForItsHop, NEW D \in SUBSET Entry,
           entry' \in [Entry -> Row],
           \A i \in D : entry'[i].txqueue = <<>>,
           \A i \in Entry \ D :
              /\ entry'[i].txqueue = entry[i].txqueue
              /\ entry[i].txqueue # <<>> =>
                    entry'[i].state = "arping" /\ entry'[i].ip = entry[i].ip,
           Release(UNION {Waiting(entry[i]) : i \in D}),
           kept' = kept
    PROVE  /\ free' \subseteq Buf /\ hop' \in [Buf -> Ip \cup {NoIp}]
           /\ OneHome' /\ WaitsForItsHop'
<1> DEFINE W == UNION {Waiting(entry[i]) : i \in D}
<1>1. \A i \in D : Waiting(entry'[i]) = {} /\ IsInjective(entry'[i].txqueue)
  BY EmptyQueue DEF Waiting
<1>2. \A i \in Entry \ D : Waiting(entry'[i]) = Waiting(entry[i])
  BY DEF Waiting
<1>3. free' = free \cup W /\ \A b \in Buf : hop'[b] = IF b \in W THEN NoIp ELSE hop[b]
  BY DEF Release
<1>4. ASSUME NEW i \in Entry \ D, NEW b \in Waiting(entry[i]) PROVE b \notin W
  <2> SUFFICES ASSUME NEW j \in D, b \in Waiting(entry[j]) PROVE FALSE
    OBVIOUS
  <2>1. i \in Entry /\ j \in Entry /\ i # j
    OBVIOUS
  <2> QED BY <1>4, <2>1 DEF OneHome
<1>5. W \subseteq Buf
  BY WaitingAreBuffers
<1>6. free' \subseteq Buf /\ hop' \in [Buf -> Ip \cup {NoIp}]
  BY <1>5 DEF Types, Release
<1>7. OneHome'
  <2>1. (Buf = free \cup ToSet(kept) \cup UNION {Waiting(entry[i]) : i \in Entry})'
    <3>1. \A b \in Buf : b \in free \/ b \in ToSet(kept) \/ \E i \in Entry : b \in Waiting(entry[i])
      BY DEF OneHome
    <3>2. \A b \in Buf : b \in free' \/ b \in ToSet(kept') \/ \E i \in Entry : b \in Waiting(entry'[i])
      BY <3>1, <1>2, <1>3
    <3>3. \A i \in Entry : Waiting(entry'[i]) \subseteq Buf
      BY <1>1, <1>2, WaitingAreBuffers
    <3> QED BY <3>2, <3>3, <1>6, WaitingAreBuffers
  <2>2. (\A i \in Entry : Waiting(entry[i]) \cap (free \cup ToSet(kept)) = {})'
    BY <1>1, <1>2, <1>3, <1>4 DEF OneHome
  <2>3. (free \cap ToSet(kept) = {})'
    BY <1>3 DEF OneHome
  <2>4. (\A i, j \in Entry : i # j => Waiting(entry[i]) \cap Waiting(entry[j]) = {})'
    BY <1>1, <1>2 DEF OneHome
  <2>5. (\A i \in Entry : IsInjective(entry[i].txqueue))'
    BY <1>1 DEF OneHome
  <2>6. IsInjective(kept)'
    BY DEF OneHome
  <2> QED BY <2>1, <2>2, <2>3, <2>4, <2>5, <2>6 DEF OneHome
<1>8. WaitsForItsHop'
  <2> SUFFICES ASSUME NEW i \in Entry
               PROVE  /\ entry'[i].txqueue # <<>> => entry'[i].state = "arping"
                      /\ Len(entry'[i].txqueue) <= TxWaitMax
                      /\ \A b \in Waiting(entry'[i]) : hop'[b] = entry'[i].ip
    BY DEF WaitsForItsHop
  <2>1. CASE i \in D
    <3>1. entry'[i].txqueue = <<>> /\ Len(<<>>) = 0
      BY <2>1
    <3>2. Waiting(entry'[i]) = {}
      BY <2>1, <1>1
    <3>3. 0 <= TxWaitMax
      OBVIOUS
    <3> QED BY <3>1, <3>2, <3>3
  <2>2. CASE i \notin D
    <3>1. entry'[i].txqueue # <<>> => entry'[i].state = "arping"
      BY <2>2
    <3>2. Len(entry'[i].txqueue) <= TxWaitMax
      BY <2>2 DEF WaitsForItsHop
    <3>3. ASSUME NEW b \in Waiting(entry'[i]) PROVE hop'[b] = entry'[i].ip
      <4>1. b \in Waiting(entry[i]) /\ entry[i].txqueue # <<>>
        BY <2>2, <1>2, <3>3, EmptyQueue DEF Waiting
      <4>2. b \in Buf /\ b \notin W
        BY <2>2, <4>1, <1>4, WaitingAreBuffers
      <4> QED BY <2>2, <4>1, <4>2, <1>3 DEF WaitsForItsHop
    <3> QED BY <3>1, <3>2, <3>3
  <2> QED BY <2>1, <2>2
<1> QED BY <1>6, <1>7, <1>8

(* No entry comes into use, changes hands or learns an address.            *)
LEMMA HopsStay ==
    ASSUME Types, UsedForAHop, KnowsWhatWasTold, OneEntryPerHop,
           \A i \in Entry :
              entry'[i].state # "unused" =>
                 /\ entry[i].state # "unused" /\ entry'[i].ip = entry[i].ip
                 /\ entry'[i].state = entry[i].state /\ entry'[i].hw = entry[i].hw,
           told' = told
    PROVE  UsedForAHop' /\ KnowsWhatWasTold' /\ OneEntryPerHop'
  BY DEF UsedForAHop, KnowsWhatWasTold, OneEntryPerHop, Unoccupied

(* Neither the queues nor the addresses change.                            *)
LEMMA PlacesStay ==
    ASSUME OneHome, WaitsForItsHop,
           \A j \in Entry : /\ entry'[j].txqueue = entry[j].txqueue
                           /\ entry'[j].state = entry[j].state
                           /\ entry'[j].ip = entry[j].ip,
           UNCHANGED <<free, kept, hop>>
    PROVE  OneHome' /\ WaitsForItsHop'
<1>1. \A j \in Entry : Waiting(entry'[j]) = Waiting(entry[j])
  BY DEF Waiting
<1>2. {Waiting(entry'[j]) : j \in Entry} = {Waiting(entry[j]) : j \in Entry}
  BY <1>1
<1>3. OneHome'
  BY <1>1, <1>2 DEF OneHome
<1>4. WaitsForItsHop'
  BY <1>1 DEF WaitsForItsHop
<1> QED BY <1>3, <1>4

LEMMA NothingSent == ASSUME wire' = {} PROVE SentWhereTold'
  BY DEF SentWhereTold

-----------------------------------------------------------------------------
(* Single entries                                                          *)

LEMMA TouchedRow ==
    ASSUME NEW e \in Row
    PROVE  /\ Touched(e) \in Row /\ Touched(e).txqueue = e.txqueue
           /\ Touched(e).state = e.state /\ Touched(e).ip = e.ip /\ Touched(e).hw = e.hw
  BY DEF Touched, Row

States == {"unused", "arping", "established"}

LEMMA AddressesSet ==
    ASSUME NEW e \in Row, NEW ip \in Ip, NEW hw \in Hw
    PROVE  LET f == [e EXCEPT !.ip = ip, !.hw = hw]
           IN  f \in Row /\ f.ip = ip /\ f.hw = hw /\ f.txqueue = e.txqueue
  BY DEF Row

LEMMA CountedRow ==
    ASSUME NEW e \in Row
    PROVE  LET f == [e EXCEPT !.usage = @ + 1]
           IN  /\ f \in Row /\ f.txqueue = e.txqueue
               /\ f.state = e.state /\ f.ip = e.ip /\ f.hw = e.hw
  BY DEF Row

LEMMA DeletedRow ==
    ASSUME NEW e \in Row
    PROVE  /\ Deleted(e) \in Row /\ Deleted(e).txqueue = <<>> /\ Deleted(e).state = "unused"
<1> DEFINE z == 0
           s == "unused"
           q == <<>>
           d == [e EXCEPT !.timer = z, !.usage = z, !.retries = z, !.state = s, !.txqueue = q]
<1>1. z \in Nat /\ z \in Int /\ s \in States /\ q \in Seq(Buf)
  BY DEF States
<1>2. Deleted(e) = d
  BY DEF Deleted
<1> HIDE DEF z, s, q
<1>3. d \in Row /\ d.state = s /\ d.txqueue = q
  BY <1>1 DEF Row, States
<1> HIDE DEF d
<1>4. Deleted(e) \in Row /\ Deleted(e).state = s /\ Deleted(e).txqueue = q
  BY <1>2, <1>3
<1> QED BY <1>4 DEF s, q

LEMMA LearnedRow ==
    ASSUME NEW e \in Row, NEW hw \in Hw
    PROVE  /\ Learned(e, hw) \in Row /\ Learned(e, hw).txqueue = <<>>
           /\ Learned(e, hw).state = "established"
           /\ Learned(e, hw).ip = e.ip /\ Learned(e, hw).hw = hw
<1> DEFINE z == 0
           s == "established"
           q == <<>>
           d == [e EXCEPT !.hw = hw, !.state = s, !.timer = KeepTimer, !.retries = z, !.txqueue = q]
<1>1. z \in Int /\ s \in States /\ q \in Seq(Buf) /\ KeepTimer \in Int
  BY DEF States
<1>2. Learned(e, hw) = d
  BY DEF Learned
<1> HIDE DEF z, s, q
<1>3. d \in Row /\ d.state = s /\ d.txqueue = q /\ d.ip = e.ip /\ d.hw = hw
  BY <1>1 DEF Row, States
<1> HIDE DEF d
<1>4. /\ Learned(e, hw) \in Row /\ Learned(e, hw).state = s /\ Learned(e, hw).txqueue = q
      /\ Learned(e, hw).ip = e.ip /\ Learned(e, hw).hw = hw
  BY <1>2, <1>3
<1> QED BY <1>4 DEF s, q

LEMMA TickedRow ==
    ASSUME NEW e \in Row
    PROVE  /\ Ticked(e) \in Row
           /\ Expires(e) => Ticked(e).txqueue = <<>> /\ Ticked(e).state = "unused"
           /\ ~ Expires(e) => /\ Ticked(e).txqueue = e.txqueue /\ Ticked(e).state = e.state
                              /\ Ticked(e).ip = e.ip /\ Ticked(e).hw = e.hw
<1>1. CASE Expires(e)
  <2>1. Ticked(e) = Deleted(e)
    BY <1>1 DEF Ticked, Expires, Row
  <2> QED BY <1>1, <2>1, DeletedRow
<1>2. CASE ~ Expires(e) /\ e.state = "arping" /\ e.timer <= 1 /\ e.retries > 0
  <2>1. Ticked(e) = Retried(e)
    BY <1>2 DEF Ticked, Row
  <2>2. e.retries - 1 \in Int /\ QueryTimer \in Int
    BY DEF Row
  <2>3. /\ Retried(e) \in Row /\ Retried(e).txqueue = e.txqueue
        /\ Retried(e).state = e.state /\ Retried(e).ip = e.ip /\ Retried(e).hw = e.hw
    BY <2>2 DEF Retried, Row
  <2> QED BY <1>2, <2>1, <2>3
<1>3. CASE /\ ~ Expires(e) /\ ~ (e.state = "arping" /\ e.timer <= 1 /\ e.retries > 0)
           /\ e.state # "unused" /\ e.timer > 1
  <2>1. Ticked(e) = [e EXCEPT !.timer = @ - 1]
    BY <1>3 DEF Ticked
  <2> QED BY <1>3, <2>1 DEF Row
<1>4. CASE /\ ~ Expires(e) /\ ~ (e.state = "arping" /\ e.timer <= 1 /\ e.retries > 0)
           /\ ~ (e.state # "unused" /\ e.timer > 1)
  BY <1>4 DEF Ticked
<1> QED BY <1>1, <1>2, <1>3, <1>4

-----------------------------------------------------------------------------
(* The steps that only empty queues                                        *)

LEMMA InitInv == Init => Inv
<1> SUFFICES ASSUME Init PROVE Inv
  OBVIOUS
<1>1. Types
  <2>1. Unused \in Row
    BY DEF Unused, Row
  <2> QED BY <2>1 DEF Init, Types
<1>2. \A i \in Entry : /\ entry[i].state = "unused" /\ entry[i].txqueue = <<>>
                       /\ Waiting(entry[i]) = {} /\ IsInjective(entry[i].txqueue)
  BY EmptyQueue DEF Init, Unused, Waiting
<1>3. OneHome
  BY <1>2, EmptyQueue DEF Init, OneHome
<1>4. WaitsForItsHop
  <2>1. Len(<<>>) = 0 /\ 0 <= TxWaitMax
    OBVIOUS
  <2> QED BY <1>2, <2>1 DEF WaitsForItsHop
<1>5. UsedForAHop /\ KnowsWhatWasTold /\ OneEntryPerHop /\ SentWhereTold
  BY <1>2 DEF Init, UsedForAHop, KnowsWhatWasTold, OneEntryPerHop, Unoccupied, SentWhereTold
<1> QED BY <1>1, <1>3, <1>4, <1>5 DEF Inv

LEMMA SendToKnownKeeps == ASSUME Inv, NEW ip \in Ip, SendToKnown(ip) PROVE Inv'
<1> DEFINE i == Found(ip)
           e == entry[i]
<1>1. i \in Entry /\ e \in Row /\ e.ip = ip /\ e.state = "established"
  BY FoundMatches DEF SendToKnown, Inv, Types, Matching
<1>2. /\ entry' = [entry EXCEPT ![i] = [Touched(e) EXCEPT !.usage = @ + 1]]
      /\ wire' = {[to |-> ip, hw |-> e.hw]}
      /\ UNCHANGED <<free, kept, hop, told>>
  BY DEF SendToKnown
<1> DEFINE f == [Touched(e) EXCEPT !.usage = @ + 1]
<1>3. f \in Row /\ f.txqueue = e.txqueue /\ f.state = e.state /\ f.ip = e.ip /\ f.hw = e.hw
  BY <1>1, TouchedRow, CountedRow
<1> HIDE DEF i, e, f
<1>4. entry' = [entry EXCEPT ![i] = f] /\ entry[i] = e
  BY <1>2 DEF e, f
<1>5. /\ entry' \in [Entry -> Row]
      /\ \A j \in Entry : /\ entry'[j].txqueue = entry[j].txqueue
                          /\ entry'[j].state = entry[j].state
                          /\ entry'[j].ip = entry[j].ip /\ entry'[j].hw = entry[j].hw
  BY <1>1, <1>3, <1>4 DEF Inv, Types
<1>6. OneHome' /\ WaitsForItsHop'
  BY <1>2, <1>5, PlacesStay DEF Inv
<1>7. UsedForAHop' /\ KnowsWhatWasTold' /\ OneEntryPerHop'
  BY <1>2, <1>5, HopsStay DEF Inv
<1>8. SentWhereTold'
  <2>1. ip \in StaticIp \/ e.hw = told[ip]
    BY <1>1, <1>4 DEF Inv, KnowsWhatWasTold
  <2> QED BY <1>2, <2>1 DEF SentWhereTold
<1>9. Types'
  BY <1>2, <1>5 DEF Inv, Types
<1> QED BY <1>6, <1>7, <1>8, <1>9 DEF Inv

LEMMA LookupKeeps == ASSUME Inv, NEW ip \in Ip, Lookup(ip) PROVE Inv'
<1> DEFINE i == Found(ip)
<1>1. i \in Entry /\ entry[i] \in Row
  BY FoundMatches DEF Lookup, Inv, Types
<1>2. /\ entry' = [entry EXCEPT ![i] = Touched(@)]
      /\ wire' = {} /\ UNCHANGED <<free, kept, hop, told>>
  BY DEF Lookup
<1> HIDE DEF i
<1>3. /\ entry' \in [Entry -> Row]
      /\ \A j \in Entry : /\ entry'[j].txqueue = entry[j].txqueue
                          /\ entry'[j].state = entry[j].state
                          /\ entry'[j].ip = entry[j].ip /\ entry'[j].hw = entry[j].hw
  BY <1>1, <1>2, TouchedRow DEF Inv, Types
<1>4. OneHome' /\ WaitsForItsHop'
  BY <1>2, <1>3, PlacesStay DEF Inv
<1>5. UsedForAHop' /\ KnowsWhatWasTold' /\ OneEntryPerHop'
  BY <1>2, <1>3, HopsStay DEF Inv
<1>6. Types' /\ SentWhereTold'
  BY <1>2, <1>3 DEF Inv, Types, SentWhereTold
<1> QED BY <1>4, <1>5, <1>6 DEF Inv

LEMMA DeleteKeeps == ASSUME Inv, NEW ip \in Ip, Delete(ip) PROVE Inv'
<1> DEFINE i == Found(ip)
<1>1. i \in Entry /\ entry[i] \in Row
  BY FoundMatches DEF Delete, Inv, Types
<1>2. /\ entry' = [entry EXCEPT ![i] = Deleted(Touched(@))]
      /\ wire' = {} /\ Release(Waiting(entry[i])) /\ UNCHANGED <<kept, told>>
  BY DEF Delete
<1> HIDE DEF i
<1>3. /\ entry' \in [Entry -> Row]
      /\ entry'[i].txqueue = <<>> /\ entry'[i].state = "unused"
      /\ \A j \in Entry \ {i} : entry'[j] = entry[j]
  BY <1>1, <1>2, TouchedRow, DeletedRow DEF Inv, Types
<1>4. UNION {Waiting(entry[j]) : j \in {i}} = Waiting(entry[i])
  OBVIOUS
<1>5. /\ free' \subseteq Buf /\ hop' \in [Buf -> Ip \cup {NoIp}]
      /\ OneHome' /\ WaitsForItsHop'
  <2>1. \A j \in Entry \ {i} :
           /\ entry'[j].txqueue = entry[j].txqueue
           /\ entry[j].txqueue # <<>> =>
                 entry'[j].state = "arping" /\ entry'[j].ip = entry[j].ip
    BY <1>3 DEF Inv, WaitsForItsHop
  <2>2. {i} \in SUBSET Entry /\ Release(UNION {Waiting(entry[j]) : j \in {i}})
    BY <1>1, <1>2, <1>4
  <2>3. kept' = kept /\ Types /\ OneHome /\ WaitsForItsHop
    BY <1>2 DEF Inv
  <2>4. \A j \in {i} : entry'[j].txqueue = <<>>
    BY <1>3
  <2> QED BY <1>3, <2>1, <2>2, <2>3, <2>4, QueuesEmptied
<1>6. UsedForAHop' /\ KnowsWhatWasTold' /\ OneEntryPerHop'
  BY <1>2, <1>3, HopsStay DEF Inv
<1>7. Types' /\ SentWhereTold'
  BY <1>2, <1>3, <1>5 DEF Inv, Types, SentWhereTold
<1> QED BY <1>5, <1>6, <1>7 DEF Inv

LEMMA TickKeeps == ASSUME Inv, Tick PROVE Inv'
<1> DEFINE D == {j \in Entry : Expires(entry[j])}
<1>1. /\ entry' = [i \in Entry |-> Ticked(entry[i])]
      /\ wire' = {} /\ UNCHANGED <<kept, told>>
      /\ Release(UNION {Waiting(entry[i]) : i \in D})
  BY DEF Tick
<1>2. /\ entry' \in [Entry -> Row]
      /\ \A i \in D : entry'[i].txqueue = <<>> /\ entry'[i].state = "unused"
      /\ \A i \in Entry \ D : /\ entry'[i].txqueue = entry[i].txqueue
                              /\ entry'[i].state = entry[i].state
                              /\ entry'[i].ip = entry[i].ip /\ entry'[i].hw = entry[i].hw
  BY <1>1, TickedRow DEF Inv, Types
<1>3. D \in SUBSET Entry
  OBVIOUS
<1> HIDE DEF D
<1>4. /\ free' \subseteq Buf /\ hop' \in [Buf -> Ip \cup {NoIp}]
      /\ OneHome' /\ WaitsForItsHop'
  <2>1. \A j \in Entry \ D :
           /\ entry'[j].txqueue = entry[j].txqueue
           /\ entry[j].txqueue # <<>> =>
                 entry'[j].state = "arping" /\ entry'[j].ip = entry[j].ip
    BY <1>2 DEF Inv, WaitsForItsHop
  <2>2. kept' = kept /\ Types /\ OneHome /\ WaitsForItsHop
    BY <1>1 DEF Inv
  <2> QED BY <1>1, <1>2, <1>3, <2>1, <2>2, QueuesEmptied
<1>5. UsedForAHop' /\ KnowsWhatWasTold' /\ OneEntryPerHop'
  <2>1. \A i \in Entry : entry'[i].state # "unused" => i \notin D
    BY <1>2
  <2>2. told' = told
    BY <1>1
  <2> QED BY <1>2, <2>1, <2>2, HopsStay DEF Inv
<1>6. Types' /\ SentWhereTold'
  BY <1>1, <1>2, <1>4 DEF Inv, Types, SentWhereTold
<1> QED BY <1>4, <1>5, <1>6 DEF Inv

(* An answer: the packets that waited go to the address it tells.          *)
LEMMA ResponseKeeps == ASSUME Inv, NEW ip \in Ip, NEW hw \in Hw, Response(ip, hw) PROVE Inv'
<1> DEFINE D == Matching(ip)
           W == UNION {Waiting(entry[i]) : i \in D}
<1>1. /\ entry' = [i \in Entry |-> IF i \in D THEN Learned(entry[i], hw) ELSE entry[i]]
      /\ wire' = Packets(W, hw) /\ Release(W) /\ kept' = kept
      /\ told' = [i \in DOMAIN told |-> IF i = ip THEN hw ELSE told[i]]
  BY DEF Response
<1>2. D \in SUBSET Entry /\ \A i \in D : entry[i].ip = ip /\ entry[i].state # "unused"
  BY DEF Matching
<1>3. \A i \in Entry \ D : entry[i].state # "unused" => entry[i].ip # ip
  BY DEF Matching
<1> HIDE DEF D
<1>4. /\ entry' \in [Entry -> Row]
      /\ \A i \in D : /\ entry'[i].txqueue = <<>> /\ entry'[i].state = "established"
                      /\ entry'[i].ip = ip /\ entry'[i].hw = hw
      /\ \A i \in Entry \ D : entry'[i] = entry[i]
  <2>1. \A i \in Entry : entry[i] \in Row
    BY DEF Inv, Types
  <2>2. \A i \in D : entry'[i] = Learned(entry[i], hw) /\ entry'[i] \in Row
    BY <1>1, <1>2, <2>1, LearnedRow
  <2>3. \A i \in Entry \ D : entry'[i] = entry[i]
    BY <1>1
  <2>4. \A i \in D : /\ entry'[i].txqueue = <<>> /\ entry'[i].state = "established"
                     /\ entry'[i].ip = ip /\ entry'[i].hw = hw
    BY <1>2, <2>1, <2>2, LearnedRow
  <2>5. entry' \in [Entry -> Row]
    BY <1>1, <2>1, <2>2, <2>3
  <2> QED BY <2>3, <2>4, <2>5
<1>5. /\ free' \subseteq Buf /\ hop' \in [Buf -> Ip \cup {NoIp}]
      /\ OneHome' /\ WaitsForItsHop'
  <2>1. \A j \in Entry \ D :
           /\ entry'[j].txqueue = entry[j].txqueue
           /\ entry[j].txqueue # <<>> =>
                 entry'[j].state = "arping" /\ entry'[j].ip = entry[j].ip
    BY <1>4 DEF Inv, WaitsForItsHop
  <2>2. kept' = kept /\ Types /\ OneHome /\ WaitsForItsHop
    BY <1>1 DEF Inv
  <2> QED BY <1>1, <1>2, <1>4, <2>1, <2>2, QueuesEmptied
<1>6. told' \in [Ip \ StaticIp -> Hw \cup {NoHw}]
  BY <1>1 DEF Inv, Types
<1>7. /\ ip \notin StaticIp => told'[ip] = hw
      /\ \A p \in Ip \ StaticIp : p # ip => told'[p] = told[p]
  BY <1>1 DEF Inv, Types
<1>8. UsedForAHop'
  BY <1>2, <1>4 DEF Inv, UsedForAHop
<1>9. KnowsWhatWasTold'
  <2> SUFFICES ASSUME NEW i \in Entry, entry'[i].state = "established",
                      entry'[i].ip \notin StaticIp
               PROVE  entry'[i].hw = told'[entry'[i].ip]
    BY DEF KnowsWhatWasTold
  <2>1. CASE i \in D
    BY <2>1, <1>4, <1>7
  <2>2. CASE i \notin D
    <3>1. entry'[i] = entry[i]
      BY <2>2, <1>4
    <3>2. entry[i].ip \in Ip /\ entry[i].ip # ip /\ entry[i].hw = told[entry[i].ip]
      BY <2>2, <1>3, <3>1 DEF Inv, UsedForAHop, KnowsWhatWasTold
    <3> QED BY <1>7, <3>1, <3>2
  <2> QED BY <2>1, <2>2
<1>10. OneEntryPerHop'
  <2>1. \A i \in Entry : /\ entry'[i].state # "unused" => entry[i].state # "unused"
                         /\ entry'[i].ip = entry[i].ip
    BY <1>2, <1>4
  <2> QED BY <2>1 DEF Inv, OneEntryPerHop, Unoccupied
<1>11. SentWhereTold'
  <2>1. \A b \in W : hop[b] = ip
    BY <1>2 DEF Inv, WaitsForItsHop
  <2>2. \A p \in wire' : p.to = ip /\ p.hw = hw
    BY <1>1, <2>1 DEF Packets
  <2> QED BY <1>7, <2>2 DEF SentWhereTold
<1>12. Types'
  BY <1>1, <1>4, <1>5, <1>6 DEF Inv, Types
<1> QED BY <1>5, <1>8, <1>9, <1>10, <1>11, <1>12 DEF Inv

(* By hand: the entry taken may be one in use for another hop.             *)
LEMMA AddKeeps == ASSUME Inv, NEW ip \in StaticIp, NEW hw \in Hw, Add(ip, hw) PROVE Inv'
<1> DEFINE known == Matching(AsIp[hw])
           i == IF known # {} THEN Min(known) ELSE NewEntry
           e == IF known # {} THEN entry[i] ELSE Deleted(entry[i])
           f == [e EXCEPT !.ip = ip, !.hw = hw, !.retries = 0, !.timer = 0,
                          !.state = "established", !.txqueue = <<>>]
<1>1. /\ entry' = [entry EXCEPT ![i] = f]
      /\ wire' = Packets(Waiting(e), hw) /\ Release(Waiting(entry[i]))
      /\ UNCHANGED <<kept, told>>
  BY DEF Add
<1>2. i \in Entry
  <2>1. known # {} => Min(known) \in known
    <3>1. known \in SUBSET Nat
      BY DEF Matching, Entry
    <3> QED BY <3>1, MinIsMember
  <2> QED BY <2>1, NewEntryIsEntry DEF Inv, Matching
<1>3. entry[i] \in Row
  BY <1>2 DEF Inv, Types
<1>4. e \in Row
  BY <1>3, DeletedRow
<1>5. \A b \in Waiting(e) : hop[b] \in StaticIp
  <2>1. CASE known # {}
    <3>1. i \in known /\ e = entry[i]
      <4>1. known \in SUBSET Nat
        BY DEF Matching, Entry
      <4> QED BY <2>1, <4>1, MinIsMember
    <3>2. entry[i].state # "unused" /\ entry[i].ip = AsIp[hw]
      BY <3>1 DEF Matching
    <3>3. entry[i].ip \in StaticIp
      BY <1>2, <3>2 DEF Inv, UsedForAHop
    <3> QED BY <1>2, <3>1, <3>3 DEF Inv, WaitsForItsHop
  <2>2. CASE known = {}
    <3>1. e.txqueue = <<>>
      BY <2>2, <1>3, DeletedRow
    <3> QED BY <3>1, EmptyQueue DEF Waiting
  <2> QED BY <2>1, <2>2
<1> HIDE DEF e, i, known
<1>6. f \in Row /\ f.ip = ip /\ f.state = "established" /\ f.txqueue = <<>>
  <2> DEFINE z == 0
             s == "established"
             q == <<>>
             d == [e EXCEPT !.ip = ip, !.hw = hw, !.retries = z, !.timer = z,
                            !.state = s, !.txqueue = q]
  <2>1. z \in Int /\ s \in States /\ q \in Seq(Buf) /\ ip \in Ip
    BY DEF States
  <2>2. f = d
    OBVIOUS
  <2> HIDE DEF z, s, q
  <2>3. d \in Row /\ d.ip = ip /\ d.state = s /\ d.txqueue = q
    BY <1>4, <2>1 DEF Row, States
  <2> HIDE DEF d, f
  <2>4. f \in Row /\ f.ip = ip /\ f.state = s /\ f.txqueue = q
    BY <2>2, <2>3
  <2> QED BY <2>4 DEF s, q
<1> HIDE DEF f
<1>7. /\ entry' \in [Entry -> Row]
      /\ entry'[i] = f
      /\ \A j \in Entry \ {i} : entry'[j] = entry[j]
  BY <1>1, <1>2, <1>6 DEF Inv, Types
<1>8. /\ free' \subseteq Buf /\ hop' \in [Buf -> Ip \cup {NoIp}]
      /\ OneHome' /\ WaitsForItsHop'
  <2>1. \A j \in Entry \ {i} :
           /\ entry'[j].txqueue = entry[j].txqueue
           /\ entry[j].txqueue # <<>> =>
                 entry'[j].state = "arping" /\ entry'[j].ip = entry[j].ip
    BY <1>7 DEF Inv, WaitsForItsHop
  <2>2. UNION {Waiting(entry[j]) : j \in {i}} = Waiting(entry[i])
    OBVIOUS
  <2>3. {i} \in SUBSET Entry /\ Release(UNION {Waiting(entry[j]) : j \in {i}})
    BY <1>1, <1>2, <2>2
  <2>4. kept' = kept /\ Types /\ OneHome /\ WaitsForItsHop
    BY <1>1 DEF Inv
  <2>5. \A j \in {i} : entry'[j].txqueue = <<>>
    BY <1>6, <1>7
  <2> QED BY <1>7, <2>1, <2>3, <2>4, <2>5, QueuesEmptied
<1>9. UsedForAHop'
  BY <1>2, <1>6, <1>7 DEF Inv, UsedForAHop
<1>10. KnowsWhatWasTold'
  BY <1>1, <1>6, <1>7 DEF Inv, KnowsWhatWasTold
<1>11. OneEntryPerHop'
  BY <1>6, <1>7 DEF Inv, OneEntryPerHop, Unoccupied
<1>12. SentWhereTold'
  <2>1. \A p \in wire' : p.to \in StaticIp
    BY <1>1, <1>5 DEF Packets
  <2> QED BY <2>1 DEF SentWhereTold
<1>13. Types'
  BY <1>1, <1>7, <1>8 DEF Inv, Types
<1> QED BY <1>8, <1>9, <1>10, <1>11, <1>12, <1>13 DEF Inv

-----------------------------------------------------------------------------
(* The steps that move a buffer into a queue or out of one                 *)

(* A question is asked, and the packet waits for the answer in an entry    *)
(* that may have been in use for another hop.                              *)
LEMMA SendToUnknownKeeps == ASSUME Inv, NEW ip \in Ip, SendToUnknown(ip) PROVE Inv'
<1> DEFINE b == Alloc
           i == NewEntry
           dropped == Waiting(entry[i])
           f == [Deleted(entry[i]) EXCEPT !.ip = ip, !.txqueue = <<b>>, !.state = "arping",
                                          !.retries = QueryRetries, !.timer = QueryTimer]
<1>1. /\ Matching(ip) = {} /\ wire' = {} /\ UNCHANGED <<kept, told>>
      /\ entry' = [entry EXCEPT ![i] = f]
      /\ free' = (free \ {b}) \cup dropped
      /\ hop' = [c \in Buf |-> IF c = b THEN ip ELSE IF c \in dropped THEN NoIp ELSE hop[c]]
  BY DEF SendToUnknown, Query
<1>2. b \in free /\ b \in Buf
  BY AllocIsFree DEF SendToUnknown, Inv, Types
<1>3. i \in Entry
  BY NewEntryIsEntry DEF Inv
<1>4. dropped \subseteq Buf
  BY <1>3, WaitingAreBuffers DEF Inv
<1>5. f \in Row /\ f.ip = ip /\ f.state = "arping" /\ f.txqueue = <<b>>
  <2> DEFINE e == Deleted(entry[i])
             s == "arping"
             q == <<b>>
             d == [e EXCEPT !.ip = ip, !.txqueue = q, !.state = s,
                            !.retries = QueryRetries, !.timer = QueryTimer]
  <2>1. e \in Row
    BY <1>3, DeletedRow DEF Inv, Types
  <2>2. s \in States /\ q \in Seq(Buf) /\ QueryRetries \in Int /\ QueryTimer \in Int
    BY <1>2 DEF States
  <2>3. f = d
    OBVIOUS
  <2> HIDE DEF e, s, q
  <2>4. d \in Row /\ d.ip = ip /\ d.state = s /\ d.txqueue = q
    BY <2>1, <2>2 DEF Row, States
  <2> HIDE DEF d, f
  <2>5. f \in Row /\ f.ip = ip /\ f.state = s /\ f.txqueue = q
    BY <2>3, <2>4
  <2> QED BY <2>5 DEF s, q
<1> HIDE DEF b, i, f
<1>6. /\ entry' \in [Entry -> Row] /\ entry'[i] = f
      /\ \A j \in Entry \ {i} : entry'[j] = entry[j]
  BY <1>1, <1>3, <1>5 DEF Inv, Types
<1>7. /\ Waiting(entry'[i]) = {b} /\ IsInjective(entry'[i].txqueue) /\ Len(entry'[i].txqueue) = 1
      /\ \A j \in Entry \ {i} : Waiting(entry'[j]) = Waiting(entry[j])
  BY <1>5, <1>6, OneInQueue DEF Waiting
<1>8. OneHome'
  <2>1. \A j \in Entry : b \notin Waiting(entry[j])
    BY <1>2 DEF Inv, OneHome
  <2>2. b \notin ToSet(kept)
    BY <1>2 DEF Inv, OneHome
  <2>3. \A j \in Entry \ {i} : Waiting(entry[j]) \cap dropped = {}
    BY <1>3 DEF Inv, OneHome
  <2>4. dropped \cap ToSet(kept) = {}
    BY <1>3 DEF Inv, OneHome
  <2>5. (Buf = free \cup ToSet(kept) \cup UNION {Waiting(entry[j]) : j \in Entry})'
    <3>1. \A c \in Buf : c \in free \/ c \in ToSet(kept) \/ \E j \in Entry : c \in Waiting(entry[j])
      BY DEF Inv, OneHome
    <3>2. \A c \in Buf : c \in free' \/ c \in ToSet(kept') \/ \E j \in Entry : c \in Waiting(entry'[j])
      BY <1>1, <1>3, <1>7, <3>1
    <3>3. \A j \in Entry : Waiting(entry'[j]) \subseteq Buf
      BY <1>2, <1>7, WaitingAreBuffers DEF Inv
    <3>4. free' \subseteq Buf /\ ToSet(kept') \subseteq Buf
      BY <1>1, <1>4, WaitingAreBuffers DEF Inv, Types
    <3> QED BY <3>2, <3>3, <3>4
  <2>6. (\A j \in Entry : Waiting(entry[j]) \cap (free \cup ToSet(kept)) = {})'
    BY <1>1, <1>7, <2>2, <2>3, <2>1 DEF Inv, OneHome
  <2>7. (free \cap ToSet(kept) = {})'
    BY <1>1, <2>4 DEF Inv, OneHome
  <2>8. (\A j, k \in Entry : j # k => Waiting(entry[j]) \cap Waiting(entry[k]) = {})'
    BY <1>7, <2>1 DEF Inv, OneHome
  <2>9. (\A j \in Entry : IsInjective(entry[j].txqueue))'
    BY <1>6, <1>7 DEF Inv, OneHome
  <2>10. IsInjective(kept)'
    BY <1>1 DEF Inv, OneHome
  <2> QED BY <2>5, <2>6, <2>7, <2>8, <2>9, <2>10 DEF OneHome
<1>9. WaitsForItsHop'
  <2> SUFFICES ASSUME NEW j \in Entry
               PROVE  /\ entry'[j].txqueue # <<>> => entry'[j].state = "arping"
                      /\ Len(entry'[j].txqueue) <= TxWaitMax
                      /\ \A c \in Waiting(entry'[j]) : hop'[c] = entry'[j].ip
    BY DEF WaitsForItsHop
  <2>1. CASE j = i
    <3>1. 1 <= TxWaitMax
      OBVIOUS
    <3> QED BY <2>1, <3>1, <1>1, <1>2, <1>5, <1>6, <1>7
  <2>2. CASE j # i
    <3>1. entry'[j] = entry[j]
      BY <2>2, <1>6
    <3>2. ASSUME NEW c \in Waiting(entry[j]) PROVE hop'[c] = entry[j].ip
      <4>1. c \in Buf /\ c # b /\ c \notin dropped
        BY <2>2, <1>2, <1>3, WaitingAreBuffers DEF Inv, OneHome
      <4> QED BY <4>1, <1>1 DEF Inv, WaitsForItsHop
    <3> QED BY <3>1, <3>2 DEF Inv, WaitsForItsHop
  <2> QED BY <2>1, <2>2
<1>10. UsedForAHop'
  BY <1>5, <1>6 DEF Inv, UsedForAHop
<1>11. KnowsWhatWasTold'
  BY <1>1, <1>5, <1>6 DEF Inv, KnowsWhatWasTold
<1>12. OneEntryPerHop'
  <2>1. \A j \in Entry : entry[j].state # "unused" => entry[j].ip # ip
    BY <1>1 DEF Matching
  <2> QED BY <2>1, <1>5, <1>6 DEF Inv, OneEntryPerHop, Unoccupied
<1>13. Types' /\ SentWhereTold'
  <2>1. hop' \in [Buf -> Ip \cup {NoIp}]
    BY <1>1 DEF Inv, Types
  <2>2. free' \subseteq Buf
    BY <1>1, <1>4 DEF Inv, Types
  <2> QED BY <1>1, <1>6, <2>1, <2>2 DEF Inv, Types, SentWhereTold
<1> QED BY <1>8, <1>9, <1>10, <1>11, <1>12, <1>13 DEF Inv

(* The packet waits with those that wait already.                          *)
LEMMA JoinedKeeps ==
    ASSUME Inv, NEW ip \in Ip, free # {}, Matching(ip) # {},
           entry[Found(ip)].state = "arping", Len(entry[Found(ip)].txqueue) < TxWaitMax,
           Joined(Alloc, ip), free' = free \ {Alloc}, hop' = [hop EXCEPT ![Alloc] = ip],
           wire' = {}, UNCHANGED <<kept, told>>
    PROVE  Inv'
<1> DEFINE b == Alloc
           i == Found(ip)
           q == Append(entry[i].txqueue, b)
<1>1. b \in free /\ b \in Buf
  BY AllocIsFree DEF Inv, Types
<1>2. i \in Entry /\ entry[i] \in Row /\ entry[i].ip = ip /\ entry[i].state = "arping"
  BY FoundMatches DEF Inv, Types, Matching
<1>3. \A j \in Entry : b \notin Waiting(entry[j])
  BY <1>1 DEF Inv, OneHome
<1>4. entry[i].txqueue \in Seq(Buf) /\ IsInjective(entry[i].txqueue)
  BY <1>2 DEF Inv, OneHome, Row
<1>5. /\ q \in Seq(Buf) /\ Len(q) = Len(entry[i].txqueue) + 1
      /\ ToSet(q) = Waiting(entry[i]) \cup {b} /\ IsInjective(q)
  BY <1>1, <1>2, <1>3, <1>4, Appended DEF Waiting
<1>6. /\ entry' = [entry EXCEPT ![i].txqueue = q]
      /\ free' = free \ {b} /\ hop' = [hop EXCEPT ![b] = ip]
      /\ Len(entry[i].txqueue) < TxWaitMax
  BY DEF Joined
<1>7. Len(q) <= TxWaitMax
  <2>1. Len(entry[i].txqueue) \in Nat /\ TxWaitMax \in Nat
    BY <1>4
  <2> QED BY <2>1, <1>5, <1>6
<1> HIDE DEF b, i, q
<1>8. /\ entry' \in [Entry -> Row] /\ entry'[i].txqueue = q
      /\ \A j \in Entry \ {i} : entry'[j] = entry[j]
      /\ \A j \in Entry : /\ entry'[j].state = entry[j].state
                          /\ entry'[j].ip = entry[j].ip /\ entry'[j].hw = entry[j].hw
  BY <1>2, <1>5, <1>6 DEF Inv, Types, Row
<1>9. /\ Waiting(entry'[i]) = Waiting(entry[i]) \cup {b}
      /\ \A j \in Entry \ {i} : Waiting(entry'[j]) = Waiting(entry[j])
  BY <1>5, <1>8 DEF Waiting
<1>10. OneHome'
  <2>1. b \notin ToSet(kept)
    BY <1>1 DEF Inv, OneHome
  <2>2. (Buf = free \cup ToSet(kept) \cup UNION {Waiting(entry[j]) : j \in Entry})'
    <3>1. \A c \in Buf : c \in free \/ c \in ToSet(kept) \/ \E j \in Entry : c \in Waiting(entry[j])
      BY DEF Inv, OneHome
    <3>2. \A c \in Buf : c \in free' \/ c \in ToSet(kept') \/ \E j \in Entry : c \in Waiting(entry'[j])
      BY <1>2, <1>6, <1>9, <3>1
    <3>3. \A j \in Entry : Waiting(entry'[j]) \subseteq Buf
      BY <1>1, <1>2, <1>9, WaitingAreBuffers DEF Inv
    <3>4. free' \subseteq Buf /\ ToSet(kept') \subseteq Buf
      BY <1>6, WaitingAreBuffers DEF Inv, Types
    <3> QED BY <3>2, <3>3, <3>4
  <2>3. (\A j \in Entry : Waiting(entry[j]) \cap (free \cup ToSet(kept)) = {})'
    BY <1>2, <1>6, <1>9, <2>1 DEF Inv, OneHome
  <2>4. (free \cap ToSet(kept) = {})'
    BY <1>6 DEF Inv, OneHome
  <2>5. (\A j, k \in Entry : j # k => Waiting(entry[j]) \cap Waiting(entry[k]) = {})'
    <3> SUFFICES ASSUME NEW j \in Entry, NEW k \in Entry, j # k,
                        NEW c \in Waiting(entry'[j]), c \in Waiting(entry'[k])
                 PROVE  FALSE
      OBVIOUS
    <3>1. c = b \/ (c \in Waiting(entry[j]) /\ c \in Waiting(entry[k]))
      BY <1>9
    <3>2. c # b
      BY <1>3, <1>9
    <3> QED BY <3>1, <3>2 DEF Inv, OneHome
  <2>6. (\A j \in Entry : IsInjective(entry[j].txqueue))'
    BY <1>5, <1>8 DEF Inv, OneHome
  <2>7. IsInjective(kept)'
    BY DEF Inv, OneHome
  <2> QED BY <2>2, <2>3, <2>4, <2>5, <2>6, <2>7 DEF OneHome
<1>11. WaitsForItsHop'
  <2> SUFFICES ASSUME NEW j \in Entry
               PROVE  /\ entry'[j].txqueue # <<>> => entry'[j].state = "arping"
                      /\ Len(entry'[j].txqueue) <= TxWaitMax
                      /\ \A c \in Waiting(entry'[j]) : hop'[c] = entry'[j].ip
    BY DEF WaitsForItsHop
  <2>1. \A c \in Waiting(entry[j]) : hop'[c] = entry'[j].ip
    BY <1>3, <1>6, <1>8 DEF Inv, WaitsForItsHop
  <2>2. CASE j = i
    <3>1. hop'[b] = ip /\ entry'[i].ip = ip /\ entry'[i].state = "arping"
      BY <1>1, <1>2, <1>6, <1>8 DEF Inv, Types
    <3> QED BY <2>1, <2>2, <3>1, <1>7, <1>8, <1>9
  <2>3. CASE j # i
    BY <2>1, <2>3, <1>8, <1>9 DEF Inv, WaitsForItsHop
  <2> QED BY <2>2, <2>3
<1>12. UsedForAHop' /\ KnowsWhatWasTold' /\ OneEntryPerHop'
  BY <1>8, HopsStay DEF Inv
<1>13. Types' /\ SentWhereTold'
  BY <1>1, <1>6, <1>8 DEF Inv, Types, SentWhereTold
<1> QED BY <1>10, <1>11, <1>12, <1>13 DEF Inv

LEMMA SendToArpingKeeps == ASSUME Inv, NEW ip \in Ip, SendToArping(ip) PROVE Inv'
<1>1. CASE /\ Len(entry[Found(ip)].txqueue) < TxWaitMax /\ Joined(Alloc, ip)
           /\ free' = free \ {Alloc} /\ hop' = [hop EXCEPT ![Alloc] = ip]
  BY <1>1, JoinedKeeps DEF SendToArping
<1>2. CASE UNCHANGED <<entry, free, hop>>
  <2>1. wire' = {} /\ UNCHANGED <<entry, free, hop, kept, told>>
    BY <1>2 DEF SendToArping
  <2>2. OneHome' /\ WaitsForItsHop'
    BY <2>1, PlacesStay DEF Inv
  <2>3. UsedForAHop' /\ KnowsWhatWasTold' /\ OneEntryPerHop'
    BY <2>1, HopsStay DEF Inv
  <2>4. Types' /\ SentWhereTold'
    BY <2>1 DEF Inv, Types, SentWhereTold
  <2> QED BY <2>2, <2>3, <2>4 DEF Inv
<1> QED BY <1>1, <1>2 DEF SendToArping

LEMMA DatagramKeeps == ASSUME Inv, Datagram PROVE Inv'
<1> DEFINE b == Alloc
<1>1. /\ kept' = Append(kept, b) /\ free' = free \ {b}
      /\ wire' = {} /\ UNCHANGED <<entry, hop, told>>
  BY DEF Datagram
<1>2. b \in free /\ b \in Buf /\ b \notin ToSet(kept) /\ IsInjective(kept) /\ kept \in Seq(Buf)
  BY AllocIsFree DEF Datagram, Inv, Types, OneHome
<1> HIDE DEF b
<1>3. kept' \in Seq(Buf) /\ ToSet(kept') = ToSet(kept) \cup {b} /\ IsInjective(kept')
  BY <1>1, <1>2, Appended
<1>4. OneHome'
  <2>1. (Buf = free \cup ToSet(kept) \cup UNION {Waiting(entry[i]) : i \in Entry})'
    BY <1>1, <1>2, <1>3 DEF Inv, OneHome
  <2>2. (\A i \in Entry : Waiting(entry[i]) \cap (free \cup ToSet(kept)) = {})'
    BY <1>1, <1>2, <1>3 DEF Inv, OneHome
  <2>3. (free \cap ToSet(kept) = {})'
    BY <1>1, <1>3 DEF Inv, OneHome
  <2>4. (\A i, j \in Entry : i # j => Waiting(entry[i]) \cap Waiting(entry[j]) = {})'
    BY <1>1 DEF Inv, OneHome
  <2>5. (\A i \in Entry : IsInjective(entry[i].txqueue))' /\ IsInjective(kept)'
    BY <1>1, <1>3 DEF Inv, OneHome
  <2> QED BY <2>1, <2>2, <2>3, <2>4, <2>5 DEF OneHome
<1>5. WaitsForItsHop'
  BY <1>1 DEF Inv, WaitsForItsHop
<1>6. UsedForAHop' /\ KnowsWhatWasTold' /\ OneEntryPerHop'
  BY <1>1, HopsStay DEF Inv
<1>7. Types' /\ SentWhereTold'
  BY <1>1, <1>3 DEF Inv, Types, SentWhereTold
<1> QED BY <1>4, <1>5, <1>6, <1>7 DEF Inv

LEMMA RecvKeeps == ASSUME Inv, Recv PROVE Inv'
<1> DEFINE b == Head(kept)
<1>1. /\ kept' = Tail(kept) /\ Release({b})
      /\ wire' = {} /\ UNCHANGED <<entry, told>>
  BY DEF Recv
<1>2. /\ b \in Buf /\ kept' \in Seq(Buf) /\ IsInjective(kept')
      /\ ToSet(kept) = ToSet(kept') \cup {b} /\ b \notin ToSet(kept')
  BY <1>1, Taken DEF Recv, Inv, Types, OneHome
<1> HIDE DEF b
<1>3. free' = free \cup {b} /\ \A c \in Buf : c # b => hop'[c] = hop[c]
  BY <1>1 DEF Release
<1>4. \A i \in Entry : b \notin Waiting(entry[i])
  BY <1>2 DEF Inv, OneHome
<1>5. OneHome'
  <2>1. (Buf = free \cup ToSet(kept) \cup UNION {Waiting(entry[i]) : i \in Entry})'
    BY <1>1, <1>2, <1>3 DEF Inv, OneHome
  <2>2. (\A i \in Entry : Waiting(entry[i]) \cap (free \cup ToSet(kept)) = {})'
    BY <1>1, <1>2, <1>3, <1>4 DEF Inv, OneHome
  <2>3. (free \cap ToSet(kept) = {})'
    BY <1>2, <1>3 DEF Inv, OneHome
  <2>4. (\A i, j \in Entry : i # j => Waiting(entry[i]) \cap Waiting(entry[j]) = {})'
    BY <1>1 DEF Inv, OneHome
  <2>5. (\A i \in Entry : IsInjective(entry[i].txqueue))' /\ IsInjective(kept)'
    BY <1>1, <1>2 DEF Inv, OneHome
  <2> QED BY <2>1, <2>2, <2>3, <2>4, <2>5 DEF OneHome
<1>6. WaitsForItsHop'
  <2>1. \A i \in Entry : Waiting(entry[i]) \subseteq Buf
    BY WaitingAreBuffers DEF Inv
  <2>2. \A i \in Entry : \A c \in Waiting(entry[i]) : hop'[c] = entry[i].ip
    BY <1>3, <1>4, <2>1 DEF Inv, WaitsForItsHop
  <2> QED BY <1>1, <2>2 DEF Inv, WaitsForItsHop
<1>7. UsedForAHop' /\ KnowsWhatWasTold' /\ OneEntryPerHop'
  BY <1>1, HopsStay DEF Inv
<1>8. Types' /\ SentWhereTold'
  <2>1. free' \subseteq Buf /\ hop' \in [Buf -> Ip \cup {NoIp}]
    BY <1>1, <1>2 DEF Release, Inv, Types
  <2> QED BY <1>1, <1>2, <2>1 DEF Inv, Types, SentWhereTold
<1> QED BY <1>5, <1>6, <1>7, <1>8 DEF Inv

(* The network is stopped and started again: every buffer comes home.      *)
LEMMA UninitKeeps == ASSUME Inv, Uninit PROVE Inv'
<1> DEFINE W == ToSet(kept) \cup UNION {Waiting(entry[i]) : i \in Entry \ Unoccupied}
<1>1. /\ entry' = [i \in Entry |-> Unused] /\ kept' = <<>> /\ Release(W)
      /\ wire' = {} /\ told' = told
  BY DEF Uninit
<1>2. \A i \in Entry : i \in Unoccupied => Waiting(entry[i]) = {}
  BY EmptyQueue DEF Inv, WaitsForItsHop, Unoccupied, Waiting
<1>3. free' = Buf
  <2>1. \A b \in Buf : b \in free \/ b \in ToSet(kept) \/ \E i \in Entry : b \in Waiting(entry[i])
    BY DEF Inv, OneHome
  <2>2. \A b \in Buf : b \in free \cup W
    BY <1>2, <2>1
  <2>3. W \subseteq Buf /\ free \subseteq Buf
    BY WaitingAreBuffers DEF Inv, Types
  <2> QED BY <1>1, <2>2, <2>3 DEF Release
<1>4. hop' \in [Buf -> Ip \cup {NoIp}]
  BY <1>1 DEF Release, Inv, Types
<1>5. \A i \in Entry : /\ entry'[i].state = "unused" /\ entry'[i].txqueue = <<>>
                       /\ Waiting(entry'[i]) = {} /\ IsInjective(entry'[i].txqueue)
  BY <1>1, EmptyQueue DEF Unused, Waiting
<1>6. OneHome'
  <2>1. ToSet(kept') = {} /\ IsInjective(kept')
    BY <1>1, EmptyQueue
  <2> QED BY <1>3, <1>5, <2>1 DEF OneHome
<1>7. WaitsForItsHop'
  <2>1. Len(<<>>) = 0 /\ 0 <= TxWaitMax
    OBVIOUS
  <2> QED BY <1>5, <2>1 DEF WaitsForItsHop
<1>8. UsedForAHop' /\ KnowsWhatWasTold' /\ OneEntryPerHop' /\ SentWhereTold'
  BY <1>1, <1>5 DEF UsedForAHop, KnowsWhatWasTold, OneEntryPerHop, Unoccupied, SentWhereTold
<1>9. Types'
  <2>1. Unused \in Row
    BY DEF Unused, Row
  <2>2. kept' \in Seq(Buf)
    BY <1>1
  <2> QED BY <1>1, <1>3, <1>4, <2>1, <2>2 DEF Inv, Types
<1> QED BY <1>6, <1>7, <1>8, <1>9 DEF Inv

-----------------------------------------------------------------------------
LEMMA StepKeeps == Inv /\ [Next]_vars => Inv'
<1> SUFFICES ASSUME Inv, [Next]_vars PROVE Inv'
  OBVIOUS
<1>1. ASSUME NEW ip \in Ip, SendToUnknown(ip) PROVE Inv'
  BY <1>1, SendToUnknownKeeps
<1>2. ASSUME NEW ip \in Ip, SendToKnown(ip) PROVE Inv'
  BY <1>2, SendToKnownKeeps
<1>3. ASSUME NEW ip \in Ip, SendToArping(ip) PROVE Inv'
  BY <1>3, SendToArpingKeeps
<1>4. ASSUME NEW ip \in Ip, NEW hw \in Hw, Response(ip, hw) PROVE Inv'
  BY <1>4, ResponseKeeps
<1>5. ASSUME NEW ip \in StaticIp, NEW hw \in Hw, Add(ip, hw) PROVE Inv'
  BY <1>5, AddKeeps
<1>6. ASSUME NEW ip \in Ip, Lookup(ip) PROVE Inv'
  BY <1>6, LookupKeeps
<1>7. ASSUME NEW ip \in Ip, Delete(ip) PROVE Inv'
  BY <1>7, DeleteKeeps
<1>8. CASE Tick
  BY <1>8, TickKeeps
<1>9. CASE Datagram
  BY <1>9, DatagramKeeps
<1>10. CASE Recv
  BY <1>10, RecvKeeps
<1>11. CASE Uninit
  BY <1>11, UninitKeeps
<1>12. CASE UNCHANGED vars
  <2>1. UNCHANGED <<entry, free, kept, hop, wire, told>>
    BY <1>12 DEF vars
  <2>2. OneHome' /\ WaitsForItsHop'
    BY <2>1, PlacesStay DEF Inv
  <2>3. UsedForAHop' /\ KnowsWhatWasTold' /\ OneEntryPerHop'
    BY <2>1, HopsStay DEF Inv
  <2>4. Types' /\ SentWhereTold'
    BY <2>1 DEF Inv, Types, SentWhereTold
  <2> QED BY <2>2, <2>3, <2>4 DEF Inv
<1> QED
  BY <1>1, <1>2, <1>3, <1>4, <1>5, <1>6, <1>7, <1>8, <1>9, <1>10, <1>11, <1>12 DEF Next

LEMMA InvAlways == Spec => []Inv
  BY InitInv, StepKeeps, PTL DEF Spec

(* No path through the table, the pool and the receive queue loses a       *)
(* buffer or frees one twice.                                              *)
THEOREM EveryBufferHasOneHome == Spec => []OneHome
  BY InvAlways, PTL DEF Inv

(* What waits in an entry is for its hop, also after the entry has been    *)
(* taken over, and there are never more than ARP_TXWAIT_MAX of them.       *)
THEOREM PacketsWaitForTheirHop == Spec => []WaitsForItsHop
  BY InvAlways, PTL DEF Inv

(* A hop that is never entered by hand has at most one entry.              *)
THEOREM HopsHaveOneEntry == Spec => []OneEntryPerHop
  BY InvAlways, PTL DEF Inv

(* A packet goes to the address its hop was last said to have.             *)
THEOREM PacketsGoWhereTold == Spec => []SentWhereTold
  BY InvAlways, PTL DEF Inv
=============================================================================
