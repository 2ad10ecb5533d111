--------------------------- MODULE ServicesProofs ---------------------------
(***************************************************************************)
(* Theorems about the two programs that run on top of the network: the web *)
(* server (Httpd) and the resolver (Dns, with the time of Clock).  They    *)
(* share nothing; each has its part below.                                 *)
(*                                                                         *)
(* Httpd: for every number of sockets, one upload at a time writes the     *)
(* staging buffer and one socket at a time waits for strangers.            *)
(* Clock and Dns: no clock is lost, a lookup returns the address of its    *)
(* own host, in time, and gives back every buffer.                         *)
(***************************************************************************)
EXTENDS Httpd, Dns, TLAPS

-----------------------------------------------------------------------------
(* The web server *)

\* Where the server is while it works on the data of an upload
Uploads == {"receive", "received", "failed"}
Uploading(w) == w.at \in Uploads \/ (w.at = "listen" /\ w.then \in Uploads)

\* The lock is taken while a socket writes or an image is ready, and the server
\* reads data only for a socket that has it.
LockHeld ==
    /\ \A i \in Slots : Writes(i) => uploading
    /\ ready => uploading
    /\ Uploading(web) => slot[web.i].state = "post"

HttpdInv == TypeOK /\ LockHeld /\ OneUpload /\ OneListens

USE HttpdAssumption

LEMMA NextSlotInRange == ASSUME NEW i \in Slots PROVE (i + 1) % NumSockets \in Slots
  BY DEF Slots

LEMMA HttpdStarts == HttpdInit => HttpdInv
<1> SUFFICES ASSUME HttpdInit PROVE HttpdInv
  OBVIOUS
<1>1. TypeOK
  <2>1. 0 \in Slots
    BY DEF Slots
  <2>2. slot \in [Slots -> [open : BOOLEAN, state : {"first", "rest", "post"}, length : Lengths \cup {0}]]
    BY DEF HttpdInit, Closed
  <2> QED BY <2>1, <2>2 DEF HttpdInit, TypeOK
<1>2. \A i \in Slots : ~ Writes(i)
  BY DEF HttpdInit, Writes, Closed
<1>3. LockHeld /\ OneUpload
  BY <1>2 DEF HttpdInit, LockHeld, OneUpload, Uploading, Uploads
<1>4. OneListens
  BY DEF HttpdInit, OneListens
<1> QED BY <1>1, <1>3, <1>4 DEF HttpdInv

-----------------------------------------------------------------------------
(* Types *)

Ats     == {"visit", "receive", "received", "failed", "send", "close"}
Thens   == {"visit", "receive", "received", "failed", "send"}
Place   == {[at |-> "out"]} \cup [at : Ats, i : Slots] \cup [at : {"listen"}, i : Slots, then : Thens]
Socket  == [open : BOOLEAN, state : {"first", "rest", "post"}, length : Lengths \cup {0}]
Status  == {"none", "listen", "opening", "up", "unread", "drained", "dead"}

LEMMA TypeOKIs ==
    TypeOK <=> /\ slot \in [Slots -> Socket] /\ tcp \in [Slots -> Status]
               /\ listenIdx \in Slots /\ received \in Nat
               /\ uploading \in BOOLEAN /\ ready \in BOOLEAN /\ abort \in BOOLEAN
               /\ command \in BOOLEAN /\ web \in Place
               /\ fg \in {"readline", "typed", "prompt", "load", "rawload", "sleep", "reset"}
  BY DEF TypeOK, Socket, Status, Place, Ats, Thens

LEMMA PlaceIs ==
    /\ \A at \in Ats, i \in Slots : [at |-> at, i |-> i] \in Place
    /\ \A at \in Thens, i \in Slots : [at |-> "listen", i |-> i, then |-> at] \in Place
    /\ [at |-> "out"] \in Place
  BY DEF Place

LEMMA NextSlotPlace ==
    ASSUME NEW i \in Slots, NextSlot(i)
    PROVE  /\ web' \in Place
           /\ \A j \in Slots : ~ Answering(j)'
           /\ ~ Uploading(web')
<1>1. CASE i + 1 \in Slots
  <2>1. web' = [at |-> "listen", i |-> i + 1, then |-> "visit"]
    BY <1>1 DEF NextSlot, ListenThen
  <2> QED BY <1>1, <2>1 DEF Place, Thens, Answering, Uploading, Uploads
<1>2. CASE i + 1 \notin Slots
  <2>1. web' = [at |-> "out"]
    BY <1>2 DEF NextSlot
  <2> QED BY <2>1 DEF Place, Answering, Uploading, Uploads
<1> QED BY <1>1, <1>2

-----------------------------------------------------------------------------
(* What a step must leave alone *)

\* A step that lets no socket begin to write and leaves the lock keeps the order of uploads.
LEMMA UploadsKept ==
    ASSUME LockHeld, OneUpload, UNCHANGED <<uploading, ready>>,
           \A i \in Slots : Writes(i)' => Writes(i),
           Uploading(web') => slot'[web'.i].state = "post"
    PROVE  LockHeld' /\ OneUpload'
  BY DEF LockHeld, OneUpload

Waiting(i) == tcp[i] \in {"listen", "opening"}

\* A step after which no other socket waits for a stranger keeps the listener alone.
LEMMA ListenerKept ==
    ASSUME OneListens, UNCHANGED listenIdx, \A i \in Slots : Waiting(i)' => Waiting(i)
    PROVE  OneListens'
  BY DEF OneListens, Waiting

-----------------------------------------------------------------------------
(* The actions *)

LEMMA TcpEventInv == ASSUME HttpdInv, TcpEvent PROVE HttpdInv'
<1>1. PICK from \in Status, to \in Status, i \in Slots :
         /\ tcp[i] = from /\ tcp' = [tcp EXCEPT ![i] = to]
         /\ to \in {"listen", "opening"} => from \in {"listen", "opening"}
  BY DEF TcpEvent, TcpMoves, Status
<1>2. /\ UNCHANGED <<slot, listenIdx, uploading, received, ready, abort, command, web, fg>>
      /\ TypeOK
  BY DEF TcpEvent, flags, HttpdInv
<1>3. TypeOK'
  BY <1>1, <1>2 DEF TypeOK, Status
<1>4. \A j \in Slots : Writes(j)' => Writes(j)
  BY <1>2 DEF Writes, Answering
<1>5. \A j \in Slots : Waiting(j)' => Waiting(j)
  BY <1>1, <1>2, TypeOKIs DEF Waiting
<1> QED BY <1>2, <1>3, <1>4, <1>5, UploadsKept, ListenerKept DEF HttpdInv, LockHeld

LEMMA PollInv == ASSUME HttpdInv, Poll PROVE HttpdInv'
<1>1. /\ UNCHANGED <<slot, tcp, listenIdx, uploading, received, ready, abort, command, fg>>
      /\ TypeOK /\ web.at = "out"
      /\ web' = [at |-> "listen", i |-> 0, then |-> "visit"]
  BY DEF Poll, ListenThen, flags, HttpdInv
<1>2. 0 \in Slots
  BY DEF Slots
<1>3. TypeOK'
  <2>1. web' \in Place
    BY <1>1, <1>2, PlaceIs DEF Thens
  <2> QED BY <1>1, <2>1 DEF TypeOK, Socket, Status, Place, Ats, Thens
<1>4. \A j \in Slots : Writes(j)' => Writes(j)
  BY <1>1 DEF Writes, Answering
<1>5. ~ Uploading(web') /\ \A j \in Slots : Waiting(j)' => Waiting(j)
  BY <1>1 DEF Uploading, Uploads, Waiting
<1> QED BY <1>1, <1>3, <1>4, <1>5, UploadsKept, ListenerKept DEF HttpdInv

LEMMA ListenInv == ASSUME HttpdInv, Listen PROVE HttpdInv'
<1> DEFINE k == ListenSlot
<1>1. /\ UNCHANGED <<uploading, received, ready, abort, command, fg>>
      /\ TypeOK /\ web.at = "listen" /\ listenIdx' = k
      /\ web' = [at |-> web.then, i |-> web.i]
  BY DEF Listen, Goto, flags, HttpdInv
<1>2. web.then \in Thens /\ web.i \in Slots
  BY <1>1, TypeOKIs DEF Place, Ats
<1>3. k \in Slots
  BY <1>1, TypeOKIs, NextSlotInRange DEF ListenSlot
<1>4. \/ ~ slot[k].open /\ slot' = [slot EXCEPT ![k].open = TRUE] /\ tcp' = [tcp EXCEPT ![k] = "listen"]
      \/ UNCHANGED <<slot, tcp>>
  BY DEF Listen
<1>5. \A j \in Slots : slot'[j].state = slot[j].state
  BY <1>1, <1>3, <1>4, TypeOKIs DEF Socket
<1>6. TypeOK'
  <2>1. slot' \in [Slots -> Socket] /\ tcp' \in [Slots -> Status]
    BY <1>1, <1>3, <1>4, TypeOKIs DEF Socket, Status
  <2>2. web' \in Place
    BY <1>1, <1>2, PlaceIs DEF Ats, Thens
  <2> QED BY <1>1, <1>3, <2>1, <2>2 DEF TypeOK, Socket, Status, Place, Ats, Thens
<1>7. \A j \in Slots : Writes(j)' => Writes(j)
  BY <1>1, <1>2, <1>5 DEF Writes, Answering, Thens
<1>8. Uploading(web') => slot'[web'.i].state = "post"
  BY <1>1, <1>2, <1>5 DEF Uploading, Uploads, HttpdInv, LockHeld, Thens
<1>9. OneListens'
  <2>1. CASE k = listenIdx
    BY <1>1, <1>4, <2>1, TypeOKIs DEF HttpdInv, OneListens
  <2>2. CASE k # listenIdx
    <3>1. Connected(listenIdx)
      BY <2>2 DEF ListenSlot
    <3>2. \A j \in Slots : ~ Waiting(j)
      BY <3>1 DEF HttpdInv, OneListens, Connected, Waiting
    <3> QED BY <1>1, <1>4, <3>2, TypeOKIs DEF OneListens, Waiting
  <2> QED BY <2>1, <2>2
<1> QED BY <1>1, <1>6, <1>7, <1>8, <1>9, UploadsKept DEF HttpdInv

LEMMA SkipInv == ASSUME HttpdInv, NEW i \in Slots, Skip(i) PROVE HttpdInv'
<1>1. /\ UNCHANGED <<slot, tcp, listenIdx, uploading, received, ready, abort, command, fg>>
      /\ TypeOK /\ web.at = "visit" /\ NextSlot(i)
  BY DEF Skip, flags, HttpdInv
<1>2. TypeOK'
  BY <1>1, NextSlotPlace DEF TypeOK, Socket, Status, Place, Ats, Thens
<1>3. \A j \in Slots : (Writes(j)' => Writes(j)) /\ (Waiting(j)' => Waiting(j))
  BY <1>1, NextSlotPlace DEF Writes, Answering, Waiting
<1> QED BY <1>1, <1>2, <1>3, NextSlotPlace, UploadsKept, ListenerKept DEF HttpdInv

LEMMA DisconnectInv == ASSUME HttpdInv, NEW i \in Slots, Disconnect(i) PROVE HttpdInv'
<1>1. /\ UNCHANGED <<listenIdx, uploading, received, ready, abort, command, fg>>
      /\ TypeOK /\ web.at = "visit" /\ NextSlot(i)
      /\ slot' = [slot EXCEPT ![i].open = FALSE, ![i].state = "first"]
      /\ tcp' = [tcp EXCEPT ![i] = "none"]
  BY DEF Disconnect, flags, HttpdInv
<1>2. \A j \in Slots : /\ slot'[j].state = "post" => slot[j].state = "post"
                       /\ Waiting(j)' => Waiting(j)
  BY <1>1, TypeOKIs DEF Waiting, Socket
<1>3. TypeOK'
  <2>1. slot' \in [Slots -> Socket] /\ tcp' \in [Slots -> Status]
    BY <1>1, TypeOKIs DEF Socket, Status
  <2> QED BY <1>1, <2>1, NextSlotPlace DEF TypeOK, Socket, Status, Place, Ats, Thens
<1>4. \A j \in Slots : Writes(j)' => Writes(j)
  BY <1>1, <1>2, NextSlotPlace DEF Writes, Answering
<1> QED BY <1>1, <1>2, <1>3, <1>4, NextSlotPlace, UploadsKept, ListenerKept DEF HttpdInv

\* The server goes on with the same socket and changes nothing but its place.
LEMMA PlaceMoves ==
    ASSUME HttpdInv, NEW i \in Slots, web.at # "out", web.i = i,
           UNCHANGED <<slot, tcp, listenIdx, uploading, ready, abort, command, fg>>,
           received' \in Nat, web' \in Place, web'.at # "out", web'.i = i,
           Answering(i) => Answering(i)',
           Uploading(web') => slot[i].state = "post"
    PROVE  HttpdInv'
<1>1. TypeOK'
  BY DEF HttpdInv, TypeOK, Place, Ats, Thens
<1>2. \A j \in Slots : Writes(j)' => Writes(j)
  BY DEF Writes, Answering
<1>3. \A j \in Slots : Waiting(j)' => Waiting(j)
  BY DEF Waiting
<1> QED BY <1>1, <1>2, <1>3, UploadsKept, ListenerKept DEF HttpdInv

LEMMA ReadSomeInv == ASSUME HttpdInv, NEW i \in Slots, ReadSome(i) PROVE HttpdInv'
<1>1. /\ UNCHANGED <<tcp, listenIdx, uploading, received, ready, abort, command, fg>>
      /\ TypeOK /\ web.at = "visit" /\ NextSlot(i)
  BY DEF ReadSome, Visit, flags, HttpdInv
<1>2. PICK length \in Lengths \cup {0} :
         slot' = slot \/ slot' = [slot EXCEPT ![i].state = "rest", ![i].length = length]
  <2>1. slot[i].length \in Lengths \cup {0}
    BY <1>1, TypeOKIs DEF Socket
  <2> QED BY <2>1 DEF ReadSome
<1>3. \A j \in Slots : slot'[j].state = "post" => slot[j].state = "post"
  BY <1>1, <1>2, TypeOKIs DEF Socket
<1>4. TypeOK'
  <2>1. slot' \in [Slots -> Socket]
    BY <1>1, <1>2, TypeOKIs DEF Socket
  <2> QED BY <1>1, <2>1, NextSlotPlace DEF TypeOK, Socket, Status, Place, Ats, Thens
<1>5. \A j \in Slots : (Writes(j)' => Writes(j)) /\ (Waiting(j)' => Waiting(j))
  BY <1>1, <1>3, NextSlotPlace DEF Writes, Answering, Waiting
<1> QED BY <1>1, <1>4, <1>5, NextSlotPlace, UploadsKept, ListenerKept DEF HttpdInv

LEMMA RequestInv == ASSUME HttpdInv, NEW i \in Slots, Request(i) PROVE HttpdInv'
<1>1. /\ UNCHANGED <<tcp, listenIdx, uploading, received, ready, abort, command, fg>>
      /\ TypeOK /\ web.at = "visit"
      /\ slot' = [slot EXCEPT ![i].state = "rest"]
  BY DEF Request, Visit, flags, HttpdInv
<1>2. PICK at \in {"send", "close"} : web' = [at |-> at, i |-> i]
  BY DEF Request, Goto
<1>3. \A j \in Slots : slot'[j].state = "post" => slot[j].state = "post"
  BY <1>1, TypeOKIs DEF Socket
<1>4. TypeOK'
  <2>1. slot' \in [Slots -> Socket]
    BY <1>1, TypeOKIs DEF Socket
  <2>2. web' \in Place
    BY <1>2, PlaceIs DEF Ats
  <2> QED BY <1>1, <2>1, <2>2 DEF TypeOK, Socket, Status, Place, Ats, Thens
<1>5. \A j \in Slots : (Writes(j)' => Writes(j)) /\ (Waiting(j)' => Waiting(j))
  BY <1>1, <1>3 DEF Writes, Answering, Waiting
<1>6. ~ Uploading(web')
  BY <1>2 DEF Uploading, Uploads
<1> QED BY <1>1, <1>4, <1>5, <1>6, UploadsKept, ListenerKept DEF HttpdInv

LEMMA PostInv == ASSUME HttpdInv, NEW i \in Slots, Post(i) PROVE HttpdInv'
<1>1. /\ UNCHANGED <<tcp, listenIdx, received, ready, abort, command, fg>>
      /\ TypeOK /\ web.at = "visit" /\ ~ uploading /\ uploading' = TRUE
      /\ web' = [at |-> "receive", i |-> i]
  BY DEF Post, Visit, PostAllowed, Goto, HttpdInv
<1>2. PICK length \in Lengths \cup {0} :
         slot' = [slot EXCEPT ![i].state = "post", ![i].length = length]
  <2>1. slot[i].length \in Lengths \cup {0}
    BY <1>1, TypeOKIs DEF Socket
  <2> QED BY <2>1 DEF Post
<1>3. \A j \in Slots : slot'[j].state = IF j = i THEN "post" ELSE slot[j].state
  BY <1>1, <1>2, TypeOKIs DEF Socket
<1>4. TypeOK'
  <2>1. slot' \in [Slots -> Socket]
    BY <1>1, <1>2, TypeOKIs DEF Socket
  <2>2. web' \in Place
    BY <1>1, PlaceIs DEF Ats
  <2> QED BY <1>1, <2>1, <2>2 DEF TypeOK, Socket, Status, Place, Ats, Thens
<1>5. \A j \in Slots : ~ Writes(j)
  BY <1>1 DEF HttpdInv, LockHeld
<1>6. \A j \in Slots : Writes(j)' => j = i
  BY <1>1, <1>3, <1>5 DEF Writes, Answering
<1>7. ~ ready
  BY <1>1 DEF HttpdInv, LockHeld
<1>8. LockHeld' /\ OneUpload'
  BY <1>1, <1>3, <1>6, <1>7 DEF LockHeld, OneUpload
<1>9. \A j \in Slots : Waiting(j)' => Waiting(j)
  BY <1>1 DEF Waiting
<1> QED BY <1>1, <1>4, <1>8, <1>9, ListenerKept DEF HttpdInv

LEMMA PostGoesOnInv == ASSUME HttpdInv, NEW i \in Slots, PostGoesOn(i) PROVE HttpdInv'
<1>1. /\ UNCHANGED <<slot, tcp, listenIdx, uploading, received, ready, abort, command, fg>>
      /\ web.at = "visit" /\ web.i = i /\ slot[i].state = "post"
      /\ web' = [at |-> "receive", i |-> i] /\ TypeOK
  BY DEF PostGoesOn, Visit, Goto, flags, HttpdInv
<1>2. web' \in Place /\ received' \in Nat
  BY <1>1, PlaceIs, TypeOKIs DEF Ats
<1>3. ~ Answering(i)
  BY <1>1 DEF Answering
<1> QED BY <1>1, <1>2, <1>3, PlaceMoves

LEMMA ReceiveInv == ASSUME HttpdInv, NEW i \in Slots, Receive(i) PROVE HttpdInv'
<1>1. /\ UNCHANGED <<slot, tcp, listenIdx, uploading, ready, abort, command, fg>>
      /\ web.at = "receive" /\ web.i = i /\ TypeOK
  BY DEF Receive, HttpdInv
<1>2. PICK n \in 0 .. slot[i].length - received :
         /\ received' = received + n
         /\ ListenThen(IF n > 0 /\ received' < slot[i].length THEN "receive" ELSE "received", i)
  BY DEF Receive
<1>3. PICK at \in {"receive", "received"} : web' = [at |-> "listen", i |-> i, then |-> at]
  BY <1>2 DEF ListenThen
<1>4. received' \in Nat
  BY <1>1, <1>2, TypeOKIs
<1>5. web' \in Place
  BY <1>3, PlaceIs DEF Thens
<1>6. ~ Answering(i) /\ slot[i].state = "post"
  BY <1>1 DEF Answering, HttpdInv, LockHeld, Uploading, Uploads
<1> QED BY <1>1, <1>3, <1>4, <1>5, <1>6, PlaceMoves

LEMMA ReceiveFailsInv == ASSUME HttpdInv, NEW i \in Slots, ReceiveFails(i) PROVE HttpdInv'
<1>1. /\ UNCHANGED <<slot, tcp, listenIdx, uploading, received, ready, abort, command, fg>>
      /\ web.at = "receive" /\ web.i = i /\ TypeOK
      /\ web' = [at |-> "listen", i |-> i, then |-> "failed"]
  BY DEF ReceiveFails, ListenThen, flags, HttpdInv
<1>2. web' \in Place /\ received' \in Nat
  BY <1>1, PlaceIs, TypeOKIs DEF Thens
<1>3. ~ Answering(i) /\ slot[i].state = "post"
  BY <1>1 DEF Answering, HttpdInv, LockHeld, Uploading, Uploads
<1> QED BY <1>1, <1>2, <1>3, PlaceMoves

LEMMA PendingInv == ASSUME HttpdInv, NEW i \in Slots, Pending(i) PROVE HttpdInv'
<1>1. /\ UNCHANGED <<slot, tcp, listenIdx, uploading, received, ready, abort, command, fg>>
      /\ TypeOK /\ web.at = "received" /\ NextSlot(i)
  BY DEF Pending, flags, HttpdInv
<1>2. TypeOK'
  BY <1>1, NextSlotPlace DEF TypeOK, Socket, Status, Place, Ats, Thens
<1>3. \A j \in Slots : (Writes(j)' => Writes(j)) /\ (Waiting(j)' => Waiting(j))
  BY <1>1, NextSlotPlace DEF Writes, Answering, Waiting
<1> QED BY <1>1, <1>2, <1>3, NextSlotPlace, UploadsKept, ListenerKept DEF HttpdInv

\* The socket of an upload that is over answers, so nobody writes any more.
LEMMA UploadEnds ==
    ASSUME HttpdInv, NEW i \in Slots, web.at \in {"received", "failed"}, web.i = i,
           UNCHANGED <<slot, tcp, listenIdx, command, fg>>,
           received' = 0, ready' \in BOOLEAN, uploading' \in BOOLEAN, abort' \in BOOLEAN,
           ready' => uploading', ready => ready',
           web' \in Place, Answering(i)'
    PROVE  HttpdInv' /\ (~ ready)
<1>1. slot[i].state = "post" /\ Writes(i)
  BY DEF HttpdInv, LockHeld, Uploading, Uploads, Writes, Answering
<1>2. ~ ready
  BY <1>1 DEF HttpdInv, OneUpload
<1>3. \A j \in Slots : ~ Writes(j)'
  BY <1>1 DEF HttpdInv, OneUpload, Writes, Answering
<1>4. TypeOK'
  BY DEF HttpdInv, TypeOK, Place, Ats, Thens
<1>5. ~ Uploading(web')
  BY DEF Answering, Uploading, Uploads
<1>6. LockHeld' /\ OneUpload'
  BY <1>3, <1>5 DEF LockHeld, OneUpload
<1>7. \A j \in Slots : Waiting(j)' => Waiting(j)
  BY DEF Waiting
<1> QED BY <1>2, <1>4, <1>6, <1>7, ListenerKept DEF HttpdInv

LEMMA UploadFailedInv == ASSUME HttpdInv, NEW i \in Slots, UploadFailed(i) PROVE HttpdInv'
<1>1. /\ UNCHANGED <<slot, tcp, listenIdx, ready, abort, command, fg>>
      /\ web.at = "failed" /\ web.i = i /\ TypeOK /\ uploading' = FALSE /\ received' = 0
      /\ web' = [at |-> "close", i |-> i]
  BY DEF UploadFailed, Goto, HttpdInv
<1>2. web' \in Place /\ ready' \in BOOLEAN /\ abort' \in BOOLEAN
  BY <1>1, PlaceIs, TypeOKIs DEF Ats
<1>3. Answering(i)'
  BY <1>1 DEF Answering
<1>4. slot[i].state = "post" /\ ~ Answering(i)
  BY <1>1 DEF HttpdInv, LockHeld, Uploading, Uploads, Answering
<1>5. ~ ready
  BY <1>4 DEF HttpdInv, OneUpload, Writes
<1> QED BY <1>1, <1>2, <1>3, <1>5, UploadEnds

LEMMA RefuseInv == ASSUME HttpdInv, NEW i \in Slots, Refuse(i) PROVE HttpdInv'
<1>1. /\ UNCHANGED <<slot, tcp, listenIdx, ready, abort, command, fg>>
      /\ web.at = "received" /\ web.i = i /\ TypeOK /\ uploading' = FALSE /\ received' = 0
      /\ web' = [at |-> "listen", i |-> i, then |-> "send"]
  BY DEF Refuse, ListenThen, HttpdInv
<1>2. web' \in Place /\ ready' \in BOOLEAN /\ abort' \in BOOLEAN
  BY <1>1, PlaceIs, TypeOKIs DEF Thens
<1>3. Answering(i)'
  BY <1>1 DEF Answering
<1>4. slot[i].state = "post" /\ ~ Answering(i)
  BY <1>1 DEF HttpdInv, LockHeld, Uploading, Uploads, Answering
<1>5. ~ ready
  BY <1>4 DEF HttpdInv, OneUpload, Writes
<1> QED BY <1>1, <1>2, <1>3, <1>5, UploadEnds

LEMMA AcceptInv == ASSUME HttpdInv, NEW i \in Slots, Accept(i) PROVE HttpdInv'
<1>1. /\ UNCHANGED <<slot, tcp, listenIdx, uploading, command, fg>>
      /\ web.at = "received" /\ web.i = i /\ TypeOK
      /\ ready' = TRUE /\ abort' = TRUE /\ received' = 0
      /\ web' = [at |-> "listen", i |-> i, then |-> "send"]
  BY DEF Accept, ListenThen, HttpdInv
<1>2. web' \in Place /\ uploading \in BOOLEAN
  BY <1>1, PlaceIs, TypeOKIs DEF Thens
<1>3. Answering(i)'
  BY <1>1 DEF Answering
<1>4. slot[i].state = "post" /\ ~ Answering(i)
  BY <1>1 DEF HttpdInv, LockHeld, Uploading, Uploads, Answering
<1>5. uploading
  BY <1>4 DEF HttpdInv, LockHeld, Writes
<1> QED BY <1>1, <1>2, <1>3, <1>5, UploadEnds

LEMMA SendInv == ASSUME HttpdInv, NEW i \in Slots, Send(i) \/ Sent(i) PROVE HttpdInv'
<1>1. /\ UNCHANGED <<slot, tcp, listenIdx, uploading, received, ready, abort, command, fg>>
      /\ web.at = "send" /\ web.i = i /\ TypeOK
      /\ web' = [at |-> "listen", i |-> i, then |-> "send"] \/ web' = [at |-> "close", i |-> i]
  BY DEF Send, Sent, ListenThen, Goto, flags, HttpdInv
<1>2. web' \in Place /\ received' \in Nat
  BY <1>1, PlaceIs, TypeOKIs DEF Ats, Thens
<1>3. Answering(i)' /\ ~ Uploading(web')
  BY <1>1 DEF Answering, Uploading, Uploads
<1> QED BY <1>1, <1>2, <1>3, PlaceMoves

LEMMA CloseInv == ASSUME HttpdInv, NEW i \in Slots, Close(i) PROVE HttpdInv'
<1>1. /\ UNCHANGED <<listenIdx, uploading, received, ready, abort, command, fg>>
      /\ TypeOK /\ web.at = "close" /\ web.i = i /\ NextSlot(i)
      /\ slot' = [slot EXCEPT ![i] = Closed]
      /\ tcp' = [tcp EXCEPT ![i] = "none"]
  BY DEF Close, flags, HttpdInv
<1>2. \A j \in Slots : /\ slot'[j].state = "post" => slot[j].state = "post" /\ j # i
                       /\ Waiting(j)' => Waiting(j)
  BY <1>1, TypeOKIs DEF Waiting, Closed
<1>3. TypeOK'
  <2>1. Closed \in Socket
    BY DEF Closed, Socket
  <2>2. slot' \in [Slots -> Socket] /\ tcp' \in [Slots -> Status]
    BY <1>1, <2>1, TypeOKIs DEF Status
  <2> QED BY <1>1, <2>2, NextSlotPlace DEF TypeOK, Socket, Status, Place, Ats, Thens
<1>4. \A j \in Slots : Writes(j)' => Writes(j)
  BY <1>1, <1>2, NextSlotPlace DEF Writes, Answering
<1> QED BY <1>1, <1>2, <1>3, <1>4, NextSlotPlace, UploadsKept, ListenerKept DEF HttpdInv

\* What the foreground does between two polls touches neither sockets nor lock.
LEMMA ForegroundInv ==
    ASSUME HttpdInv, Aborted \/ Typed \/ Dispatch \/ Answered \/ LoadFails \/ Flashed
    PROVE  HttpdInv'
<1>1. /\ UNCHANGED <<slot, tcp, listenIdx, uploading, received, ready, web>>
      /\ TypeOK
  BY DEF Aborted, Typed, Dispatch, Answered, LoadFails, Flashed, flags, HttpdInv
<1>2. abort' \in BOOLEAN
  BY <1>1 DEF Aborted, Typed, Dispatch, Answered, LoadFails, Flashed, flags, TypeOK
<1>3. command' \in BOOLEAN
  BY <1>1 DEF Aborted, Typed, Dispatch, Answered, LoadFails, Flashed, flags, TypeOK
<1>4. fg' \in {"readline", "typed", "prompt", "load", "rawload", "sleep", "reset"}
  BY DEF Aborted, Typed, Dispatch, Answered, LoadFails, Flashed
<1>5. TypeOK'
  BY <1>1, <1>2, <1>3, <1>4 DEF TypeOK
<1>6. \A j \in Slots : (Writes(j)' => Writes(j)) /\ (Waiting(j)' => Waiting(j))
  BY <1>1 DEF Writes, Answering, Waiting
<1> QED BY <1>1, <1>5, <1>6, UploadsKept, ListenerKept DEF HttpdInv, LockHeld

LEMMA HttpdStep == HttpdInv /\ [HttpdNext]_httpdVars => HttpdInv'
<1> SUFFICES ASSUME HttpdInv, [HttpdNext]_httpdVars PROVE HttpdInv'
  OBVIOUS
<1>1. CASE UNCHANGED httpdVars
  <2>1. UNCHANGED <<slot, tcp, listenIdx, uploading, received, ready, abort, command, web, fg>>
    BY <1>1 DEF httpdVars
  <2>2. TypeOK'
    BY <2>1 DEF HttpdInv, TypeOK
  <2>3. \A j \in Slots : (Writes(j)' => Writes(j)) /\ (Waiting(j)' => Waiting(j))
    BY <2>1 DEF Writes, Answering, Waiting
  <2> QED BY <2>1, <2>2, <2>3, UploadsKept, ListenerKept DEF HttpdInv, LockHeld
<1>2. CASE Server
  BY <1>2, PollInv, ListenInv, SkipInv, DisconnectInv, ReadSomeInv, RequestInv, PostInv,
     PostGoesOnInv, ReceiveInv, ReceiveFailsInv, PendingInv, UploadFailedInv, RefuseInv,
     AcceptInv, SendInv, CloseInv DEF Server
<1> QED BY <1>1, <1>2, TcpEventInv, ForegroundInv DEF HttpdNext

-----------------------------------------------------------------------------
(* The theorems *)

\* Every variable stays in its range.
THEOREM HttpdTypeCorrect == HttpdSpec => []TypeOK
<1>1. HttpdInv => TypeOK
  BY DEF HttpdInv
<1> QED BY HttpdStarts, HttpdStep, <1>1, PTL DEF HttpdSpec

\* However many sockets there are, and however their uploads take turns, end and
\* fail, at most one of them writes into the staging buffer, and none from when
\* an image in it is ready (cfe_web_bg_process).
THEOREM UploadsExclude == HttpdSpec => []OneUpload
<1>1. HttpdInv => OneUpload
  BY DEF HttpdInv
<1> QED BY HttpdStarts, HttpdStep, <1>1, PTL DEF HttpdSpec

\* However many sockets there are, only the one of g_listen_idx waits for a
\* connection (cfe_web_listen).
THEOREM ListenersExclude == HttpdSpec => []OneListens
<1>1. HttpdInv => OneListens
  BY DEF HttpdInv
<1> QED BY HttpdStarts, HttpdStep, <1>1, PTL DEF HttpdSpec

-----------------------------------------------------------------------------
(* The time, and the resolver *)

HIDE HttpdAssumption
USE ClockAssumption, DnsAssumption

-----------------------------------------------------------------------------
(* Division *)

\* Division and remainder fit together.
LEMMA DivMod ==
    ASSUME NEW a \in Int, NEW n \in Nat \ {0}
    PROVE  /\ a \div n \in Int /\ a % n \in 0 .. n - 1
           /\ a = n * (a \div n) + (a % n)
  OBVIOUS

\* A positive multiple of n is at least n.
LEMMA Multiple ==
    ASSUME NEW n \in Nat \ {0}, NEW k \in Int, k >= 1
    PROVE  n * k >= n
  OBVIOUS

\* Multiplication distributes over sums.
LEMMA Distribute ==
    ASSUME NEW n \in Int, NEW a \in Int, NEW b \in Int
    PROVE  /\ n * (a + b) = n * a + n * b
           /\ n * (a - b) = n * a - n * b
           /\ n * a \in Int
  OBVIOUS

\* Only one quotient leaves a remainder below n.
LEMMA DivUnique ==
    ASSUME NEW n \in Nat \ {0}, NEW q \in Int, NEW r \in 0 .. n - 1
    PROVE  (n * q + r) \div n = q /\ (n * q + r) % n = r
  <1> DEFINE a == n * q + r
             p == a \div n
             s == a % n
  <1>1. a \in Int
        OBVIOUS
  <1>2. p \in Int /\ s \in 0 .. n - 1 /\ a = n * p + s
        BY <1>1, DivMod
  <1>3. n * (p - q) = n * p - n * q /\ n * (q - p) = n * q - n * p
        BY <1>2, Distribute
  <1>4. n * p \in Int /\ n * q \in Int /\ a = n * q + r
        BY <1>2, Distribute
  <1> HIDE DEF a, p, s
  <1>5. ~ (p - q >= 1)
        BY <1>2, <1>3, <1>4, Multiple
  <1>6. ~ (q - p >= 1)
        BY <1>2, <1>3, <1>4, Multiple
  <1>7. p = q
        BY <1>2, <1>5, <1>6
  <1>8. s = r
        BY <1>2, <1>4, <1>7
  <1> QED
        BY <1>7, <1>8 DEF a, p, s

\* Less than one turn further on, the quotient is the same or the next one.
LEMMA OneTurn ==
    ASSUME NEW n \in Nat \ {0}, NEW x \in Int, NEW g \in Nat, g < n
    PROVE  \/ (x + g) \div n = x \div n /\ (x + g) % n = (x % n) + g
           \/ (x + g) \div n = (x \div n) + 1 /\ (x + g) % n = (x % n) + g - n
  <1> DEFINE q == x \div n
             r == x % n
  <1>1. q \in Int /\ r \in 0 .. n - 1 /\ x = n * q + r
        BY DivMod
  <1>2. n * (q + 1) = n * q + n /\ n * q \in Int
        BY <1>1, Distribute
  <1> HIDE DEF q, r
  <1>3. CASE r + g < n
        <2>1. r + g \in 0 .. n - 1 /\ x + g = n * q + (r + g)
              BY <1>1, <1>2, <1>3
        <2>2. (n * q + (r + g)) \div n = q /\ (n * q + (r + g)) % n = r + g
              BY <1>1, <2>1, DivUnique
        <2> QED
              BY <2>1, <2>2 DEF q, r
  <1>4. CASE r + g >= n
        <2>1. r + g - n \in 0 .. n - 1 /\ x + g = n * (q + 1) + (r + g - n) /\ q + 1 \in Int
              BY <1>1, <1>2, <1>4
        <2>2. (n * (q + 1) + (r + g - n)) \div n = q + 1 /\ (n * (q + 1) + (r + g - n)) % n = r + g - n
              BY <2>1, DivUnique
        <2> QED
              BY <2>1, <2>2 DEF q, r
  <1> QED
        BY <1>1, <1>3, <1>4

\* The remainder of C is the smaller in size than the divisor, and fits to the quotient.
LEMMA QuotRem ==
    ASSUME NEW a \in Int, NEW n \in Nat \ {0}
    PROVE  /\ Quot(a, n) \in Int /\ Rem(a, n) \in Int
           /\ Rem(a, n) < n /\ Rem(a, n) > - n
           /\ a = n * Quot(a, n) + Rem(a, n)
  <1>1. CASE a >= 0
        BY <1>1, DivMod DEF Quot, Rem
  <1>2. CASE a < 0
        <2> DEFINE b == - a
                   q == b \div n
                   r == b % n
        <2>1. b \in Int
              OBVIOUS
        <2>2. q \in Int /\ r \in 0 .. n - 1 /\ b = n * q + r
              BY <2>1, DivMod
        <2>3. Quot(a, n) = - q /\ Rem(a, n) = - r
              BY <1>2 DEF Quot, Rem
        <2> HIDE DEF q, r
        <2>4. n * (0 - q) = n * 0 - n * q /\ n * q \in Int
              BY <2>2, Distribute
        <2>5. n * (- q) = - (n * q)
              BY <2>2, <2>4
        <2> QED
              BY <2>2, <2>3, <2>5
  <1> QED
        BY <1>1, <1>2

-----------------------------------------------------------------------------
(* The counter *)

LEMMA WordHalves == Half \in Nat \ {0} /\ Word = 2 * Half /\ MaxGap < Half
  <1>1. Word = 2 * (Word \div 2) + (Word % 2) /\ Word \div 2 \in Int
        BY DivMod
  <1> QED
        BY <1>1 DEF Half

\* An int32_t is what it is where it has no room for more, and one turn less above.
LEMMA SignedSmall == \A d \in 0 .. Half - 1 : Signed(d) = d
  <1> SUFFICES ASSUME NEW d \in 0 .. Half - 1
               PROVE  Signed(d) = d
        OBVIOUS
  <1>1. d + Half \in 0 .. Word - 1
        BY WordHalves
  <1>2. (Word * 0 + (d + Half)) % Word = d + Half
        BY <1>1, DivUnique
  <1> QED
        BY <1>1, <1>2, WordHalves DEF Signed

LEMMA SignedOverflow == \A g \in 1 .. Half : Signed(Word - g) = - g
  <1> SUFFICES ASSUME NEW g \in 1 .. Half
               PROVE  Signed(Word - g) = - g
        OBVIOUS
  <1>1. Half - g \in 0 .. Word - 1 /\ Word - g + Half = Word * 1 + (Half - g)
        BY WordHalves
  <1>2. Word \in Nat \ {0} /\ 1 \in Int
        OBVIOUS
  <1>3. (Word * 1 + (Half - g)) % Word = Half - g
        BY <1>1, <1>2, DivUnique
  <1> QED
        BY <1>1, <1>3, WordHalves DEF Signed

-----------------------------------------------------------------------------
(* The time *)

\* the clocks that the ticks and what is left over stand for
Counted == ClocksPerTick * ticks + remticks

ClockInv ==
    /\ clocks \in Nat /\ polled \in Nat /\ ticks \in Int /\ remticks \in Int
    /\ Turns \in Nat
    /\ oldcount = Signed(Start + polled)
    /\ TimeIsKept

LEMMA ClockStarts == ClockInit => ClockInv
  <1> SUFFICES ASSUME ClockInit
               PROVE  ClockInv
        OBVIOUS
  <1>1. clocks = 0 /\ polled = 0 /\ ticks = 0 /\ remticks = 0 /\ oldcount = Signed(Start + polled)
        BY DEF ClockInit, Getticks
  <1>2. (Start + 0 + Half) = Start + Half /\ (Start + Half) \div Word \in Int
        BY WordHalves, DivMod
  <1>3. Turns = 0
        BY <1>1, <1>2 DEF Turns
  <1>4. ClocksPerTick * 0 = 0
        OBVIOUS
  <1> QED
        BY <1>1, <1>3, <1>4 DEF ClockInv, TimeIsKept

\* What the difference of two readings is taken for.
Delta == Signed(IF Getticks >= oldcount THEN Getticks - oldcount ELSE oldcount - Getticks)

\* the turns of the counter until now
TurnsNow == ((Start + clocks + Half) \div Word) - ((Start + Half) \div Word)

LEMMA Difference ==
    ASSUME ClockInv
    PROVE  /\ clocks - polled \in 0 .. MaxGap
           /\ \/ Delta = clocks - polled /\ TurnsNow = Turns
              \/ Delta = - (clocks - polled) /\ TurnsNow = Turns + 1
  <1> DEFINE g == clocks - polled
             x == Start + polled + Half
             count == Getticks
             base == (Start + Half) \div Word
  <1>1. /\ g \in 0 .. MaxGap /\ g \in 0 .. Half - 1 /\ g < Word
        /\ x \in Int /\ Start + clocks + Half = x + g /\ g \in Nat
        BY WordHalves DEF ClockInv, TimeIsKept
  <1>2. /\ x \div Word \in Int /\ base \in Int
        /\ x % Word \in 0 .. Word - 1 /\ (x + g) % Word \in 0 .. Word - 1
        <2>1. Start + Half \in Int /\ x + g \in Int /\ Word \in Nat \ {0}
              BY <1>1, WordHalves
        <2> HIDE DEF x, g
        <2> QED
              BY <1>1, <2>1, DivMod
  <1>3. /\ oldcount = (x % Word) - Half
        /\ count = ((x + g) % Word) - Half
        /\ Turns = (x \div Word) - base
        /\ TurnsNow = ((x + g) \div Word) - base
        BY <1>1 DEF ClockInv, Signed, Getticks, Turns, TurnsNow
  <1> HIDE DEF x, g, base
  <1>4. CASE (x + g) \div Word = x \div Word /\ (x + g) % Word = (x % Word) + g
        <2>1. count - oldcount = g /\ count >= oldcount
              BY <1>1, <1>2, <1>3, <1>4, WordHalves
        <2>2. Delta = g
              BY <1>1, <2>1, SignedSmall DEF Delta
        <2>3. TurnsNow = Turns
              BY <1>3, <1>4
        <2> QED
              BY <1>1, <2>2, <2>3 DEF g
  <1>5. CASE (x + g) \div Word = (x \div Word) + 1 /\ (x + g) % Word = (x % Word) + g - Word
        <2>1. g # 0
              BY <1>1, <1>2, <1>5, WordHalves
        <2>2. oldcount - count = Word - g /\ ~ (count >= oldcount)
              BY <1>1, <1>2, <1>3, <1>5, WordHalves
        <2>3. Delta = - g
              <3>1. g \in 1 .. Half
                    BY <1>1, <2>1, WordHalves
              <3> QED
                    BY <2>2, <3>1, SignedOverflow DEF Delta
        <2>4. TurnsNow = Turns + 1
              BY <1>2, <1>3, <1>5
        <2> QED
              BY <1>1, <2>3, <2>4 DEF g
  <1> QED
        BY <1>1, <1>4, <1>5, OneTurn

\* A poll counts the difference of two readings, as whole ticks and what is left over.
LEMMA TaskCounts ==
    ASSUME ClockInv, CfeTimerTask
    PROVE  /\ ticks' \in Int /\ remticks' \in Int
           /\ remticks' < ClocksPerTick /\ remticks' > - ClocksPerTick
           /\ Delta \in Int /\ Counted \in Int /\ Counted' = Counted + Delta
  <1> DEFINE d == Delta
             r == remticks + Rem(d, ClocksPerTick)
             A == ClocksPerTick * ticks + remticks
             B == ClocksPerTick * ticks' + remticks'
  <1>1. /\ ticks' = ticks + Quot(d, ClocksPerTick) + Quot(r, ClocksPerTick)
        /\ remticks' = Rem(r, ClocksPerTick)
        BY DEF CfeTimerTask, Delta
  <1>2. /\ clocks - polled \in 0 .. MaxGap
        /\ d = clocks - polled \/ d = - (clocks - polled)
        BY Difference
  <1>3. /\ ticks \in Int /\ remticks \in Int /\ d \in Int /\ ClocksPerTick * ticks \in Int
        BY <1>2, Distribute DEF ClockInv
  <1>4. /\ ticks' \in Int /\ remticks' \in Int
        /\ remticks' < ClocksPerTick /\ remticks' > - ClocksPerTick
        /\ B = A + d
        <2> DEFINE C == ClocksPerTick
                   a == Quot(d, C)
                   e == Rem(d, C)
                   b == Quot(r, C)
                   f == Rem(r, C)
        <2>1. a \in Int /\ e \in Int /\ d = C * a + e
              BY <1>3, QuotRem
        <2>2. r \in Int /\ r = remticks + e
              BY <1>3, <2>1
        <2>3. b \in Int /\ f \in Int /\ f < C /\ f > - C /\ r = C * b + f
              BY <2>2, QuotRem
        <2>4. ticks' = (ticks + a) + b /\ remticks' = f
              BY <1>1
        <2>5. /\ C * ((ticks + a) + b) = C * (ticks + a) + C * b
              /\ C * (ticks + a) = C * ticks + C * a
              /\ C * ticks \in Int /\ C * a \in Int /\ C * b \in Int
              BY <1>3, <2>1, <2>3, Distribute
        <2>6. A = C * ticks + remticks /\ B = C * ticks' + remticks'
              OBVIOUS
        <2> HIDE DEF a, b, e, f, d, r, A, B, C
        <2>7. ticks' \in Int /\ remticks' \in Int /\ remticks' < C /\ remticks' > - C
              BY <1>3, <2>1, <2>3, <2>4
        <2>8. B = A + d
              BY <1>3, <2>1, <2>2, <2>3, <2>4, <2>5, <2>6
        <2> QED
              BY <2>7, <2>8 DEF C
  <1>5. A = Counted /\ B = Counted' /\ A \in Int
        BY <1>3 DEF Counted, ClockInv
  <1> HIDE DEF d, A, B
  <1> QED
        BY <1>3, <1>4, <1>5 DEF d

LEMMA ClockTask == ClockInv /\ CfeTimerTask => ClockInv'
  <1> SUFFICES ASSUME ClockInv, CfeTimerTask
               PROVE  ClockInv'
        OBVIOUS
  <1> DEFINE g == clocks - polled
             d == Delta
             after == TurnsNow
             A == ClocksPerTick * ticks + remticks
             B == ClocksPerTick * ticks' + remticks'
  <1>1. /\ clocks' = clocks /\ polled' = clocks /\ oldcount' = Getticks
        BY DEF CfeTimerTask
  <1>2. /\ g \in 0 .. MaxGap
        /\ \/ d = g /\ after = Turns
           \/ d = - g /\ after = Turns + 1
        BY Difference
  <1>3. /\ ticks \in Int /\ remticks \in Int /\ clocks \in Nat /\ polled \in Nat /\ Turns \in Nat
        /\ d \in Int /\ ClocksPerTick * ticks \in Int
        BY <1>2, Distribute DEF ClockInv
  <1>4. /\ ticks' \in Int /\ remticks' \in Int
        /\ remticks' < ClocksPerTick /\ remticks' > - ClocksPerTick
        /\ B = A + d
        BY TaskCounts DEF Counted
  <1>5. Turns' = after
        BY <1>1 DEF Turns, TurnsNow, Half
  <1>6. oldcount' = Signed(Start + polled)'
        BY <1>1 DEF Getticks, Signed, Half
  <1>7. polled - A \in 0 .. 2 * MaxGap * Turns
        BY DEF ClockInv, TimeIsKept
  <1>8. A \in Int /\ g = clocks - polled
        BY <1>3
  <1>9. clocks - B \in 0 .. 2 * MaxGap * after
        <2> DEFINE M == 2 * MaxGap
        <2>1. M * (Turns + 1) = M * Turns + M * 1 /\ M * Turns \in Int /\ M \in Int
              BY <1>3, Distribute
        <2>2. polled - A \in 0 .. M * Turns /\ M = 2 * MaxGap
              BY <1>7
        <2> HIDE DEF A, B, M, g, d, after
        <2>3. CASE d = g /\ after = Turns
              <3>1. clocks - B = polled - A
                    BY <1>3, <1>4, <1>8, <2>3
              <3> QED
                    BY <2>2, <2>3, <3>1 DEF M
        <2>4. CASE d = - g /\ after = Turns + 1
              <3>1. clocks - B = (polled - A) + 2 * g
                    BY <1>3, <1>4, <1>8, <2>4
              <3>2. M * after = M * Turns + M
                    BY <2>1, <2>4
              <3>3. clocks - B \in 0 .. M * after
                    BY <1>2, <1>3, <1>8, <2>1, <2>2, <3>1, <3>2
              <3> QED
                    BY <3>3 DEF M
        <2> QED
              BY <1>2, <2>3, <2>4
  <1>10. Turns' \in Nat
        BY <1>2, <1>3, <1>5
  <1>11. TimeIsKept'
        <2>1. clocks' - polled' \in 0 .. MaxGap
              BY <1>1, <1>3
        <2>2. polled' - B \in 0 .. 2 * MaxGap * Turns'
              BY <1>1, <1>5, <1>9
        <2> QED
              BY <1>4, <2>1, <2>2 DEF TimeIsKept
  <1> QED
        BY <1>1, <1>3, <1>4, <1>6, <1>10, <1>11 DEF ClockInv

LEMMA ClockStep == ClockInv /\ [ClockNext]_clockVars => ClockInv'
  <1> SUFFICES ASSUME ClockInv, [ClockNext]_clockVars
               PROVE  ClockInv'
        OBVIOUS
  <1>1. CASE Elapse
        BY <1>1 DEF Elapse, ClockInv, TimeIsKept, Turns, Signed, Half
  <1>2. CASE CfeTimerTask
        BY <1>2, ClockTask
  <1>3. CASE UNCHANGED clockVars
        BY <1>3 DEF clockVars, ClockInv, TimeIsKept, Turns, Signed, Half
  <1> QED
        BY <1>1, <1>2, <1>3 DEF ClockNext

\* The steps of the resolver and of the network leave the time alone or are steps of it.
LEMMA KeepsTime == [Next]_vars => [ClockNext]_clockVars
  BY DEF Next, vars, ClockNext, TimePasses, Background, Taken, Returned, Lookup, Ask,
         AskWithoutBuffer, Test, Recv, RecvNothing

\* For every width of the counter, length of a tick and time between two polls: no
\* clock is lost or counted twice, but for those a turn of the counter costs (cfe_timer_task).
THEOREM ClockKeepsTime == Spec => []TimeIsKept
  <1>1. Init => ClockInv
        BY ClockStarts DEF Init
  <1>2. ClockInv /\ [Next]_vars => ClockInv'
        BY ClockStep, KeepsTime
  <1>3. ClockInv => TimeIsKept
        BY DEF ClockInv
  <1> QED
        BY <1>1, <1>2, <1>3, PTL DEF Spec

-----------------------------------------------------------------------------
(* The resolver *)

Question == [port : Nat, id : Nat, host : Hosts]
Answer   == [id : Nat, host : Hosts, kind : Kinds]

IdleCalls == [at : {"idle"}, host : Hosts \cup {"nobody"}, got : SUBSET Hosts]
AskCalls  == [at : {"ask"}, host : Hosts, port : Nat, tries : Nat, began : Nat]
WaitCalls == [at : {"test", "poll", "recv"}, host : Hosts, port : Nat, tries : Nat, began : Nat,
              id : Nat, timer : Int]
DeadCalls == {[at |-> "dead"]}

DnsTyped ==
    /\ lookup \in IdleCalls \cup AskCalls \cup WaitCalls \cup DeadCalls
    /\ asked \subseteq Question /\ queue \in Seq(Answer)
    /\ free \in Nat /\ others \in Nat

\* What waits in the queue answers a question of this call's port number, ...
QueueFromAsked ==
    lookup.at \notin {"idle", "dead"} =>
       \A i \in 1 .. Len(queue) :
          [port |-> lookup.port, id |-> queue[i].id, host |-> queue[i].host] \in asked

\* ... and the call has asked what it waits for.
OwnQuestionAsked ==
    lookup.at \in {"test", "poll", "recv"} =>
       [port |-> lookup.port, id |-> lookup.id, host |-> lookup.host] \in asked

CallInv == /\ DnsTyped
           /\ QueueFromAsked /\ OwnQuestionAsked
           /\ BuffersAccounted /\ AnswersTheQuestion

DnsInv == ClockInv /\ CallInv

LEMMA DnsStarts == Init => DnsInv
  <1> SUFFICES ASSUME Init
               PROVE  DnsInv
        OBVIOUS
  <1>1. ClockInv
        BY ClockStarts DEF Init
  <1>2. DnsTyped
        BY DEF Init, DnsTyped, IdleCalls
  <1>3. QueueFromAsked /\ OwnQuestionAsked /\ BuffersAccounted /\ AnswersTheQuestion
        BY DEF Init, QueueFromAsked, OwnQuestionAsked, BuffersAccounted, AnswersTheQuestion
  <1> QED
        BY <1>1, <1>2, <1>3 DEF DnsInv, CallInv

\* The place of a call says which record it is.
LEMMA CallByPlace ==
    ASSUME DnsTyped
    PROVE  /\ lookup.at = "idle" => lookup \in IdleCalls
           /\ lookup.at = "ask" => lookup \in AskCalls
           /\ lookup.at \in {"test", "poll", "recv"} => lookup \in WaitCalls
           /\ lookup.at \in {"idle", "ask", "test", "poll", "recv", "dead"}
  BY DEF DnsTyped, IdleCalls, AskCalls, WaitCalls, DeadCalls

\* A number taken modulo a positive one is a natural number.
LEMMA ModNat == \A a \in Int, n \in Nat \ {0} : a % n \in Nat
  BY DivMod

\* What is left when the first element is taken.
LEMMA TailParts ==
    ASSUME NEW S, NEW s \in Seq(S), s # <<>>
    PROVE  /\ Head(s) \in S /\ Head(s) = s[1] /\ Tail(s) \in Seq(S)
           /\ Len(s) \in Nat /\ Len(s) >= 1 /\ Len(Tail(s)) = Len(s) - 1
           /\ \A i \in 1 .. Len(Tail(s)) : Tail(s)[i] = s[i + 1] /\ i + 1 \in 1 .. Len(s)
  OBVIOUS

\* What there is when one is added.
LEMMA AppendParts ==
    ASSUME NEW S, NEW s \in Seq(S), NEW e \in S
    PROVE  /\ Append(s, e) \in Seq(S) /\ Len(s) \in Nat /\ Len(Append(s, e)) = Len(s) + 1
           /\ \A i \in 1 .. Len(s) + 1 : Append(s, e)[i] = IF i <= Len(s) THEN s[i] ELSE e
  OBVIOUS

\* A call that returns what it was asked for, and frees its queue.
LEMMA DoneKeeps ==
    ASSUME CallInv, lookup \in WaitCalls,
           NEW got \in SUBSET Hosts, NEW rest \in Seq(Answer), NEW given \in Nat,
           Ambiguous \/ got \subseteq {lookup.host},
           free + others + given + Len(rest) = Buffers,
           Done(got, rest, given), UNCHANGED <<others, asked>>
    PROVE  CallInv'
  <1>1. /\ lookup' = [at |-> "idle", host |-> lookup.host, got |-> got]
        /\ queue' = <<>> /\ free' = free + given + Len(rest)
        /\ others' = others /\ asked' = asked
        BY DEF Done
  <1>2. lookup.host \in Hosts
        BY DEF WaitCalls
  <1>3. Len(rest) \in Nat /\ Len(queue') = 0 /\ free \in Nat /\ others \in Nat
        BY <1>1 DEF CallInv, DnsTyped
  <1>4. DnsTyped'
    <2>1. lookup' \in IdleCalls
          BY <1>1, <1>2 DEF IdleCalls
    <2>2. queue' \in Seq(Answer) /\ free' \in Nat
          BY <1>1, <1>3
    <2> QED
          BY <1>1, <2>1, <2>2 DEF CallInv, DnsTyped
  <1>5. QueueFromAsked' /\ OwnQuestionAsked'
        BY <1>1 DEF QueueFromAsked, OwnQuestionAsked
  <1>6. BuffersAccounted'
        BY <1>1, <1>3 DEF BuffersAccounted
  <1>7. AnswersTheQuestion'
        BY <1>1 DEF AnswersTheQuestion, Ambiguous
  <1> QED
        BY <1>4, <1>5, <1>6, <1>7 DEF CallInv

\* A call goes on waiting, with what is left in its queue.
GoesOn(place, rest, left) ==
    /\ lookup' = [lookup EXCEPT !.at = place]
    /\ queue' = rest
    /\ free' = left

LEMMA WaitKeeps ==
    ASSUME CallInv, lookup \in WaitCalls,
           NEW place \in {"test", "poll", "recv"}, NEW rest \in Seq(Answer), NEW left \in Nat,
           \A i \in 1 .. Len(rest) :
               [port |-> lookup.port, id |-> rest[i].id, host |-> rest[i].host] \in asked,
           left + others + Len(rest) = Buffers,
           GoesOn(place, rest, left), UNCHANGED <<others, asked>>
    PROVE  CallInv'
  <1>1. /\ free' = left /\ queue' = rest /\ others' = others /\ asked' = asked
        /\ free \in Nat /\ others \in Nat /\ Len(rest) \in Nat
        BY DEF CallInv, DnsTyped, GoesOn
  <1>2. /\ lookup' \in WaitCalls /\ lookup'.port = lookup.port /\ lookup'.id = lookup.id
        /\ lookup'.host = lookup.host /\ lookup'.at = place
        BY DEF WaitCalls, GoesOn
  <1>3. free' \in Nat
        BY <1>1
  <1>4. DnsTyped'
        BY <1>1, <1>2, <1>3 DEF CallInv, DnsTyped
  <1>5. QueueFromAsked'
        BY <1>1, <1>2 DEF QueueFromAsked
  <1>6. lookup.at \in {"test", "poll", "recv"}
        BY DEF WaitCalls
  <1>7. OwnQuestionAsked'
        BY <1>1, <1>2, <1>6 DEF CallInv, OwnQuestionAsked
  <1>8. BuffersAccounted' /\ AnswersTheQuestion'
        BY <1>1, <1>2 DEF BuffersAccounted, AnswersTheQuestion
  <1> QED
        BY <1>4, <1>5, <1>7, <1>8 DEF CallInv

\* A call that asks again, or gives up.
LEMMA NextTryKeeps ==
    ASSUME CallInv, lookup \in WaitCalls,
           NEW rest \in Seq(Answer), NEW given \in Nat,
           \A i \in 1 .. Len(rest) :
               [port |-> lookup.port, id |-> rest[i].id, host |-> rest[i].host] \in asked,
           free + others + given + Len(rest) = Buffers,
           NextTry(rest, given), UNCHANGED <<others, asked>>
    PROVE  CallInv'
  <1>1. CASE lookup.tries + 1 < RetryCount
    <2>1. /\ lookup' = [at |-> "ask", host |-> lookup.host, port |-> lookup.port,
                        tries |-> lookup.tries + 1, began |-> lookup.began]
          /\ queue' = rest /\ free' = free + given /\ others' = others /\ asked' = asked
          BY <1>1 DEF NextTry
    <2>2. /\ lookup.host \in Hosts /\ lookup.port \in Nat
          /\ lookup.tries \in Nat /\ lookup.began \in Nat
          BY DEF WaitCalls
    <2>3. lookup' \in AskCalls /\ lookup'.at = "ask" /\ lookup'.port = lookup.port
          BY <2>1, <2>2 DEF AskCalls
    <2>4. free' \in Nat
          BY <2>1 DEF CallInv, DnsTyped
    <2>5. DnsTyped'
          BY <2>1, <2>3, <2>4 DEF CallInv, DnsTyped
    <2>6. QueueFromAsked' /\ OwnQuestionAsked'
          BY <2>1, <2>3 DEF QueueFromAsked, OwnQuestionAsked
    <2>7. Len(rest) \in Nat /\ free \in Nat /\ others \in Nat
          BY DEF CallInv, DnsTyped
    <2>8. BuffersAccounted' /\ AnswersTheQuestion'
          BY <2>1, <2>3, <2>7 DEF BuffersAccounted, AnswersTheQuestion
    <2> QED
          BY <2>5, <2>6, <2>8 DEF CallInv
  <1>2. CASE ~ (lookup.tries + 1 < RetryCount)
    <2>1. Done({}, rest, given)
          BY <1>2 DEF NextTry
    <2> QED
          BY <2>1, DoneKeeps
  <1> QED
        BY <1>1, <1>2

LEMMA TestKeeps == CallInv /\ Test => CallInv'
  <1> SUFFICES ASSUME CallInv, Test
               PROVE  CallInv'
        OBVIOUS
  <1>1. DnsTyped /\ lookup.at = "test" /\ UNCHANGED <<others, asked>>
        BY DEF CallInv, Test
  <1>2. lookup \in WaitCalls
        BY <1>1, CallByPlace
  <1>3. /\ queue \in Seq(Answer) /\ free \in Nat /\ others \in Nat /\ Len(queue) \in Nat
        /\ free + others + Len(queue) = Buffers /\ free + others + 0 + Len(queue) = Buffers
        /\ \A i \in 1 .. Len(queue) :
              [port |-> lookup.port, id |-> queue[i].id, host |-> queue[i].host] \in asked
        BY <1>1 DEF CallInv, DnsTyped, BuffersAccounted, QueueFromAsked
  <1>4. CASE NextTry(queue, 0)
        BY <1>1, <1>2, <1>3, <1>4, NextTryKeeps
  <1>5. CASE lookup' = [lookup EXCEPT !.at = "poll"] /\ UNCHANGED <<queue, free>>
    <2>1. GoesOn("poll", queue, free)
          BY <1>3, <1>5 DEF GoesOn
    <2> QED
          BY <1>1, <1>2, <1>3, <1>5, <2>1, WaitKeeps
  <1> QED
        BY <1>4, <1>5 DEF Test

LEMMA RecvKeeps == CallInv /\ Recv => CallInv'
  <1> SUFFICES ASSUME CallInv, Recv
               PROVE  CallInv'
        OBVIOUS
  <1> DEFINE buf == Head(queue)
  <1>1. DnsTyped /\ lookup.at = "recv" /\ queue # <<>> /\ UNCHANGED <<others, asked>>
        BY DEF CallInv, Recv
  <1>2. lookup \in WaitCalls /\ lookup.host \in Hosts
        BY <1>1, CallByPlace DEF WaitCalls
  <1>3. queue \in Seq(Answer) /\ free \in Nat /\ others \in Nat
        BY <1>1 DEF DnsTyped
  <1>4. /\ buf \in Answer /\ buf = queue[1] /\ Tail(queue) \in Seq(Answer)
        /\ Len(queue) \in Nat /\ Len(queue) >= 1 /\ Len(Tail(queue)) = Len(queue) - 1
        /\ \A i \in 1 .. Len(Tail(queue)) : Tail(queue)[i] = queue[i + 1] /\ i + 1 \in 1 .. Len(queue)
        BY <1>1, <1>3, TailParts
  <1>5. \A i \in 1 .. Len(queue) :
           [port |-> lookup.port, id |-> queue[i].id, host |-> queue[i].host] \in asked
        BY <1>1 DEF CallInv, QueueFromAsked
  <1>6. \A i \in 1 .. Len(Tail(queue)) :
           [port |-> lookup.port, id |-> Tail(queue)[i].id, host |-> Tail(queue)[i].host] \in asked
        BY <1>4, <1>5
  <1>7. [port |-> lookup.port, id |-> buf.id, host |-> buf.host] \in asked
        BY <1>4, <1>5
  <1>8. [port |-> lookup.port, id |-> lookup.id, host |-> lookup.host] \in asked
        BY <1>1 DEF CallInv, OwnQuestionAsked
  <1>9. /\ free + others + 1 + Len(Tail(queue)) = Buffers
        /\ (free + 1) + others + Len(Tail(queue)) = Buffers
        BY <1>3, <1>4 DEF CallInv, BuffersAccounted
  <1>10. CASE /\ lookup' = [lookup EXCEPT !.at = "test"]
              /\ queue' = Tail(queue) /\ free' = free + 1
    <2>1. GoesOn("test", Tail(queue), free + 1)
          BY <1>10 DEF GoesOn
    <2>2. free + 1 \in Nat
          BY <1>3
    <2> QED
          BY <1>1, <1>2, <1>4, <1>6, <1>9, <2>1, <2>2, WaitKeeps
  <1>11. CASE NextTry(Tail(queue), 1)
        BY <1>1, <1>2, <1>4, <1>6, <1>9, <1>11, NextTryKeeps
  <1>12. CASE buf.id = lookup.id /\ Done({buf.host}, Tail(queue), 1)
    <2>1. Ambiguous \/ buf.host = lookup.host
          BY <1>7, <1>8, <1>12 DEF Ambiguous
    <2>2. {buf.host} \in SUBSET Hosts
          BY <1>4 DEF Answer
    <2> QED
          BY <1>1, <1>2, <1>4, <1>9, <1>12, <2>1, <2>2, DoneKeeps
  <1> QED
        BY <1>10, <1>11, <1>12 DEF Recv

LEMMA RecvNothingKeeps == CallInv /\ RecvNothing => CallInv'
  <1> SUFFICES ASSUME CallInv, RecvNothing
               PROVE  CallInv'
        OBVIOUS
  <1>1. /\ DnsTyped /\ lookup.at = "recv" /\ UNCHANGED <<others, asked, queue, free>>
        /\ lookup' = [lookup EXCEPT !.at = "test"]
        BY DEF CallInv, RecvNothing
  <1>2. lookup \in WaitCalls
        BY <1>1, CallByPlace
  <1>3. queue \in Seq(Answer) /\ free \in Nat /\ others \in Nat
        BY <1>1 DEF DnsTyped
  <1>4. Len(queue) \in Nat
        BY <1>3
  <1>5. free + others + Len(queue) = Buffers
        BY <1>1 DEF CallInv, BuffersAccounted
  <1>6. GoesOn("test", queue, free)
        BY <1>1 DEF GoesOn
  <1>7. \A i \in 1 .. Len(queue) :
           [port |-> lookup.port, id |-> queue[i].id, host |-> queue[i].host] \in asked
        BY <1>1 DEF CallInv, QueueFromAsked
  <1> QED
        BY <1>1, <1>2, <1>3, <1>4, <1>5, <1>6, <1>7, WaitKeeps

\* A new call has asked nothing yet, and its queue is empty.
LEMMA LookupKeeps == ASSUME ClockInv, CallInv, NEW host \in Hosts, Lookup(host)
                     PROVE  CallInv'
  <1>1. /\ lookup.at = "idle" /\ queue' = <<>>
        /\ free' = free /\ others' = others /\ asked' = asked
        /\ lookup' = [at |-> "ask", host |-> host, port |-> (Start + clocks) % Ports,
                      tries |-> 0, began |-> clocks]
        BY DEF Lookup
  <1>2. Start + clocks \in Int /\ clocks \in Nat
        BY DEF ClockInv
  <1>3. (Start + clocks) % Ports \in Nat
        BY <1>2, ModNat
  <1>4. lookup' \in AskCalls /\ lookup'.at = "ask"
        BY <1>1, <1>2, <1>3 DEF AskCalls
  <1>5. DnsTyped'
        BY <1>1, <1>4 DEF CallInv, DnsTyped
  <1>6. QueueFromAsked' /\ OwnQuestionAsked'
        BY <1>1, <1>4 DEF QueueFromAsked, OwnQuestionAsked
  <1>7. queue = <<>>
        BY <1>1 DEF CallInv, BuffersAccounted
  <1>8. BuffersAccounted' /\ AnswersTheQuestion'
        BY <1>1, <1>4, <1>7 DEF CallInv, BuffersAccounted, AnswersTheQuestion
  <1> QED
        BY <1>5, <1>6, <1>8 DEF CallInv

\* What is asked is on the network, and so is what was asked before.
LEMMA AskKeeps == ASSUME ClockInv, CallInv, Ask
                  PROVE  CallInv'
  <1> DEFINE id == ticks % Ids
             question == [port |-> lookup.port, id |-> id, host |-> lookup.host]
  <1>1. /\ lookup.at = "ask" /\ free > 0 /\ queue' = queue
        /\ asked' = asked \cup {question}
        /\ lookup' = [at |-> "test", host |-> lookup.host, port |-> lookup.port,
                      tries |-> lookup.tries, began |-> lookup.began,
                      id |-> id, timer |-> TimerSet(Timeout)]
        /\ \/ free' = free /\ others' = others
           \/ free' = free - 1 /\ others' = others + 1
        BY DEF Ask
  <1>2. ticks \in Int /\ id \in Nat
        BY ModNat DEF ClockInv
  <1>3. TimerSet(Timeout) \in Int
        BY <1>2 DEF TimerSet
  <1>4. DnsTyped /\ lookup \in AskCalls
        BY <1>1, CallByPlace DEF CallInv
  <1>5. /\ lookup.host \in Hosts /\ lookup.port \in Nat
        /\ lookup.tries \in Nat /\ lookup.began \in Nat
        BY <1>4 DEF AskCalls
  <1> HIDE DEF id
  <1>6. /\ lookup' \in WaitCalls /\ lookup'.at = "test" /\ lookup'.port = lookup.port
        /\ lookup'.id = id /\ lookup'.host = lookup.host
        BY <1>1, <1>2, <1>3, <1>5 DEF WaitCalls
  <1>7. question \in Question
        BY <1>2, <1>5 DEF Question
  <1>8. free \in Nat /\ others \in Nat /\ Len(queue) \in Nat /\ queue \in Seq(Answer)
        BY <1>4 DEF DnsTyped
  <1>9. free' \in Nat /\ others' \in Nat /\ free' + others' = free + others
        BY <1>1, <1>8
  <1>10. DnsTyped'
        BY <1>1, <1>4, <1>6, <1>7, <1>9 DEF DnsTyped
  <1>11. QueueFromAsked'
        BY <1>1, <1>6 DEF CallInv, QueueFromAsked
  <1>12. OwnQuestionAsked'
        BY <1>1, <1>6 DEF OwnQuestionAsked
  <1>13. BuffersAccounted' /\ AnswersTheQuestion'
        BY <1>1, <1>6, <1>8, <1>9 DEF CallInv, BuffersAccounted, AnswersTheQuestion
  <1> QED
        BY <1>10, <1>11, <1>12, <1>13 DEF CallInv

LEMMA AskWithoutBufferKeeps == CallInv /\ AskWithoutBuffer => CallInv'
  <1> SUFFICES ASSUME CallInv, AskWithoutBuffer
               PROVE  CallInv'
        OBVIOUS
  <1>1. /\ queue' = queue /\ free' = free /\ others' = others /\ asked' = asked
        /\ lookup' = [at |-> "dead"] /\ lookup' \in DeadCalls /\ lookup'.at = "dead"
        BY DEF AskWithoutBuffer, DeadCalls
  <1>2. DnsTyped'
        BY <1>1 DEF CallInv, DnsTyped
  <1>3. QueueFromAsked' /\ OwnQuestionAsked' /\ BuffersAccounted' /\ AnswersTheQuestion'
        BY <1>1 DEF CallInv, QueueFromAsked, OwnQuestionAsked, BuffersAccounted, AnswersTheQuestion
  <1> QED
        BY <1>2, <1>3 DEF CallInv

\* A buffer goes to another protocol, or comes back, or nothing of the call changes.
LEMMA OthersKeep ==
    ASSUME CallInv, lookup' = lookup, queue' = queue, asked' = asked,
           free' \in Nat, others' \in Nat, free' + others' = free + others
    PROVE  CallInv'
  <1>1. Len(queue) \in Nat /\ free \in Nat /\ others \in Nat
        BY DEF CallInv, DnsTyped
  <1>2. DnsTyped' /\ QueueFromAsked' /\ OwnQuestionAsked' /\ AnswersTheQuestion'
        BY DEF CallInv, DnsTyped, QueueFromAsked, OwnQuestionAsked, AnswersTheQuestion, Ambiguous
  <1>3. BuffersAccounted'
        BY <1>1 DEF CallInv, BuffersAccounted
  <1> QED
        BY <1>2, <1>3 DEF CallInv

\* What a poll brings to a waiting call answers a question of its port.
LEMMA BackgroundKeeps ==
    ASSUME CallInv, Background
    PROVE  CallInv'
  <1>1. /\ lookup.at \in {"idle", "poll", "recv"} /\ others' = others /\ asked' = asked
        /\ lookup' = IF lookup.at = "poll" THEN [lookup EXCEPT !.at = "recv"] ELSE lookup
        BY DEF Background, Polling
  <1>2. \/ queue' = queue /\ free' = free
        \/ \E q \in asked, kind \in Kinds : free > 0 /\ Received(q, kind)
        BY DEF Background
  <1>3. /\ DnsTyped /\ free \in Nat /\ others \in Nat /\ Len(queue) \in Nat
        /\ queue \in Seq(Answer) /\ free + others + Len(queue) = Buffers
        /\ asked \subseteq Question
        BY DEF CallInv, DnsTyped, BuffersAccounted
  <1>4. CASE lookup.at = "idle"
    <2>1. queue' = queue /\ free' = free /\ lookup' = lookup
          BY <1>1, <1>2, <1>4 DEF Received
    <2> QED
          BY <1>1, <1>3, <2>1, OthersKeep
  <1>5. CASE lookup.at \in {"poll", "recv"}
    <2>1. lookup \in WaitCalls
          BY <1>3, <1>5, CallByPlace
    <2>2. lookup' = [lookup EXCEPT !.at = "recv"]
          BY <1>1, <1>5, <2>1 DEF WaitCalls
    <2>3. \A i \in 1 .. Len(queue) :
             [port |-> lookup.port, id |-> queue[i].id, host |-> queue[i].host] \in asked
          BY <1>5 DEF CallInv, QueueFromAsked
    <2>4. CASE queue' = queue /\ free' = free
      <3>1. GoesOn("recv", queue, free)
            BY <2>2, <2>4 DEF GoesOn
      <3> QED
            BY <1>1, <1>3, <2>1, <2>3, <3>1, WaitKeeps
    <2>5. ASSUME NEW q \in asked, NEW kind \in Kinds, free > 0, Received(q, kind)
          PROVE  CallInv'
      <3> DEFINE answer == [id |-> q.id, host |-> q.host, kind |-> kind]
      <3>1. CASE lookup.port = q.port /\ Len(queue) < MaxQueue
        <4>1. queue' = Append(queue, answer) /\ free' = free - 1
              BY <1>5, <2>5, <3>1 DEF Received
        <4>2. /\ q \in Question /\ q = [port |-> q.port, id |-> q.id, host |-> q.host]
              /\ answer \in Answer
              BY <1>3, <2>5 DEF Question, Answer
        <4>3. [port |-> lookup.port, id |-> answer.id, host |-> answer.host] \in asked
              BY <2>5, <3>1, <4>2
        <4> HIDE DEF answer
        <4>4. queue \in Seq(Answer) /\ answer \in Answer
              BY <1>3, <4>2
        <4>5. /\ Append(queue, answer) \in Seq(Answer)
              /\ Len(Append(queue, answer)) = Len(queue) + 1
              /\ \A i \in 1 .. Len(queue) + 1 :
                    Append(queue, answer)[i] = IF i <= Len(queue) THEN queue[i] ELSE answer
              BY <4>4, AppendParts
        <4>6. \A i \in 1 .. Len(Append(queue, answer)) :
                 [port |-> lookup.port, id |-> Append(queue, answer)[i].id,
                  host |-> Append(queue, answer)[i].host] \in asked
              BY <1>3, <2>3, <4>3, <4>5
        <4>7. GoesOn("recv", Append(queue, answer), free - 1)
              BY <2>2, <4>1 DEF GoesOn
        <4>8. free - 1 \in Nat /\ (free - 1) + others + Len(Append(queue, answer)) = Buffers
              BY <1>3, <2>5, <4>5
        <4> QED
              BY <1>1, <2>1, <4>5, <4>6, <4>7, <4>8, WaitKeeps
      <3>2. CASE ~ (lookup.port = q.port /\ Len(queue) < MaxQueue)
        <4>1. queue' = queue /\ free' = free
              BY <1>5, <2>5, <3>2 DEF Received
        <4> QED
              BY <2>4, <4>1
      <3> QED
            BY <3>1, <3>2
    <2> QED
          BY <1>2, <2>4, <2>5
  <1> QED
        BY <1>1, <1>4, <1>5

LEMMA DnsStep == DnsInv /\ [Next]_vars => DnsInv'
  <1> SUFFICES ASSUME ClockInv, CallInv, [Next]_vars
               PROVE  CallInv'
        BY ClockStep, KeepsTime DEF DnsInv
  <1>1. free \in Nat /\ others \in Nat
        BY DEF CallInv, DnsTyped
  <1>2. CASE TimePasses \/ UNCHANGED vars
        BY <1>1, <1>2, OthersKeep DEF TimePasses, vars, dnsVars
  <1>3. CASE Taken
    <2>1. /\ lookup' = lookup /\ queue' = queue /\ asked' = asked
          /\ free' \in Nat /\ others' \in Nat /\ free' + others' = free + others
          BY <1>1, <1>3 DEF Taken
    <2> QED
          BY <2>1, OthersKeep
  <1>4. CASE Returned
    <2>1. /\ lookup' = lookup /\ queue' = queue /\ asked' = asked
          /\ free' \in Nat /\ others' \in Nat /\ free' + others' = free + others
          BY <1>1, <1>4 DEF Returned
    <2> QED
          BY <2>1, OthersKeep
  <1>5. CASE \E host \in Hosts : Lookup(host)
        BY <1>5, LookupKeeps
  <1>6. CASE Ask \/ AskWithoutBuffer
        BY <1>6, AskKeeps, AskWithoutBufferKeeps
  <1>7. CASE Test \/ Recv \/ RecvNothing
        BY <1>7, TestKeeps, RecvKeeps, RecvNothingKeeps
  <1> QED
        BY <1>2, <1>3, <1>4, <1>5, <1>6, <1>7, BackgroundKeeps DEF Next

\* For every number of hosts, ports, identifiers, buffers and tries: what a lookup
\* returns is the address of the host it was asked for, unless two questions for
\* different hosts went out under one number (dns_lookup, dns_dolookup).
THEOREM LookupAnswersTheQuestion == Spec => []AnswersTheQuestion
  <1>1. DnsInv => AnswersTheQuestion
        BY DEF DnsInv, CallInv
  <1> QED
        BY DnsStarts, DnsStep, <1>1, PTL DEF Spec

\* And no packet buffer is lost, on any way a lookup ends (dns_dolookup, _udp_close).
THEOREM LookupKeepsBuffers == Spec => []BuffersAccounted
  <1>1. DnsInv => BuffersAccounted
        BY DEF DnsInv, CallInv
  <1> QED
        BY DnsStarts, DnsStep, <1>1, PTL DEF Spec

-----------------------------------------------------------------------------
(* The time of a lookup *)

\* the clocks until the counter first passes from its largest to its smallest value
FirstTurn == Word - ((Start + Half) % Word)

\* A timer is never set to 0, which would not expire: what a turn of the counter
\* costs is less than a timer, or than the time before it.  With ticks of a tenth
\* of a second, and timers of ten, it holds for polls that come every 0.45 seconds.
TimersCount == 2 * MaxGap <= FirstTurn + ClocksPerTick * (Timeout - 1)

Waits == {"test", "poll", "recv"}

\* A try that begins has used the time of those before it.  The timer of one that
\* waits was set in time, and what is counted is past it by one poll at most.
InTime ==
    /\ lookup.at = "ask" => /\ lookup.tries + 1 <= RetryCount
                            /\ Counted <= lookup.began + TryTime * lookup.tries
    /\ lookup.at \in Waits =>
          /\ lookup.tries + 1 <= RetryCount /\ lookup.timer # 0
          /\ ClocksPerTick * lookup.timer - ClocksPerTick * Timeout - ClocksPerTick + 1
                <= lookup.began + TryTime * lookup.tries
          /\ Counted <= ClocksPerTick * lookup.timer + ClocksPerTick - 1 + MaxGap
    /\ lookup.at = "poll" => ticks <= lookup.timer

\* What is larger by one is larger by n in the product.
LEMMA Monotone ==
    ASSUME NEW n \in Nat, NEW a \in Int, NEW b \in Int, a <= b
    PROVE  n * a <= n * b
  <1>1. n * (b - a) = n * b - n * a /\ n * a \in Int /\ n * b \in Int
        BY Distribute
  <1>2. b - a \in Nat
        OBVIOUS
  <1>3. n * (b - a) >= 0
        BY <1>2
  <1> QED
        BY <1>1, <1>3

LEMMA TryTimeIs ==
    /\ TryTime \in Nat
    /\ TryTime = ClocksPerTick * Timeout + 2 * ClocksPerTick - 2 + MaxGap
    /\ ClocksPerTick * Timeout \in Int
  <1>1. ClocksPerTick * (Timeout + 2) = ClocksPerTick * Timeout + ClocksPerTick * 2
        BY Distribute
  <1>2. ClocksPerTick * Timeout >= ClocksPerTick * 0 /\ ClocksPerTick * Timeout \in Int
        BY Monotone, Distribute
  <1> QED
        BY <1>1, <1>2 DEF TryTime

\* The counter cannot pass its end without a turn's time.
LEMMA TurnsTakeTime ==
    ASSUME ClockInv, Turns >= 1
    PROVE  polled >= FirstTurn + Word * (Turns - 1)
  <1> DEFINE x == Start + Half
             q == x \div Word
             r == x % Word
             y == x + polled
             p == y \div Word
             s == y % Word
  <1>1. x \in Int /\ y \in Int /\ Word \in Nat \ {0} /\ polled \in Nat /\ Turns \in Nat
        BY WordHalves DEF ClockInv
  <1>2. Start + polled + Half = y
        BY <1>1, WordHalves
  <1>3. Turns = p - q /\ FirstTurn = Word - r
        BY <1>2 DEF Turns, FirstTurn
  <1> HIDE DEF x
  <1>4. q \in Int /\ r \in 0 .. Word - 1 /\ x = Word * q + r
        BY <1>1, DivMod
  <1> HIDE DEF y
  <1>5. p \in Int /\ s \in 0 .. Word - 1 /\ y = Word * p + s
        BY <1>1, DivMod
  <1> HIDE DEF q, r, p, s
  <1>6. /\ Word * (p - q) = Word * p - Word * q
        /\ Word * ((p - q) - 1) = Word * (p - q) - Word * 1
        /\ Word * p \in Int /\ Word * q \in Int
        BY <1>4, <1>5, Distribute
  <1>7. polled = y - x
        BY <1>1 DEF y
  <1> QED
        BY <1>1, <1>3, <1>4, <1>5, <1>6, <1>7

LEMMA TimersAreSet ==
    ASSUME ClockInv, TimersCount
    PROVE  ticks + Timeout >= 1
  <1> DEFINE C == ClocksPerTick
             W == Word
             M == 2 * MaxGap
             A == Counted
             L == C * (Timeout - 1)
  <1>1. /\ ticks \in Int /\ remticks \in Int /\ polled \in Nat /\ Turns \in Nat
        /\ remticks < C /\ polled - A \in 0 .. M * Turns
        /\ A = C * ticks + remticks
        BY DEF ClockInv, TimeIsKept, Counted
  <1>2. /\ C * ticks \in Int /\ C * Timeout \in Int /\ L \in Int /\ L = C * Timeout - C * 1
        /\ C * (ticks + Timeout) = C * ticks + C * Timeout
        BY <1>1, Distribute
  <1>3. L >= C * 0
        BY Monotone
  <1>4. A >= - L
    <2>1. CASE Turns = 0
      <3>1. M * Turns = 0
            BY <2>1
      <3> QED
            BY <1>1, <1>2, <1>3, <3>1
    <2>2. CASE Turns >= 1
      <3>1. polled >= FirstTurn + W * (Turns - 1)
            BY <2>2, TurnsTakeTime
      <3>2. /\ M * (Turns - 1) = M * Turns - M * 1 /\ M * Turns \in Int
            BY <1>1, Distribute
      <3>3. M <= W /\ Turns - 1 \in Nat
            BY <1>1, <2>2, WordHalves
      <3>4. /\ (Turns - 1) * M <= (Turns - 1) * W
            BY <3>3, WordHalves, Monotone
      <3>5. /\ (Turns - 1) * M = M * (Turns - 1) /\ (Turns - 1) * W = W * (Turns - 1)
            BY <1>1
      <3>6. W * (Turns - 1) \in Int /\ M * (Turns - 1) \in Int
            BY <1>1, Distribute
      <3>7. FirstTurn \in Int
        <4>1. Start + Half \in Int
              BY WordHalves
        <4> QED
              BY <4>1, DivMod DEF FirstTurn
      <3>8. M <= FirstTurn + L
            BY DEF TimersCount
      <3> HIDE DEF A, L, C, W, M
      <3>9. M \in Int
            BY DEF M
      <3> QED
            BY <1>1, <1>2, <3>1, <3>2, <3>4, <3>5, <3>6, <3>7, <3>8, <3>9
    <2> QED
          BY <1>1, <2>1, <2>2
  <1> HIDE DEF A, L
  <1>5. C * (ticks + Timeout) >= 1
        BY <1>1, <1>2, <1>4
  <1>6. CASE ticks + Timeout <= 0
    <2>1. C * (ticks + Timeout) <= C * 0 /\ C * 0 = 0
          BY <1>1, <1>6, Monotone
    <2> HIDE DEF C
    <2> QED
          BY <1>1, <1>2, <1>5, <2>1
  <1> QED
        BY <1>1, <1>6

\* A try is over, in time for the next one.
LEMMA NextTryInTime ==
    ASSUME ClockInv, InTime, lookup \in WaitCalls, lookup.at \in {"test", "recv"},
           NEW rest, NEW given, NextTry(rest, given), UNCHANGED <<ticks, remticks>>
    PROVE  InTime'
  <1>1. CASE lookup.tries + 1 < RetryCount
    <2> DEFINE n == lookup.tries
               C == ClocksPerTick
    <2>1. /\ lookup' = [at |-> "ask", host |-> lookup.host, port |-> lookup.port,
                        tries |-> lookup.tries + 1, began |-> lookup.began]
          BY <1>1 DEF NextTry
    <2>2. /\ n \in Nat /\ lookup.began \in Nat /\ lookup.timer \in Int
          BY DEF WaitCalls
    <2>3. Counted' = Counted /\ Counted \in Int
          <3>1. ClocksPerTick * ticks \in Int /\ remticks \in Int
                BY Distribute DEF ClockInv
          <3> QED
                BY <3>1 DEF Counted
    <2>4. /\ C * lookup.timer - C * Timeout - C + 1 <= lookup.began + TryTime * n
          /\ Counted <= C * lookup.timer + C - 1 + MaxGap
          BY DEF InTime, Waits
    <2>5. /\ C * lookup.timer \in Int /\ C * Timeout \in Int /\ TryTime * n \in Int
          /\ TryTime * (n + 1) = TryTime * n + TryTime * 1
          /\ TryTime = C * Timeout + 2 * C - 2 + MaxGap /\ TryTime \in Nat
          BY <2>2, TryTimeIs, Distribute
    <2> HIDE DEF C, n
    <2>6. Counted <= lookup.began + TryTime * (n + 1)
          <3>1. C \in Nat /\ MaxGap \in Nat /\ n + 1 \in Int
                BY <2>2 DEF C
          <3> QED
                BY <2>2, <2>3, <2>4, <2>5, <3>1
    <2>7. n + 1 + 1 <= RetryCount
          BY <1>1, <2>2 DEF n
    <2>8. TryTime' = TryTime
          BY DEF TryTime
    <2>9. /\ lookup'.at = "ask" /\ lookup'.tries = n + 1 /\ lookup'.began = lookup.began
          BY <2>1 DEF n
    <2> QED
          BY <2>3, <2>6, <2>7, <2>8, <2>9 DEF InTime, Waits
  <1>2. CASE ~ (lookup.tries + 1 < RetryCount)
    <2>1. lookup' = [at |-> "idle", host |-> lookup.host, got |-> {}]
          BY <1>2 DEF NextTry, Done
    <2>2. lookup'.at = "idle"
          BY <2>1
    <2> QED
          BY <2>2 DEF InTime, Waits
  <1> QED
        BY <1>1, <1>2

\* A step that leaves the time and the call alone.
LEMMA StaysInTime ==
    ASSUME InTime, UNCHANGED <<ticks, remticks, lookup>>
    PROVE  InTime'
  BY DEF InTime, Waits, Counted, TryTime

LEMMA LookupStarts ==
    ASSUME ClockInv, NEW host \in Hosts, Lookup(host)
    PROVE  InTime'
  <1>1. /\ lookup' = [at |-> "ask", host |-> host, port |-> (Start + clocks) % Ports,
                      tries |-> 0, began |-> clocks]
        /\ ticks' = ticks /\ remticks' = remticks
        BY DEF Lookup, clockVars
  <1>2. /\ lookup'.at = "ask" /\ lookup'.tries = 0 /\ lookup'.began = clocks
        BY <1>1
  <1>3. Counted' = Counted /\ Counted \in Int
    <2>1. ClocksPerTick * ticks \in Int /\ remticks \in Int
          BY Distribute DEF ClockInv
    <2> QED
          BY <1>1, <2>1 DEF Counted
  <1>4. Counted <= clocks
    <2>1. polled - Counted \in 0 .. 2 * MaxGap * Turns /\ clocks - polled \in 0 .. MaxGap
          BY DEF ClockInv, TimeIsKept, Counted
    <2>2. polled \in Nat /\ clocks \in Nat
          BY DEF ClockInv
    <2> QED
          BY <1>3, <2>1, <2>2
  <1>5. TryTime' * 0 = 0
        BY TryTimeIs DEF TryTime
  <1>6. clocks + 0 = clocks
        BY DEF ClockInv
  <1> QED
        BY <1>2, <1>3, <1>4, <1>5, <1>6 DEF InTime, Waits

\* The timer is set as far ahead as a try may take.
LEMMA AskInTime ==
    ASSUME TimersCount, ClockInv, DnsTyped, InTime, Ask
    PROVE  InTime'
  <1> DEFINE C == ClocksPerTick
             n == lookup.tries
             timer == ticks + Timeout
  <1>1. /\ lookup.at = "ask" /\ ticks' = ticks /\ remticks' = remticks
        /\ lookup' = [at |-> "test", host |-> lookup.host, port |-> lookup.port,
                      tries |-> lookup.tries, began |-> lookup.began,
                      id |-> ticks % Ids, timer |-> TimerSet(Timeout)]
        BY DEF Ask, clockVars
  <1>2. /\ lookup'.at = "test" /\ lookup'.tries = n /\ lookup'.began = lookup.began
        /\ lookup'.timer = timer
        BY <1>1 DEF TimerSet
  <1>3. n \in Nat /\ lookup.began \in Nat
        BY <1>1, CallByPlace DEF AskCalls
  <1>4. n + 1 <= RetryCount /\ Counted <= lookup.began + TryTime * n
        BY <1>1 DEF InTime
  <1>5. timer >= 1 /\ timer \in Int
        BY TimersAreSet DEF ClockInv
  <1>6. /\ C * timer = C * ticks + C * Timeout /\ C * ticks \in Int /\ C * Timeout \in Int
        /\ TryTime * n \in Int
        BY <1>3, Distribute, TryTimeIs DEF ClockInv
  <1>7. C * Timeout >= C * 0 /\ C * 0 = 0
        BY Monotone
  <1>8. /\ Counted' = Counted /\ Counted = C * ticks + remticks
        /\ remticks < C /\ remticks > - C /\ remticks \in Int
        BY <1>1 DEF Counted, ClockInv, TimeIsKept
  <1> HIDE DEF C, n, timer
  <1>9. C \in Nat /\ MaxGap \in Nat /\ Counted \in Int
        BY <1>6, <1>8 DEF C
  <1>10. /\ C * timer - C * Timeout - C + 1 <= lookup.began + TryTime * n
         /\ Counted <= C * timer + C - 1 + MaxGap
        BY <1>3, <1>4, <1>6, <1>7, <1>8, <1>9
  <1>11. TryTime' = TryTime
        BY DEF TryTime
  <1> QED
        BY <1>2, <1>4, <1>5, <1>8, <1>10, <1>11 DEF InTime, Waits, C

LEMMA TestInTime ==
    ASSUME ClockInv, DnsTyped, InTime, Test
    PROVE  InTime'
  <1>1. /\ lookup.at = "test" /\ lookup \in WaitCalls /\ ticks' = ticks /\ remticks' = remticks
        BY CallByPlace DEF Test, clockVars
  <1>2. CASE TimerExpired(lookup.timer)
        BY <1>1, <1>2, NextTryInTime DEF Test
  <1>3. CASE ~ TimerExpired(lookup.timer)
    <2>1. lookup' = [lookup EXCEPT !.at = "poll"]
          BY <1>3 DEF Test
    <2>2. /\ lookup'.at = "poll" /\ lookup'.tries = lookup.tries /\ lookup'.began = lookup.began
          /\ lookup'.timer = lookup.timer /\ lookup.timer \in Int
          BY <1>1, <2>1 DEF WaitCalls
    <2>3. ticks <= lookup.timer
          BY <1>1, <1>3, <2>2 DEF TimerExpired, InTime, Waits, ClockInv
    <2>4. Counted' = Counted /\ TryTime' = TryTime
          BY <1>1 DEF Counted, TryTime
    <2> QED
          BY <1>1, <2>2, <2>3, <2>4 DEF InTime, Waits
  <1> QED
        BY <1>2, <1>3

\* The time goes on by one poll, and only where the timer had not expired.
LEMMA BackgroundInTime ==
    ASSUME ClockInv, DnsTyped, InTime, Background
    PROVE  InTime'
  <1>1. /\ lookup.at \in {"idle", "poll", "recv"} /\ CfeTimerTask
        /\ lookup.at = "recv" => clocks = polled
        /\ lookup' = IF lookup.at = "poll" THEN [lookup EXCEPT !.at = "recv"] ELSE lookup
        BY DEF Background, Polling
  <1>2. /\ Counted' = Counted + Delta /\ Counted \in Int /\ Delta \in Int
        BY <1>1, TaskCounts
  <1>3. /\ clocks - polled \in 0 .. MaxGap
        /\ Delta = clocks - polled \/ Delta = - (clocks - polled)
        BY Difference
  <1>4. TryTime' = TryTime
        BY DEF TryTime
  <1>5. CASE lookup.at = "idle"
        BY <1>1, <1>5 DEF InTime, Waits
  <1>6. CASE lookup.at \in {"poll", "recv"}
    <2>1. lookup \in WaitCalls
          BY <1>6, CallByPlace
    <2>2. /\ lookup'.at = "recv" /\ lookup'.tries = lookup.tries /\ lookup'.began = lookup.began
          /\ lookup'.timer = lookup.timer /\ lookup.timer \in Int
          BY <1>1, <1>6, <2>1 DEF WaitCalls
    <2>3. ClocksPerTick * lookup.timer \in Int
          BY <2>2, Distribute
    <2>4. Counted' <= ClocksPerTick * lookup.timer + ClocksPerTick - 1 + MaxGap
      <3>1. CASE lookup.at = "recv"
        <4>1. Delta = 0
              BY <1>1, <1>3, <3>1 DEF ClockInv
        <4>2. Counted <= ClocksPerTick * lookup.timer + ClocksPerTick - 1 + MaxGap
              BY <3>1 DEF InTime, Waits
        <4> QED
              BY <1>2, <4>1, <4>2
      <3>2. CASE lookup.at = "poll"
        <4>1. ticks <= lookup.timer /\ ticks \in Int /\ remticks \in Int
              BY <3>2 DEF InTime, ClockInv
        <4>2. ClocksPerTick * ticks <= ClocksPerTick * lookup.timer /\ ClocksPerTick * ticks \in Int
              BY <2>2, <4>1, Monotone, Distribute
        <4>3. Counted = ClocksPerTick * ticks + remticks /\ remticks < ClocksPerTick
              BY DEF Counted, ClockInv, TimeIsKept
        <4>4. Delta <= MaxGap
              BY <1>3 DEF ClockInv
        <4> QED
              BY <1>2, <2>3, <4>1, <4>2, <4>3, <4>4
      <3> QED
            BY <1>6, <3>1, <3>2
    <2> QED
          BY <1>4, <1>6, <2>2, <2>4 DEF InTime, Waits
  <1> QED
        BY <1>1, <1>5, <1>6

LEMMA RecvInTime ==
    ASSUME ClockInv, DnsTyped, InTime, Recv \/ RecvNothing
    PROVE  InTime'
  <1>1. /\ lookup.at = "recv" /\ lookup \in WaitCalls /\ ticks' = ticks /\ remticks' = remticks
        BY CallByPlace DEF Recv, RecvNothing, clockVars
  <1>2. CASE lookup' = [lookup EXCEPT !.at = "test"]
    <2>1. /\ lookup'.at = "test" /\ lookup'.tries = lookup.tries /\ lookup'.began = lookup.began
          /\ lookup'.timer = lookup.timer
          BY <1>1, <1>2 DEF WaitCalls
    <2>2. Counted' = Counted /\ TryTime' = TryTime
          BY <1>1 DEF Counted, TryTime
    <2> QED
          BY <1>1, <2>1, <2>2 DEF InTime, Waits
  <1>3. CASE \E rest, given : NextTry(rest, given)
        BY <1>1, <1>3, NextTryInTime
  <1>4. CASE \E got, rest, given : Done(got, rest, given)
    <2>1. lookup'.at = "idle"
          BY <1>4 DEF Done
    <2> QED
          BY <2>1 DEF InTime, Waits
  <1> QED
        BY <1>2, <1>3, <1>4 DEF Recv, RecvNothing

LEMMA InTimeStep ==
    ASSUME TimersCount, DnsInv, InTime, [Next]_vars
    PROVE  InTime'
  <1>1. ClockInv /\ DnsTyped
        BY DEF DnsInv, CallInv
  <1>2. CASE TimePasses \/ Taken \/ Returned \/ UNCHANGED vars
        BY <1>2, StaysInTime DEF TimePasses, Elapse, Taken, Returned, vars, dnsVars, clockVars
  <1>3. CASE AskWithoutBuffer
    <2>1. lookup'.at = "dead"
          BY <1>3 DEF AskWithoutBuffer
    <2> QED
          BY <2>1 DEF InTime, Waits
  <1>4. CASE Background \/ Ask \/ Test \/ Recv \/ RecvNothing
        BY <1>1, <1>4, BackgroundInTime, AskInTime, TestInTime, RecvInTime
  <1> QED
        BY <1>1, <1>2, <1>3, <1>4, LookupStarts DEF Next

LEMMA InTimeIsInTime ==
    ASSUME DnsInv, InTime
    PROVE  LookupInTime
  <1> SUFFICES ASSUME lookup.at \notin {"idle", "dead"}
               PROVE  clocks - lookup.began <= RetryCount * TryTime + MaxGap + 2 * MaxGap * Turns
        BY DEF LookupInTime
  <1> DEFINE C == ClocksPerTick
             n == lookup.tries
             T == TryTime
             late == 2 * MaxGap * Turns
  <1>1. ClockInv /\ DnsTyped
        BY DEF DnsInv, CallInv
  <1>2. /\ clocks \in Nat /\ polled \in Nat /\ Turns \in Nat
        /\ clocks - polled \in 0 .. MaxGap /\ polled - Counted \in 0 .. late
        BY <1>1 DEF ClockInv, TimeIsKept, Counted
  <1>3. /\ lookup.at \in {"ask", "test", "poll", "recv"} /\ n \in Nat /\ lookup.began \in Nat
        /\ lookup.at # "ask" => lookup.timer \in Int
        BY <1>1, CallByPlace DEF AskCalls, WaitCalls
  <1>4. /\ Counted \in Int /\ late \in Int
    <2>1. ClocksPerTick * ticks \in Int /\ remticks \in Int
          BY <1>1, Distribute DEF ClockInv
    <2>2. (2 * MaxGap) * Turns \in Int
          BY <1>2, Distribute
    <2> QED
          BY <2>1, <2>2 DEF Counted
  <1>5. n + 1 <= RetryCount
        BY <1>3 DEF InTime, Waits
  <1>6. /\ T \in Nat /\ T = C * Timeout + 2 * C - 2 + MaxGap /\ C * Timeout \in Int
        /\ T * (n + 1) = T * n + T * 1 /\ T * n \in Int /\ T * RetryCount \in Int
        /\ T * (n + 1) <= T * RetryCount
        BY <1>3, <1>5, TryTimeIs, Distribute, Monotone
  <1>7. T * RetryCount = RetryCount * T
        BY <1>6
  <1>8. Counted <= lookup.began + T * (n + 1)
    <2>1. CASE lookup.at = "ask"
      <3>1. Counted <= lookup.began + T * n
            BY <2>1 DEF InTime
      <3> HIDE DEF T, n
      <3> QED
            BY <1>3, <1>4, <1>6, <3>1
    <2>2. CASE lookup.at \in Waits
      <3>1. /\ C * lookup.timer - C * Timeout - C + 1 <= lookup.began + T * n
            /\ Counted <= C * lookup.timer + C - 1 + MaxGap
            BY <2>2 DEF InTime
      <3>2. C * lookup.timer \in Int /\ C \in Nat /\ MaxGap \in Nat
            BY <1>3, <2>2, Distribute DEF Waits
      <3> HIDE DEF T, n, C
      <3> QED
            BY <1>3, <1>4, <1>6, <3>1, <3>2
    <2> QED
          BY <1>3, <2>1, <2>2 DEF Waits
  <1> HIDE DEF T, n, C, late
  <1>9. clocks - lookup.began <= T * RetryCount + MaxGap + late
        BY <1>2, <1>3, <1>4, <1>6, <1>8
  <1> QED
        BY <1>7, <1>9 DEF T, late

\* A lookup ends in the time of its tries, however many there are, whatever arrives
\* meanwhile and wherever the counter wraps, if no timer is set to 0 (dns_lookup,
\* dns_dolookup, TIMER_SET, TIMER_EXPIRED).
THEOREM LookupEndsInTime == TimersCount => (Spec => []LookupInTime)
  <1> SUFFICES ASSUME TimersCount
               PROVE  Spec => []LookupInTime
        OBVIOUS
  <1>1. Init => InTime
    <2> SUFFICES ASSUME Init
                 PROVE  InTime
          OBVIOUS
    <2>1. lookup.at = "idle"
          BY DEF Init
    <2> QED
          BY <2>1 DEF InTime, Waits
  <1>2. DnsInv /\ InTime /\ [Next]_vars => InTime'
        BY InTimeStep
  <1>3. DnsInv /\ InTime => LookupInTime
        BY InTimeIsInTime
  <1> QED
        BY DnsStarts, DnsStep, <1>1, <1>2, <1>3, PTL DEF Spec
=============================================================================
