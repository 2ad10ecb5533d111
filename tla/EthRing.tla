------------------------------- MODULE EthRing -------------------------------
(***************************************************************************)
(* The Ethernet driver and its DMA controller (dev_bcm6348_eth.c): a ring  *)
(* of receive descriptors that the controller fills and the driver empties *)
(* and a ring of transmit descriptors the other way round.                 *)
(*                                                                         *)
(* The two share nothing but the descriptors in memory and run at once:    *)
(* every store of the driver to a descriptor is a step.  DMA_OWN says that *)
(* a descriptor is the controller's, DMA_WRAP that the ring begins again   *)
(* behind it.  The controller is not code of this repository; it does what *)
(* the driver relies on: it takes the descriptors in order, stores a frame *)
(* before it hands the descriptor over, and stops a channel that has no    *)
(* descriptor until the driver enables it again.                           *)
(***************************************************************************)
EXTENDS Naturals, Sequences

CONSTANTS NrRx, NrTx,  \* NR_RX_BDS and NR_TX_BDS
          Frame, NoFrame, Cut

ASSUME RingAssumption == /\ NrRx \in Nat \ {0} /\ NrTx \in Nat \ {0}
                         /\ NoFrame \notin Frame /\ Cut \notin Frame

VARIABLES
    rx,       \* rxBds with their buffers
    rd,       \* rxBdReadPtr
    rxHw,     \* the descriptor the controller fills next
    filling,  \* it is storing a frame there
    rxOn,     \* the receive channel is enabled
    got,      \* the frame that the last read returned
    tx,       \* txBds with their buffers
    wr,       \* txNextBdPtr
    txHw,     \* the descriptor the controller sends next
    txOn,     \* the transmit channel is enabled
    sent,     \* the last frame on the wire
    pc        \* where in read, write or close the driver is

rxVars == <<rx, rd, rxHw, filling, rxOn, got>>
txVars == <<tx, wr, txHw, txOn, sent>>
vars   == <<rxVars, txVars, pc>>

Rx == 0 .. NrRx - 1
Tx == 0 .. NrTx - 1

TypeOK ==
    /\ rx \in [Rx -> [own : BOOLEAN, eop : BOOLEAN, wrap : BOOLEAN, room : BOOLEAN,
                      frame : Frame \cup {NoFrame, Cut}]]
    /\ tx \in [Tx -> [own : BOOLEAN, wrap : BOOLEAN, frame : Frame \cup {NoFrame}]]
    /\ rd \in Rx /\ rxHw \in Rx /\ wr \in Tx /\ txHw \in Tx
    /\ filling \in BOOLEAN /\ rxOn \in BOOLEAN /\ txOn \in BOOLEAN
    /\ got \in Frame \cup {NoFrame} /\ sent \in Frame \cup {NoFrame}
    /\ pc \in {"idle", "copied", "sized", "cleared", "given", "filled", "owned", "started", "closing", "closed"}

-----------------------------------------------------------------------------
(* The controller *)

\* A descriptor whose length is still a frame's has no room for the whole of the next one.
Store(f) ==
    /\ rxOn /\ ~ filling /\ rx[rxHw].own
    /\ rx' = [rx EXCEPT ![rxHw].frame = IF rx[rxHw].room THEN f ELSE Cut]
    /\ filling' = TRUE
    /\ UNCHANGED <<rd, rxHw, rxOn, got, txVars, pc>>

Stored ==
    /\ filling
    /\ rx' = [rx EXCEPT ![rxHw].own = FALSE, ![rxHw].eop = TRUE, ![rxHw].room = FALSE]
    /\ rxHw' = IF rx[rxHw].wrap THEN 0 ELSE rxHw + 1
    /\ filling' = FALSE
    /\ UNCHANGED <<rd, rxOn, got, txVars, pc>>

\* A frame finds no descriptor and is lost.
RxStops ==
    /\ rxOn /\ ~ filling /\ ~ rx[rxHw].own
    /\ rxOn' = FALSE
    /\ UNCHANGED <<rx, rd, rxHw, filling, got, txVars, pc>>

Transmit ==
    /\ txOn /\ tx[txHw].own
    /\ sent' = tx[txHw].frame
    /\ tx' = [tx EXCEPT ![txHw].own = FALSE]
    /\ txHw' = IF tx[txHw].wrap THEN 0 ELSE txHw + 1
    /\ UNCHANGED <<wr, txOn, rxVars, pc>>

TxStops ==
    /\ txOn /\ ~ tx[txHw].own
    /\ txOn' = FALSE
    /\ UNCHANGED <<tx, wr, txHw, sent, rxVars, pc>>

-----------------------------------------------------------------------------
(* bcm6348_ether_read; without DMA_EOP it returns at once *)

Copy ==
    /\ pc = "idle" /\ rx[rd].eop
    /\ got' = rx[rd].frame
    /\ pc' = "copied"
    /\ UNCHANGED <<rx, rd, rxHw, filling, rxOn, txVars>>

\* Mutant: the length stays that of the frame
SetLength_Stays ==
    /\ pc = "copied"
    /\ pc' = "sized"
    /\ UNCHANGED <<rxVars, txVars>>

SetLength ==
    /\ pc = "copied"
    /\ rx' = [rx EXCEPT ![rd].room = TRUE]
    /\ pc' = "sized"
    /\ UNCHANGED <<rd, rxHw, filling, rxOn, got, txVars>>

\* status &= DMA_WRAP: the wrap stays.
ClearStatus ==
    /\ pc = "sized"
    /\ rx' = [rx EXCEPT ![rd].own = FALSE, ![rd].eop = FALSE]
    /\ pc' = "cleared"
    /\ UNCHANGED <<rd, rxHw, filling, rxOn, got, txVars>>

GiveBack ==
    /\ pc = "cleared"
    /\ rx' = [rx EXCEPT ![rd].own = TRUE]
    /\ pc' = "given"
    /\ UNCHANGED <<rd, rxHw, filling, rxOn, got, txVars>>

\* Mutant: the channel is not enabled again
Advance_StaysOff ==
    /\ pc = "given"
    /\ rd' = IF rd = NrRx - 1 THEN 0 ELSE rd + 1
    /\ pc' = "idle"
    /\ UNCHANGED <<rx, rxHw, filling, rxOn, got, txVars>>

\* IncRxBdPtr, and the channel is enabled.
Advance ==
    /\ pc = "given"
    /\ rd' = IF rd = NrRx - 1 THEN 0 ELSE rd + 1
    /\ rxOn' = TRUE
    /\ pc' = "idle"
    /\ UNCHANGED <<rx, rxHw, filling, got, txVars>>

-----------------------------------------------------------------------------
(* bcm6348_ether_write; without a descriptor it returns at once *)

Fill(f) ==
    /\ pc = "idle" /\ ~ tx[wr].own
    /\ tx' = [tx EXCEPT ![wr].frame = f]
    /\ pc' = "filled"
    /\ UNCHANGED <<wr, txHw, txOn, sent, rxVars>>

Start ==
    /\ pc = "filled"
    /\ tx' = [tx EXCEPT ![wr].own = TRUE, ![wr].wrap = (wr = NrTx - 1)]
    /\ pc' = "owned"
    /\ UNCHANGED <<wr, txHw, txOn, sent, rxVars>>

\* Mutant: the channel is left as it is
EnableTx_Not ==
    /\ pc = "owned"
    /\ pc' = "started"
    /\ UNCHANGED <<rxVars, txVars>>

EnableTx ==
    /\ pc = "owned"
    /\ txOn' = TRUE
    /\ pc' = "started"
    /\ UNCHANGED <<tx, wr, txHw, sent, rxVars>>

\* The driver polls the status until the frame is sent.
Done ==
    /\ pc = "started" /\ ~ tx[wr].own
    /\ wr' = IF wr = NrTx - 1 THEN 0 ELSE wr + 1
    /\ pc' = "idle"
    /\ UNCHANGED <<tx, txHw, txOn, sent, rxVars>>

-----------------------------------------------------------------------------
(* bcm6348_ether_close: the channels are disabled and the rings freed when the *)
(* controller is through with its frame.  Nothing makes rings again.           *)

Close ==
    /\ pc = "idle"
    /\ rxOn' = FALSE /\ txOn' = FALSE
    /\ pc' = "closing"
    /\ UNCHANGED <<rx, rd, rxHw, filling, got, tx, wr, txHw, sent>>

Free ==
    /\ pc = "closing" /\ ~ filling
    /\ pc' = "closed"
    /\ UNCHANGED <<rxVars, txVars>>

-----------------------------------------------------------------------------
(* The specification *)

\* internal_open
Init ==
    /\ rx = [i \in Rx |-> [own |-> TRUE, eop |-> FALSE, wrap |-> i = NrRx - 1, room |-> TRUE,
                           frame |-> NoFrame]]
    /\ tx = [i \in Tx |-> [own |-> FALSE, wrap |-> i = NrTx - 1, frame |-> NoFrame]]
    /\ rd = 0 /\ rxHw = 0 /\ wr = 0 /\ txHw = 0
    /\ filling = FALSE /\ rxOn = TRUE /\ txOn = FALSE
    /\ got = NoFrame /\ sent = NoFrame /\ pc = "idle"

Read       == Copy \/ SetLength \/ ClearStatus \/ GiveBack \/ Advance
Write      == (\E f \in Frame : Fill(f)) \/ Start \/ EnableTx \/ Done
Controller == (\E f \in Frame : Store(f)) \/ Stored \/ RxStops \/ Transmit \/ TxStops

Next == Controller \/ Read \/ Write \/ Close \/ Free
Spec == Init /\ [][Next]_vars

\* A call of the driver goes on to its end, eth_poll reads again and again what
\* there is, and the controller does its part.
FairSpec == /\ Spec
            /\ WF_vars(SetLength \/ ClearStatus \/ GiveBack \/ Advance \/ Start \/ EnableTx \/ Done \/ Free)
            /\ SF_vars(Copy)
            /\ WF_vars(Stored) /\ WF_vars(Transmit)

-----------------------------------------------------------------------------
(* Properties *)

\* Descriptors with a frame that was not read yet; from First on they follow each other.
Unread(i) == rx[i].eop /\ ~ (i = rd /\ pc \in {"copied", "sized"})
First     == IF pc \in {"copied", "sized", "cleared", "given"} THEN (rd + 1) % NrRx ELSE rd
Count     == CHOOSE n \in 0 .. NrRx :
                \A k \in 0 .. NrRx - 1 : Unread((First + k) % NrRx) <=> k < n

\* The frames that the two rings hold
Queued  == [k \in 1 .. Count |-> rx[(First + k - 1) % NrRx].frame]
Waiting == IF tx[wr].own THEN <<tx[wr].frame>> ELSE <<>>

Received == INSTANCE FrameQueue WITH q <- Queued, out <- got, Capacity <- NrRx
Sent     == INSTANCE FrameQueue WITH q <- Waiting, out <- sent, Capacity <- 1

\* Whatever the controller and the driver do at the same time, the frames that were
\* stored are read whole, once and in order, and the frames that are written go out
\* once and in order (bcm6348_ether_read, bcm6348_ether_write, the DMA controller).
RingsAreQueues == Received!Spec /\ Sent!Spec

\* While the port is open the controller is again and again able to store a frame,
\* also when all descriptors were taken and it has stopped (bcm6348_ether_read).
KeepsReceiving == <>(pc = "closing") \/ []<>(rxOn /\ ~ filling /\ rx[rxHw].own)

\* A write comes to its end (bcm6348_ether_write polls without a limit).
WritesReturn == pc = "filled" ~> pc = "idle"
=============================================================================
