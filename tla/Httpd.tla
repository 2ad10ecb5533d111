-------------------------------- MODULE Httpd --------------------------------
(***************************************************************************)
(* The web server that takes an image over HTTP (bcm63xx_httpd.c) and the  *)
(* command loop that flashes it (bcm63xx_main.c, bcm63xx_cmd.c, readline   *)
(* of cfe_console.c).                                                      *)
(*                                                                         *)
(* The server is a background task: it runs when the foreground polls, and *)
(* the foreground runs on when it has gone round all its sockets.  Both    *)
(* use one staging buffer and tell each other what they do with flags.     *)
(* POLL inside the server does not enter it again (in_cfe_web_poll), so    *)
(* all it does there is to let TCP go on: TCP's view of the sockets        *)
(* changes where the code polls, and nowhere else.                         *)
(***************************************************************************)
EXTENDS Naturals

CONSTANTS NumSockets,  \* NUM_SOCKETS
          Lengths      \* what a POST may say of its length

ASSUME HttpdAssumption == NumSockets \in Nat \ {0} /\ Lengths \subseteq Nat

VARIABLES
    slot,       \* g_socket_info
    tcp,        \* what TCP says of the socket in each slot
    listenIdx,  \* g_listen_idx
    uploading,  \* g_post_data_in_progress
    received,   \* g_post_data_idx
    ready,      \* g_image_format is not NO_IMAGE_FORMAT
    abort,      \* g_console_abort
    command,    \* g_processing_cmd
    web,        \* where in the server the background task is
    fg          \* what the foreground does

httpdVars  == <<slot, tcp, listenIdx, uploading, received, ready, abort, command, web, fg>>
flags == <<uploading, received, ready, abort>>

Slots == 0 .. NumSockets - 1

Closed == [open |-> FALSE, state |-> "first", length |-> 0]

TypeOK ==
    /\ slot \in [Slots -> [open : BOOLEAN, state : {"first", "rest", "post"}, length : Lengths \cup {0}]]
    /\ tcp \in [Slots -> {"none", "listen", "opening", "up", "unread", "drained", "dead"}]
    /\ listenIdx \in Slots /\ received \in Nat
    /\ uploading \in BOOLEAN /\ ready \in BOOLEAN /\ abort \in BOOLEAN /\ command \in BOOLEAN
    /\ web \in {[at |-> "out"]}
           \cup [at : {"visit", "receive", "received", "failed", "send", "close"}, i : Slots]
           \cup [at : {"listen"}, i : Slots, then : {"visit", "receive", "received", "failed", "send"}]
    /\ fg \in {"readline", "typed", "prompt", "load", "rawload", "sleep", "reset"}

-----------------------------------------------------------------------------
(* TCP, where it is polled *)

Polled == web.at \in {"out", "listen", "close"}

\* tcp_status: with a FIN received, a socket is connected while there are data to read.
Connected(i)    == tcp[i] \in {"up", "unread"}
Disconnected(i) == tcp[i] \in {"drained", "dead"}

TcpMoves(from, to) == \E i \in Slots : tcp[i] = from /\ tcp' = [tcp EXCEPT ![i] = to]

TcpEvent ==
    /\ Polled /\ fg # "reset"
    /\ \/ TcpMoves("listen", "opening")   \* SYN
       \/ TcpMoves("opening", "up")
       \/ TcpMoves("opening", "listen")   \* a reset before the handshake is over
       \/ TcpMoves("up", "unread")        \* FIN behind data that are not read yet
       \/ TcpMoves("up", "drained")
       \/ TcpMoves("unread", "drained")
       \/ TcpMoves("up", "dead")          \* a reset, or nobody answers
       \/ TcpMoves("unread", "dead")
       \/ TcpMoves("drained", "dead")
    /\ UNCHANGED <<slot, listenIdx, flags, command, web, fg>>

-----------------------------------------------------------------------------
(* The server *)

Goto(at, i)       == web' = [at |-> at, i |-> i]
ListenThen(at, i) == web' = [at |-> "listen", i |-> i, then |-> at]

NextSlot(i) == IF i + 1 \in Slots THEN ListenThen("visit", i + 1) ELSE web' = [at |-> "out"]

\* cfe_web_poll, called from a loop of the foreground that polls
Poll ==
    /\ web.at = "out" /\ fg # "reset"
    /\ ListenThen("visit", 0)
    /\ UNCHANGED <<slot, tcp, listenIdx, flags, command, fg>>

\* Mutant: the next slot takes over whatever became of this one
ListenSlot_Always == (listenIdx + 1) % NumSockets

\* The next slot takes over when the one that listened has a connection.
ListenSlot == IF slot[listenIdx].open /\ Connected(listenIdx)
              THEN (listenIdx + 1) % NumSockets ELSE listenIdx

\* cfe_web_listen; tcp_socket may have no control block.
Listen ==
    /\ web.at = "listen"
    /\ listenIdx' = ListenSlot
    /\ \/ /\ ~ slot[ListenSlot].open
          /\ slot' = [slot EXCEPT ![ListenSlot].open = TRUE]
          /\ tcp' = [tcp EXCEPT ![ListenSlot] = "listen"]
       \/ UNCHANGED <<slot, tcp>>
    /\ Goto(web.then, web.i)
    /\ UNCHANGED <<flags, command, fg>>

\* A slot that is not open, or waits for its connection, is left alone.
Skip(i) ==
    /\ web.at = "visit" /\ web.i = i
    /\ ~ slot[i].open \/ tcp[i] \in {"listen", "opening"}
    /\ NextSlot(i)
    /\ UNCHANGED <<slot, tcp, listenIdx, flags, command, fg>>

\* A connection that ended is closed; an upload in it is still in progress.
Disconnect(i) ==
    /\ web.at = "visit" /\ web.i = i
    /\ slot[i].open /\ Disconnected(i)
    /\ slot' = [slot EXCEPT ![i].open = FALSE, ![i].state = "first"]
    /\ tcp' = [tcp EXCEPT ![i] = "none"]
    /\ NextSlot(i)
    /\ UNCHANGED <<listenIdx, flags, command, fg>>

Visit(i) == web.at = "visit" /\ web.i = i /\ slot[i].open /\ Connected(i)

\* read_first_hdr and read_remaining_hdrs, when the data end in the headers
ReadSome(i) ==
    /\ Visit(i) /\ slot[i].state # "post"
    /\ \/ UNCHANGED slot
       \/ \E length \in Lengths \cup {slot[i].length} :
             slot' = [slot EXCEPT ![i].state = "rest", ![i].length = length]
    /\ NextSlot(i)
    /\ UNCHANGED <<tcp, listenIdx, flags, command, fg>>

\* All headers are there.  One without a length leaves the length that is known.
\* A page is sent in a loop of its own, an error with as much as has room.
Request(i) ==
    /\ Visit(i) /\ slot[i].state # "post"
    /\ \E at \in IF command THEN {"close"} ELSE {"send", "close"} :
          Goto(at, i)
    /\ slot' = [slot EXCEPT ![i].state = "rest"]
    /\ UNCHANGED <<tcp, listenIdx, flags, command, fg>>

\* Mutant: a second upload is let in
PostAllowed_Always(i) == ~ command

\* No command works on the staging buffer, and no other upload.
PostAllowed(i) == ~ command /\ ~ uploading

Post(i) ==
    /\ Visit(i) /\ slot[i].state # "post" /\ PostAllowed(i)
    /\ \E length \in Lengths \cup {slot[i].length} :
          slot' = [slot EXCEPT ![i].state = "post", ![i].length = length]
    /\ uploading' = TRUE
    /\ Goto("receive", i)
    /\ UNCHANGED <<tcp, listenIdx, received, ready, abort, command, fg>>

PostGoesOn(i) ==
    /\ Visit(i) /\ slot[i].state = "post"
    /\ Goto("receive", i)
    /\ UNCHANGED <<slot, tcp, listenIdx, flags, command, fg>>

\* read_post_data: what came is read until nothing comes or all is there, with
\* POLL and cfe_web_listen after every read.
Receive(i) ==
    /\ web.at = "receive" /\ web.i = i /\ tcp[i] # "dead"
    /\ \E n \in 0 .. slot[i].length - received :
          /\ n > 0 => tcp[i] # "drained"
          /\ received' = received + n
          /\ ListenThen(IF n > 0 /\ received' < slot[i].length THEN "receive" ELSE "received", i)
    /\ UNCHANGED <<slot, tcp, listenIdx, uploading, ready, abort, command, fg>>

ReceiveFails(i) ==
    /\ web.at = "receive" /\ web.i = i /\ tcp[i] = "dead"
    /\ ListenThen("failed", i)
    /\ UNCHANGED <<slot, tcp, listenIdx, flags, command, fg>>

Pending(i) ==
    /\ web.at = "received" /\ web.i = i /\ received # slot[i].length
    /\ NextSlot(i)
    /\ UNCHANGED <<slot, tcp, listenIdx, flags, command, fg>>

UploadFailed(i) ==
    /\ web.at = "failed" /\ web.i = i
    /\ uploading' = FALSE /\ received' = 0
    /\ Goto("close", i)
    /\ UNCHANGED <<slot, tcp, listenIdx, ready, abort, command, fg>>

\* parse_post_data refuses what came.
Refuse(i) ==
    /\ web.at = "received" /\ web.i = i /\ received = slot[i].length
    /\ uploading' = FALSE /\ received' = 0
    /\ ListenThen("send", i)
    /\ UNCHANGED <<slot, tcp, listenIdx, ready, abort, command, fg>>

\* Mutant: the foreground is not told
Accept_Silent(i) ==
    /\ web.at = "received" /\ web.i = i /\ received = slot[i].length
    /\ ready' = TRUE /\ received' = 0
    /\ ListenThen("send", i)
    /\ UNCHANGED <<slot, tcp, listenIdx, uploading, abort, command, fg>>

\* It takes it for an image; no other upload can begin any more.
Accept(i) ==
    /\ web.at = "received" /\ web.i = i /\ received = slot[i].length
    /\ ready' = TRUE /\ abort' = TRUE /\ received' = 0
    /\ ListenThen("send", i)
    /\ UNCHANGED <<slot, tcp, listenIdx, uploading, command, fg>>

\* cfe_web_tcp_send waits, with POLL and cfe_web_listen, for room in the transmit buffer.
Send(i) ==
    /\ web.at = "send" /\ web.i = i
    /\ ListenThen("send", i)
    /\ UNCHANGED <<slot, tcp, listenIdx, flags, command, fg>>

Sent(i) ==
    /\ web.at = "send" /\ web.i = i
    /\ Goto("close", i)
    /\ UNCHANGED <<slot, tcp, listenIdx, flags, command, fg>>

Close(i) ==
    /\ web.at = "close" /\ web.i = i
    /\ slot' = [slot EXCEPT ![i] = Closed]
    /\ tcp' = [tcp EXCEPT ![i] = "none"]
    /\ NextSlot(i)
    /\ UNCHANGED <<listenIdx, flags, command, fg>>

-----------------------------------------------------------------------------
(* The foreground, between two polls *)

Foreground == web.at = "out"

\* console_readline ends when the flag is set; the command loop asks cfe_web_check.
Aborted ==
    /\ Foreground /\ fg = "readline" /\ abort
    /\ abort' = FALSE
    /\ fg' = IF ready THEN "sleep" ELSE "readline"
    /\ UNCHANGED <<slot, tcp, listenIdx, uploading, received, ready, command, web>>

\* A line is typed; console_readline polls once more before it returns.
Typed ==
    /\ Foreground /\ fg = "readline" /\ ~ abort
    /\ fg' = "typed"
    /\ UNCHANGED <<slot, tcp, listenIdx, flags, command, web>>

\* The line is a command, unless there is an image to flash.  "f" and "w" load
\* into the staging buffer; "w" without an argument, and "r" when nothing boots,
\* leave the flag set.  "flashimage" loads without the flag, others ask questions.
Dispatch ==
    /\ Foreground /\ fg = "typed"
    /\ IF ready THEN fg' = "sleep" /\ UNCHANGED command
       ELSE \/ fg' = "load" /\ command' = TRUE
            \/ fg' = "readline" /\ command' = TRUE
            \/ fg' \in {"rawload", "prompt"} /\ UNCHANGED command
    /\ UNCHANGED <<slot, tcp, listenIdx, flags, web>>

\* The questions are read with console_readline, too: here the flag ends an answer.
Answered ==
    /\ Foreground /\ fg = "prompt"
    /\ abort' = FALSE
    /\ fg' \in {"prompt", "readline"}
    /\ UNCHANGED <<slot, tcp, listenIdx, uploading, received, ready, command, web>>

\* The load or the flash fails.
LoadFails ==
    /\ Foreground /\ fg \in {"load", "rawload"}
    /\ fg' = "readline"
    /\ command' = (command /\ fg = "rawload")
    /\ UNCHANGED <<slot, tcp, listenIdx, flags, web>>

\* The board is reset after a flash, and after cfe_web_fg_process whatever it did.
Flashed ==
    /\ Foreground /\ fg \in {"load", "rawload", "sleep"}
    /\ fg' = "reset"
    /\ UNCHANGED <<slot, tcp, listenIdx, flags, command, web>>

-----------------------------------------------------------------------------
(* The specification *)

HttpdInit ==
    /\ slot = [i \in Slots |-> Closed] /\ tcp = [i \in Slots |-> "none"]
    /\ listenIdx = 0 /\ received = 0
    /\ uploading = FALSE /\ ready = FALSE /\ abort = FALSE /\ command = FALSE
    /\ web = [at |-> "out"] /\ fg = "readline"

Server == \/ Poll \/ Listen
          \/ \E i \in Slots :
                \/ Skip(i) \/ Disconnect(i) \/ ReadSome(i) \/ Request(i) \/ Post(i) \/ PostGoesOn(i)
                \/ Receive(i) \/ ReceiveFails(i) \/ Pending(i) \/ UploadFailed(i)
                \/ Refuse(i) \/ Accept(i) \/ Send(i) \/ Sent(i) \/ Close(i)

HttpdNext == TcpEvent \/ Server \/ Aborted \/ Typed \/ Dispatch \/ Answered \/ LoadFails \/ Flashed

HttpdSpec == HttpdInit /\ [][HttpdNext]_httpdVars

\* The foreground polls in every loop it waits in and looks at the flag between
\* polls; a load ends, as every call of the TFTP client returns; a sleep ends.
HttpdFairSpec == /\ HttpdSpec /\ WF_httpdVars(Server)
            /\ SF_httpdVars(Aborted) /\ SF_httpdVars(Dispatch) /\ SF_httpdVars(LoadFails \/ Flashed)

-----------------------------------------------------------------------------
(* Properties *)

\* A socket may write into the staging buffer: its upload is not answered yet.
Answering(i) == /\ web.at # "out" /\ web.i = i
                /\ web.at \in {"send", "close"} \/ (web.at = "listen" /\ web.then = "send")
Writes(i) == slot[i].state = "post" /\ ~ Answering(i)

\* One socket at a time uploads into the staging buffer, and none from when an image
\* is ready to when the board is reset (g_post_data_in_progress).
OneUpload ==
    /\ \A i, j \in Slots : Writes(i) /\ Writes(j) => i = j
    /\ ready => \A i \in Slots : ~ Writes(i)

\* At most one socket waits for a connection, the one of g_listen_idx, so
\* tcp_listen never finds the port taken (cfe_web_listen).
OneListens == \A i \in Slots : tcp[i] \in {"listen", "opening"} => i = listenIdx

Sending == web.at = "send" \/ (web.at = "listen" /\ web.then = "send")

\* An image that was taken is flashed, and the board reset, without anyone at the
\* console, if no page is sent for ever and no question on the console is open
\* (cfe_web_bg_process, console_readline, cfe_command_loop).
ReadyIsFlashed ==
    [](fg # "prompt") /\ []<>~ Sending => (ready ~> fg = "reset")
=============================================================================
