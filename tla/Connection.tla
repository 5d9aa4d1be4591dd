------------------------------- MODULE Connection -------------------------------
(* The threads of one connection: spawn_connector() in bt/src/engine.rs with *)
(* read_message() and write_message() of bt/src/peer.rs.  The connector      *)
(* connects, reports, and becomes the reader; a writer sends what the engine *)
(* gives it.  They share a socket, and with the engine two channels.  The    *)
(* remote end sends a script of frames over and over, in pieces of any size, *)
(* or closes.  Swarm has all of this as one variable, thread; that it may is *)
(* ImplementsLink.                                                           *)
EXTENDS Wire

CONSTANTS
    Scripts,        \* sequences of [bytes, means]: a frame, and the message that it is
    MaxAvail,       \* bound: bytes received and not read
    MaxInbox,       \* bound: of the channel to the engine
    MaxOutbox       \* bound: of the channel to the writer

FrameLength(bytes) == FromBytes(SubSeq(bytes, 1, 4))

(* a frame is whole, or its length says that it is too long *)
ASSUME ScriptsAssumption ==
    /\ MaxFrame \in Nat /\ Bad \notin AnyMessage
    /\ \A s \in Scripts :
        /\ s \in Seq([bytes : Seq(Byte), means : AnyMessage \cup {Bad}]) /\ s # <<>>
        /\ \A k \in DOMAIN s :
            /\ Len(s[k].bytes) >= 4
            /\ IF FrameLength(s[k].bytes) > MaxFrame THEN s[k].means = Bad
               ELSE /\ Len(s[k].bytes) = 4 + FrameLength(s[k].bytes)
                    /\ s[k].means = Parsed(SubSeq(s[k].bytes, 5, Len(s[k].bytes)))

VARIABLES
    (* the remote end and the network *)
    script, remote,     \* "up", or "closed"
    avail,              \* bytes received and not read
    (* the connection's threads *)
    reader,             \* "connecting", "connected": not reported yet, "reading", "ended"
    nth, off,           \* which frame of the script is read, and how much of it is
    writer,             \* "none", "running", "ended"
    socket,             \* "open", or "shut" in both directions by us
    inbox,              \* channel to the engine
    outbox,             \* messages in the channel to the writer
    (* the engine *)
    engine,             \* "waiting" for the report, "peer" in its map, "removed" from it,
                        \* "replaced" in it, "ended": download() is about to return, "over"
    gone,               \* it handled ConnectFailed or Died
    heard, last         \* see Link

remoteVars == <<script, remote>>
readerVars == <<reader, nth, off>>
engineVars == <<engine, gone, heard, last>>
vars == <<remoteVars, avail, readerVars, writer, socket, inbox, outbox, engineVars>>

ConnectedIn == [what |-> "connected"]
ConnectFailedIn == [what |-> "failed"]
DiedIn == [what |-> "died"]
MsgIn(m) == [what |-> "message", message |-> m]

Init ==
    /\ script \in Scripts /\ remote = "up" /\ avail = 0
    /\ reader = "connecting" /\ nth = 1 /\ off = 0 /\ writer = "none" /\ socket = "open"
    /\ inbox = <<>> /\ outbox = 0
    /\ engine = "waiting" /\ gone = FALSE /\ heard = 0 /\ last = Bad

-----------------------------------------------------------------------------
(* tx_in.send(): fails when the engine is over *)
Send(in) ==
    IF engine = "over" THEN UNCHANGED inbox
    ELSE Len(inbox) < MaxInbox /\ inbox' = Append(inbox, in)

\* mutant: the connector returns without a word
ConnectFailsSilently ==
    /\ reader = "connecting" /\ reader' = "ended"
    /\ UNCHANGED <<remoteVars, avail, nth, off, writer, socket, inbox, outbox, engineVars>>
(* connect, handshake or cloning the socket fails *)
ConnectFails ==
    /\ reader = "connecting" /\ reader' = "ended"
    /\ Send(ConnectFailedIn)
    /\ UNCHANGED <<remoteVars, avail, nth, off, writer, socket, outbox, engineVars>>

Handshaken ==
    /\ reader = "connecting" /\ remote = "up"
    /\ reader' = "connected" /\ writer' = "running"
    /\ UNCHANGED <<remoteVars, avail, nth, off, socket, inbox, outbox, engineVars>>

Reports ==
    /\ reader = "connected"
    /\ reader' = IF engine = "over" THEN "ended" ELSE "reading"
    /\ Send(ConnectedIn)
    /\ UNCHANGED <<remoteVars, avail, nth, off, writer, socket, outbox, engineVars>>

-----------------------------------------------------------------------------
(* read_message(): a length, then so many bytes *)
Bytes == script[nth].bytes
Announced == FrameLength(Bytes)
TooLong == off = 4 /\ Announced > MaxFrame
\* bytes to read before the frame is whole, or its length known
Needed == IF off < 4 THEN 4 - off ELSE 4 + Announced - off

(* read() inside read_exact() returns any number of the bytes there are *)
Reads ==
    /\ reader = "reading" /\ ~TooLong
    /\ \E n \in 1 .. avail :
        n <= Needed /\ off' = off + n /\ avail' = avail - n
    /\ UNCHANGED <<remoteVars, reader, nth, writer, socket, inbox, outbox, engineVars>>

\* the reader's end, with Died
Dies ==
    /\ reader' = "ended" /\ Send(DiedIn)
    /\ UNCHANGED <<remoteVars, avail, nth, off, writer, socket, outbox, engineVars>>

\* mutant: a bad frame is skipped
ForwardsSkipping(m) ==
    /\ IF m = Bad THEN UNCHANGED <<reader, inbox>>
       ELSE Send(MsgIn(m)) /\ reader' = IF engine = "over" THEN "ended" ELSE "reading"
    /\ nth' = (nth % Len(script)) + 1 /\ off' = 0
    /\ UNCHANGED <<remoteVars, avail, writer, socket, outbox, engineVars>>
Forwards(m) ==
    IF m = Bad THEN Dies
    ELSE /\ Send(MsgIn(m)) /\ reader' = IF engine = "over" THEN "ended" ELSE "reading"
         /\ nth' = (nth % Len(script)) + 1 /\ off' = 0
         /\ UNCHANGED <<remoteVars, avail, writer, socket, outbox, engineVars>>

FrameRead ==
    /\ reader = "reading" /\ off >= 4 /\ ~TooLong /\ Needed = 0
    /\ Forwards(Parsed(SubSeq(Bytes, 5, off)))

FrameTooLong == reader = "reading" /\ TooLong /\ Dies

(* read() fails: nothing comes for 120 s or nothing can come any more, or    *)
(* the remote end reset the connection                                       *)
ReadFails ==
    /\ reader = "reading" /\ Needed > 0
    /\ avail = 0 \/ remote = "closed"
    /\ Dies

-----------------------------------------------------------------------------
(* the sender of the writer's channel is with the connector, in a report     *)
(* that waits, or in the engine's map                                        *)
SenderLives ==
    reader = "connected" \/ engine = "peer" \/ (\E k \in 1 .. Len(inbox) : inbox[k] = ConnectedIn)

WriterSends ==
    /\ writer = "running" /\ outbox > 0 /\ socket = "open"
    /\ outbox' = outbox - 1
    /\ UNCHANGED <<remoteVars, avail, readerVars, writer, socket, inbox, engineVars>>

(* of a message or a KeepAlive, at once or after 120 s: the thread ends and  *)
(* what is queued is lost, but the socket stays as it is                     *)
WriterFails ==
    /\ writer = "running" /\ writer' = "ended" /\ outbox' = 0
    /\ UNCHANGED <<remoteVars, avail, readerVars, socket, inbox, engineVars>>

WriterDone ==
    /\ writer = "running" /\ outbox = 0 /\ ~SenderLives
    /\ writer' = "ended" /\ socket' = "shut"
    /\ UNCHANGED <<remoteVars, avail, readerVars, inbox, outbox, engineVars>>

-----------------------------------------------------------------------------
Takes(what) ==
    /\ engine \notin {"ended", "over"} /\ inbox # <<>> /\ Head(inbox).what = what
    /\ inbox' = Tail(inbox)

(* handle() *)
HandlesConnected ==
    /\ Takes("connected") /\ engine' = "peer"
    /\ \E n \in {0, 1} : outbox' = IF writer = "ended" THEN 0 ELSE n    \* the Bitfield
    /\ UNCHANGED <<remoteVars, avail, readerVars, writer, socket, gone, heard, last>>

HandlesFailed ==
    /\ Takes("failed") /\ engine' = "removed" /\ gone' = TRUE
    /\ UNCHANGED <<remoteVars, avail, readerVars, writer, socket, outbox, heard, last>>

HandlesMessage ==
    /\ Takes("message")
    /\ last' = Head(inbox).message /\ heard' = (heard + 1) % Len(script)
    /\ UNCHANGED <<remoteVars, avail, readerVars, writer, socket, outbox, engine, gone>>

\* mutant: the peer is forgotten and its socket left open
ShutNever == socket
\* the socket after remove_peer()
Shut == "shut"

HandlesDied ==
    /\ Takes("died") /\ gone' = TRUE
    /\ engine' = IF engine = "peer" THEN "removed" ELSE engine
    /\ socket' = IF engine = "peer" THEN Shut ELSE socket
    /\ UNCHANGED <<remoteVars, avail, readerVars, writer, outbox, heard, last>>

(* the engine sends a message; when the writer is gone it removes the peer   *)
(* or, of some messages, ignores it                                          *)
Says ==
    /\ engine = "peer" /\ writer = "running" /\ outbox < MaxOutbox
    /\ outbox' = outbox + 1
    /\ UNCHANGED <<remoteVars, avail, readerVars, writer, socket, inbox, engineVars>>

(* for this reason or another *)
Removes ==
    /\ engine = "peer" /\ engine' = "removed" /\ socket' = Shut
    /\ UNCHANGED <<remoteVars, avail, readerVars, writer, inbox, outbox, gone, heard, last>>

(* HashMap::insert() of another peer with the same id *)
Replaces ==
    /\ engine = "peer" /\ engine' = "replaced"
    /\ UNCHANGED <<remoteVars, avail, readerVars, writer, socket, inbox, outbox, gone, heard, last>>

(* download() closes the sockets of its map and announces *)
Ends ==
    /\ engine \notin {"ended", "over"} /\ engine' = "ended"
    /\ socket' = IF engine = "peer" THEN Shut ELSE socket
    /\ UNCHANGED <<remoteVars, avail, readerVars, writer, inbox, outbox, gone, heard, last>>

(* and returns, which drops the channel and what is in it *)
Returns ==
    /\ engine = "ended" /\ engine' = "over" /\ inbox' = <<>>
    /\ UNCHANGED <<remoteVars, avail, readerVars, writer, socket, outbox, gone, heard, last>>

-----------------------------------------------------------------------------
(* bytes arrive; none do when the socket is shut or nobody has it any more *)
Arrives ==
    /\ remote = "up" /\ socket = "open" /\ reader = "reading" /\ avail < MaxAvail
    /\ avail' = avail + 1
    /\ UNCHANGED <<remoteVars, readerVars, writer, socket, inbox, outbox, engineVars>>

RemoteCloses ==
    /\ remote = "up" /\ remote' = "closed"
    /\ UNCHANGED <<script, avail, readerVars, writer, socket, inbox, outbox, engineVars>>

Ended ==
    /\ engine = "over" /\ reader = "ended" /\ writer # "running"
    /\ UNCHANGED vars

Reader == ConnectFails \/ Handshaken \/ Reports \/ Reads \/ FrameRead \/ FrameTooLong \/ ReadFails
Writer == WriterSends \/ WriterFails \/ WriterDone
Handles == HandlesConnected \/ HandlesFailed \/ HandlesMessage \/ HandlesDied
Next ==
    \/ Reader \/ Writer \/ Handles
    \/ Says \/ Removes \/ Replaces \/ Ends \/ Returns
    \/ Arrives \/ RemoteCloses \/ Ended

(* threads run, every wait in them has a timeout, and the engine empties its *)
(* channel while it is there.  A writer with nothing to send need not fail,  *)
(* and nothing is assumed of the remote end.                                 *)
Fairness ==
    /\ WF_vars(Reader) /\ WF_vars(Handles) /\ WF_vars(Returns)
    /\ WF_vars(WriterSends \/ WriterDone \/ (outbox > 0 /\ WriterFails))

Spec == Init /\ [][Next]_vars /\ Fairness

-----------------------------------------------------------------------------
(* what Swarm calls thread: until the report is handled "connecting" *)
Status ==
    IF engine \in {"ended", "over"} THEN "over"
    ELSE IF engine = "waiting" THEN "connecting"
    ELSE IF gone THEN "gone"
    ELSE IF socket = "open" THEN "open" ELSE "shut"

Meanings == [k \in 1 .. Len(script) |-> script[k].means]

Abstract == INSTANCE Link WITH script <- Meanings, status <- Status

(* To the engine the threads look as Swarm has them: one report, then what   *)
(* the peer sent, whole, in order, without gaps and nothing after a bad      *)
(* frame, however the bytes are cut and whatever the engine does meanwhile,  *)
(* then Died once and last.                                                  *)
ImplementsLink == Abstract!Spec

(* Every connector reports: the engine's count of them goes down again. *)
ReportsBack == engine = "waiting" ~> engine # "waiting"

(* No thread outlives its use: when the engine has removed the peer or       *)
(* returned, the reader and the writer end, whatever the remote end sends.   *)
(* (Of a replaced peer this is not so while the engine runs: WriterFails.)   *)
ThreadsEnd == engine \in {"removed", "over"} ~> reader = "ended" /\ writer # "running"
=============================================================================
