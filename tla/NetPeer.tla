--------------------------------- MODULE NetPeer ---------------------------------
(***************************************************************************)
(* One connection of a PcNetTcpServer (pc/pc_net_manager.cpp), from its    *)
(* acceptance to its end.  Two threads share the PcNetPeerClient: the one  *)
(* of PcNetManager, which accepts, receives and sends (update_t), and the  *)
(* owner's, which runs the callbacks (update) and asks for reads and       *)
(* writes.  What they share is three pairs of flags and two buffers, none  *)
(* of them locked.                                                         *)
(*                                                                         *)
(* recv writes at the front of mPacketContent and on_data is handed the    *)
(* whole of it, whose length is that of the buffer and not of what came.   *)
(***************************************************************************)
EXTENDS Naturals, SequencesExt

CONSTANTS
    BufferSize,     \* gNetDefaultPacketSize
    Stream,         \* bound: bytes the remote sends, which are numbered from 1
    Messages        \* bound: messages the owner writes, of two bytes each

SizesFit == {BufferSize, Stream, Messages} \subseteq Nat

VARIABLES
    mIsListening,
    mPeerSocket,            \* "none", "open" or "closed" (-1)
    inLoop,                 \* in mConnectedClientsProcessLoop
    listed,                 \* "no", "accepted" (mAcceptClients), "connected" (mConnectedClients)
                            \* or "disconnected", after on_disconnect
    mReadSignal, mReadState, mWriteSignal, mDisconnectSignal,
    mPacketContent,         \* [1..BufferSize -> byte]
    mWriteBuffer,           \* a sequence of bytes <<message, number>>
    thread,                 \* where update_t is
    writing,                \* the owner is between write_data and send_write_signal
    remote,                 \* [sent, read, closed]: bytes sent and received so far
    arrived,                \* the bytes the remote has got
    fresh,                  \* history: bytes of the last recv that were not handed over
    handed,                 \* history: the bytes on_data found in front
    written,                \* history: the bytes write_data accepted
    requested,              \* history: a read was asked for and no data handed over since
    mishaps                 \* history: "overrun", "unasked", "cut", "wiped", "failed"

socketVars == <<mIsListening, mPeerSocket, inLoop, listed>>
readVars == <<mReadSignal, mReadState, mPacketContent, fresh, handed, requested>>
writeVars == <<mWriteSignal, mWriteBuffer, writing, arrived, written>>
vars == <<socketVars, readVars, writeVars, mDisconnectSignal, thread, remote, mishaps>>

Bytes == {<<m, i>> : m \in 1..Messages, i \in 1..2}

TypeOK ==
    /\ mIsListening \in BOOLEAN /\ mPeerSocket \in {"none", "open", "closed"}
    /\ inLoop \in BOOLEAN /\ listed \in {"no", "accepted", "connected", "disconnected"}
    /\ {mReadSignal, mReadState, mWriteSignal, mDisconnectSignal} \subseteq BOOLEAN
    /\ mPacketContent \in [1..BufferSize -> 0..Stream]
    /\ Range(mWriteBuffer) \subseteq Bytes /\ Len(mWriteBuffer) <= 2
    /\ thread \in {"top", "read", "received", "write", "sent", "clear"}
    /\ writing \in BOOLEAN /\ requested \in BOOLEAN
    /\ remote \in [sent : 0..Stream, read : 0..Stream, closed : BOOLEAN] /\ remote.read <= remote.sent
    /\ Range(arrived) \subseteq Bytes /\ Range(written) \subseteq Bytes
    /\ fresh \in 0..BufferSize /\ Range(handed) \subseteq 0..Stream
    /\ mishaps \subseteq {"overrun", "unasked", "cut", "wiped", "failed"}

Init ==
    /\ mIsListening = FALSE /\ mPeerSocket = "none" /\ inLoop = FALSE /\ listed = "no"
    /\ mReadSignal = FALSE /\ mReadState = FALSE
    /\ mWriteSignal = FALSE /\ mDisconnectSignal = FALSE
    /\ mPacketContent = [i \in 1..BufferSize |-> 0]
    /\ mWriteBuffer = <<>>
    /\ thread = "top" /\ writing = FALSE
    /\ remote = [sent |-> 0, read |-> 0, closed |-> FALSE]
    /\ arrived = <<>> /\ fresh = 0 /\ handed = <<>> /\ written = <<>> /\ requested = FALSE
    /\ mishaps = {}

is_connected == ~mDisconnectSignal /\ mPeerSocket = "open"
Happens(what) == mishaps' = mishaps \cup what

-----------------------------------------------------------------------------
(* The remote.                                                             *)

RemoteSends ==
    /\ mPeerSocket # "none" /\ ~remote.closed /\ remote.sent < Stream
    /\ remote' = [remote EXCEPT !.sent = @ + 1]
    /\ UNCHANGED <<socketVars, readVars, writeVars, mDisconnectSignal, thread, mishaps>>

RemoteCloses ==
    /\ mPeerSocket # "none" /\ ~remote.closed
    /\ remote' = [remote EXCEPT !.closed = TRUE]
    /\ UNCHANGED <<socketVars, readVars, writeVars, mDisconnectSignal, thread, mishaps>>

-----------------------------------------------------------------------------
(* The thread of PcNetManager.                                             *)

\* A connection is waiting and accept() finds it
Accept ==
    /\ thread = "top" /\ mIsListening /\ mPeerSocket = "none"
    /\ mPeerSocket' = "open" /\ inLoop' = TRUE /\ listed' = "accepted"
    /\ UNCHANGED <<mIsListening, readVars, writeVars, mDisconnectSignal, thread, remote, mishaps>>

\* _destroy_peer, and the connection leaves the loop
DestroyPeer ==
    /\ mPeerSocket' = "closed" /\ inLoop' = FALSE
    /\ mDisconnectSignal' = FALSE /\ mReadSignal' = FALSE /\ mReadState' = FALSE
    /\ mWriteSignal' = FALSE /\ mWriteBuffer' = <<>>
    /\ thread' = "top"
    /\ UNCHANGED <<mIsListening, listed, mPacketContent, fresh, handed, requested, writing, arrived,
                   written, remote>>

LoopDisconnected ==
    /\ thread = "top" /\ inLoop
    /\ ~is_connected
    /\ DestroyPeer
    /\ UNCHANGED mishaps

Goto(p) ==
    /\ thread' = p
    /\ UNCHANGED <<socketVars, readVars, writeVars, mDisconnectSignal, remote, mishaps>>

Available == remote.sent - remote.read
LoopConnected == thread = "top" /\ inLoop /\ is_connected /\ Goto("read")
NothingToRead ==
    /\ thread = "read"
    /\ ~mReadSignal \/ (Available = 0 /\ ~remote.closed)
    /\ Goto("write")

\* recv returns 0, or fails for good
ReadFails ==
    /\ thread = "read" /\ mReadSignal
    /\ DestroyPeer
    /\ \/ Available = 0 /\ remote.closed /\ UNCHANGED mishaps
       \/ Happens({"failed"})

\* recv and set_signal_state, with the test of mReadSignal before them in one step. An update() that
\* falls between them finds data of an earlier recv: a read was asked for before those were handed
\* over, which is the overrun named here.
Recv(n) ==
    /\ thread = "read" /\ mReadSignal
    /\ n \in 1..Available /\ n <= BufferSize
    /\ mPacketContent' = [i \in 1..BufferSize |->
                            IF i <= n THEN remote.read + i ELSE mPacketContent[i]]
    /\ remote' = [remote EXCEPT !.read = @ + n]
    /\ fresh' = n
    /\ mReadState' = TRUE
    /\ thread' = "received"
    /\ IF mReadState THEN Happens({"overrun"}) ELSE UNCHANGED mishaps
    /\ UNCHANGED <<socketVars, mReadSignal, handed, requested, writeVars, mDisconnectSignal>>

\* reset_signal: a read asked for since set_signal_state is forgotten
ResetRead ==
    /\ thread = "received"
    /\ mReadSignal' = FALSE
    /\ IF requested /\ ~mReadState THEN Happens({"unasked"}) ELSE UNCHANGED mishaps
    /\ thread' = "write"
    /\ UNCHANGED <<socketVars, mReadState, mPacketContent, fresh, handed, requested, writeVars,
                   mDisconnectSignal, remote>>

\* No write was asked for, or the network is full
NothingToWrite == thread = "write" /\ Goto("top")

\* send fails for good, or returns 0 because there is nothing in the buffer
WriteFails ==
    /\ thread = "write" /\ mWriteSignal
    /\ DestroyPeer
    /\ \/ mWriteBuffer = <<>> /\ UNCHANGED mishaps
       \/ Happens({"failed"})

Send(n) ==
    /\ thread = "write" /\ mWriteSignal
    /\ n \in 1..Len(mWriteBuffer)
    /\ arrived' = arrived \o SubSeq(mWriteBuffer, 1, n)
    /\ IF n < Len(mWriteBuffer) THEN Happens({"cut"}) ELSE UNCHANGED mishaps
    /\ thread' = "sent"
    /\ UNCHANGED <<socketVars, readVars, mWriteSignal, mWriteBuffer, writing, written,
                   mDisconnectSignal, remote>>

\* reset_signal_with_state: write_data is accepted from here on
ResetWrite ==
    /\ thread = "sent"
    /\ mWriteSignal' = FALSE
    /\ thread' = "clear"
    /\ UNCHANGED <<socketVars, readVars, mWriteBuffer, writing, arrived, written, mDisconnectSignal,
                   remote, mishaps>>

\* clear(): what was written since goes as well
ClearWrite ==
    /\ thread = "clear"
    /\ mWriteBuffer' = <<>>
    /\ IF writing \/ mWriteSignal THEN Happens({"wiped"}) ELSE UNCHANGED mishaps
    /\ thread' = "top"
    /\ UNCHANGED <<socketVars, readVars, mWriteSignal, writing, arrived, written, mDisconnectSignal,
                   remote>>

-----------------------------------------------------------------------------
(* The owner.                                                              *)

Listen ==
    /\ ~mIsListening
    /\ mIsListening' = TRUE
    /\ UNCHANGED <<mPeerSocket, inLoop, listed, readVars, writeVars, mDisconnectSignal, thread, remote,
                   mishaps>>
Stop ==
    /\ mIsListening
    /\ mIsListening' = FALSE
    /\ UNCHANGED <<mPeerSocket, inLoop, listed, readVars, writeVars, mDisconnectSignal, thread, remote,
                   mishaps>>

\* send_read_signal, from on_accept, on_data or any callback of the application
SendReadSignal ==
    /\ listed = "connected" /\ is_connected
    /\ mReadSignal' = TRUE
    /\ requested' = TRUE
    /\ UNCHANGED <<socketVars, mReadState, mPacketContent, fresh, handed, writeVars,
                   mDisconnectSignal, thread, remote, mishaps>>

Message(m) == <<<<m, 1>>, <<m, 2>>>>
NextMessage == Len(written) \div 2 + 1

\* mutant of WriteData: a write under way is not looked for
WriteDataAlways ==
    /\ listed = "connected" /\ is_connected /\ ~writing
    /\ NextMessage <= Messages
    /\ mWriteBuffer' = Message(NextMessage)
    /\ written' = written \o Message(NextMessage)
    /\ writing' = TRUE
    /\ UNCHANGED <<socketVars, readVars, mWriteSignal, arrived, mDisconnectSignal, thread, remote,
                   mishaps>>

WriteData ==
    /\ listed = "connected" /\ is_connected /\ ~writing
    /\ ~mWriteSignal
    /\ NextMessage <= Messages
    /\ mWriteBuffer' = Message(NextMessage)
    /\ written' = written \o Message(NextMessage)
    /\ writing' = TRUE
    /\ UNCHANGED <<socketVars, readVars, mWriteSignal, arrived, mDisconnectSignal, thread, remote,
                   mishaps>>

\* send_write_signal, refused without a connection or data
SendWriteSignal ==
    /\ writing
    /\ mWriteSignal' = (mWriteSignal \/ (is_connected /\ mWriteBuffer # <<>>))
    /\ writing' = FALSE
    /\ UNCHANGED <<socketVars, readVars, mWriteBuffer, arrived, written, mDisconnectSignal, thread,
                   remote, mishaps>>

Disconnect ==
    /\ listed = "connected" /\ is_connected
    /\ mDisconnectSignal' = TRUE
    /\ UNCHANGED <<socketVars, readVars, writeVars, thread, remote, mishaps>>

\* update(), first loop: on_accept
UpdateAccept ==
    /\ listed = "accepted"
    /\ listed' = "connected"
    /\ UNCHANGED <<mIsListening, mPeerSocket, inLoop, readVars, writeVars, mDisconnectSignal, thread,
                   remote, mishaps>>

\* mutant of UpdateDisconnected: only what the application disconnected is reported
UpdateDisconnectedAsked ==
    /\ listed = "connected" /\ mDisconnectSignal
    /\ listed' = "disconnected"
    /\ UNCHANGED <<mIsListening, mPeerSocket, inLoop, readVars, writeVars, mDisconnectSignal, thread,
                   remote, mishaps>>

UpdateDisconnected ==
    /\ listed = "connected" /\ ~is_connected
    /\ listed' = "disconnected"
    /\ UNCHANGED <<mIsListening, mPeerSocket, inLoop, readVars, writeVars, mDisconnectSignal, thread,
                   remote, mishaps>>

\* mutant of UpdateData: the flag of the read stays up
UpdateDataAgain ==
    /\ listed = "connected" /\ is_connected
    /\ mReadState
    /\ handed' = handed \o SubSeq(mPacketContent, 1, fresh)
    /\ mReadSignal' = FALSE /\ Len(handed) < 2 * Stream
    /\ requested' = FALSE
    /\ UNCHANGED <<socketVars, mPacketContent, fresh, mReadState, writeVars, mDisconnectSignal, thread,
                   remote, mishaps>>

\* mutant of UpdateData: data is handed over when no more is waiting in the socket
UpdateDataLast ==
    /\ listed = "connected" /\ is_connected
    /\ mReadState /\ Available = 0
    /\ handed' = handed \o SubSeq(mPacketContent, 1, fresh)
    /\ fresh' = 0
    /\ mReadSignal' = FALSE /\ mReadState' = FALSE
    /\ requested' = FALSE
    /\ UNCHANGED <<socketVars, mPacketContent, writeVars, mDisconnectSignal, thread, remote, mishaps>>

\* on_data, with the test of the read state and its reset before it in one step; a recv that falls
\* between them is an overrun (see Recv)
UpdateData ==
    /\ listed = "connected" /\ is_connected
    /\ mReadState
    /\ handed' = handed \o SubSeq(mPacketContent, 1, fresh)
    /\ fresh' = 0
    /\ mReadSignal' = FALSE /\ mReadState' = FALSE
    /\ requested' = FALSE
    /\ UNCHANGED <<socketVars, mPacketContent, writeVars, mDisconnectSignal, thread, remote, mishaps>>

-----------------------------------------------------------------------------

Thread ==
    \/ Accept \/ LoopDisconnected \/ LoopConnected
    \/ NothingToRead \/ ReadFails \/ (\E n \in 1..BufferSize : Recv(n)) \/ ResetRead
    \/ NothingToWrite \/ WriteFails \/ (\E n \in 1..2 : Send(n)) \/ ResetWrite \/ ClearWrite
Update == UpdateAccept \/ UpdateDisconnected \/ UpdateData
Application == Listen \/ Stop \/ SendReadSignal \/ WriteData \/ SendWriteSignal \/ Disconnect
Remote == RemoteSends \/ RemoteCloses

Next == Thread \/ Update \/ Application \/ Remote

Fairness == WF_vars(Thread) /\ WF_vars(UpdateAccept) /\ WF_vars(UpdateDisconnected) /\ WF_vars(UpdateData)
Spec == Init /\ [][Next]_vars /\ Fairness

-----------------------------------------------------------------------------

\* on_data finds the bytes the remote sent in front of its buffer, each once and in order, unless
\* a read was asked for while data waited for update(): recv then overwrites it
\* (send_read_signal does not look at the state of the read).
ReceivedInOrder == "overrun" \notin mishaps => \A i \in 1..Len(handed) : handed[i] = i

\* What arrives at the remote is the beginning of what write_data accepted, unless send took a
\* part of the buffer or the buffer was cleared over a new message (update_t).
SentInOrder == mishaps \cap {"cut", "wiped"} = {} => IsPrefix(arrived, written)

\* A read asked for while bytes are there ends in on_data or with the connection, unless update()
\* and the callback ran between set_signal_state and reset_signal.
ReadServed ==
    requested /\ Available > 0 ~> ~requested \/ "unasked" \in mishaps \/ ~is_connected

\* A connection that ended, by either side, is reported once it was accepted (on_disconnect).
DisconnectReported == mPeerSocket = "closed" ~> listed = "disconnected"
===============================================================================
