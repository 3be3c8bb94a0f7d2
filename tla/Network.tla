--------------------------------- MODULE Network ---------------------------------
(* The MAIP server's requests and one network connection, with names of its   *)
(* own for what MaipServer has too, so that both can stand in one model.      *)
EXTENDS MaipServer

CONSTANTS Stream, Messages

VARIABLES
    mIsListening, mPeerSocket, inLoop, listed, mReadSignal, mReadState, mWriteSignal, mDisconnectSignal,
    nPacketContent, mWriteBuffer, thread, nWriting, remote, arrived, fresh, handed, written, requested,
    mishaps

N == INSTANCE NetPeer WITH mPacketContent <- nPacketContent, writing <- nWriting

ASSUME SizesAssumption == N!SizesFit

peerVars == <<mIsListening, mPeerSocket, inLoop, listed, mReadSignal, mReadState, mWriteSignal,
              mDisconnectSignal, nPacketContent, mWriteBuffer, thread, nWriting, remote, arrived, fresh,
              handed, written, requested, mishaps>>

\* What either end of a connection sends reaches the other in order, and a request in pieces runs
\* with the data that was sent: the known overruns, losses and mixtures aside.
DataInOrder == N!TypeOK /\ N!ReceivedInOrder /\ N!SentInOrder /\ TypeOK /\ DataWhole
===============================================================================
