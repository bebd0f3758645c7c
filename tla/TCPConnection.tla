--------------------------- MODULE TCPConnection ---------------------------
(***************************************************************************)
(* base/network/tcpconnection.go: one connection with its two goroutines,  *)
(* serve (the reader) and backgroundWrite (the writer), and any goroutines *)
(* that call Send and Shutdown.  A critical section of the mutex is one    *)
(* action; Send calls Signal after it unlocked.                            *)
(*                                                                         *)
(* A message is on the wire when its last byte was handed to the socket.   *)
(* The bufio.Writer between may hand over any part of what it holds.       *)
(***************************************************************************)
EXTENDS Naturals, Sequences, Functions

CONSTANTS
    Msgs,       \* messages; each is sent at most once, which bounds the model
    Oversize,   \* the messages the codec refuses to write (> kSizeMax)
    Senders,    \* goroutines that call Send and Shutdown
    Reader,     \* the goroutine in serve; its handler may call both, too
    MaxReads    \* bound on the messages read

ASSUME ConnectionAssumption ==
    /\ Oversize \subseteq Msgs
    /\ Reader \notin Senders
    /\ MaxReads \in Nat

Callers == Senders \cup {Reader}

VARIABLES
    bufs,       \* this.bufs
    closed,     \* this.closed
    sock,       \* this.conn: open, broken by the peer, closed by this process
    rpc,        \* where the reader is
    reads,      \* how many messages it has read
    wpc,        \* where the writer is
    out,        \* its local bufs, the part not yet written
    lastRound,  \* its local closed
    wbuf,       \* its bufio.Writer
    owes,       \* owes[t]: t has unlocked the mutex in Send and not signalled
    accepted,   \* history: the messages for which Send returned true
    wire        \* history: the messages handed to the socket

shared == <<bufs, closed>>
reader == <<rpc, reads>>
writer == <<wpc, out, lastRound, wbuf>>
hist   == <<accepted, wire>>
vars   == <<shared, sock, reader, writer, owes, hist>>

ReaderPCs == {"start", "connect", "read", "receive", "disconnect", "stop", "close", "done"}
WriterPCs == {"none", "top", "wait", "write", "fail", "close", "done"}

TypeOK ==
    /\ bufs \in Seq(Msgs)
    /\ closed \in BOOLEAN
    /\ sock \in {"open", "broken", "closed"}
    /\ rpc \in ReaderPCs
    /\ reads \in Nat
    /\ wpc \in WriterPCs
    /\ out \in Seq(Msgs)
    /\ lastRound \in BOOLEAN
    /\ wbuf \in Seq(Msgs)
    /\ owes \in [Callers -> BOOLEAN]
    /\ accepted \in Seq(Msgs)
    /\ wire \in Seq(Msgs)

Init ==
    /\ bufs = <<>>
    /\ closed = FALSE
    /\ sock = "open"
    /\ rpc = "start"
    /\ reads = 0
    /\ wpc = "none"
    /\ out = <<>>
    /\ lastRound = FALSE
    /\ wbuf = <<>>
    /\ owes = [t \in Callers |-> FALSE]
    /\ accepted = <<>>
    /\ wire = <<>>

-----------------------------------------------------------------------------
(***************************************************************************)
(* Callers.  The reader calls from inside handler.Receive.  A session, and *)
(* with it Shutdown, exists only once the handler's Connect has begun.     *)
(***************************************************************************)
CanCall(t) == ~owes[t] /\ (t = Reader => rpc = "receive")

Send(t, m) ==
    /\ CanCall(t)
    /\ m \notin Range(accepted)
    /\ ~closed
    /\ bufs' = Append(bufs, m)
    /\ accepted' = Append(accepted, m)
    /\ owes' = [owes EXCEPT ![t] = TRUE]
    /\ UNCHANGED <<closed, sock, reader, writer, wire>>

Woken == IF wpc = "wait" THEN "top" ELSE wpc

Signal(t) ==
    /\ owes[t]
    /\ owes' = [owes EXCEPT ![t] = FALSE]
    /\ wpc' = Woken
    /\ UNCHANGED <<shared, sock, reader, out, lastRound, wbuf, hist>>

\* stopBackgroundWrite signals inside its critical section.
StopWrite ==
    /\ closed' = TRUE
    /\ wpc' = IF closed THEN wpc ELSE Woken

Shutdown(t) ==
    /\ CanCall(t)
    /\ rpc # "start"
    /\ ~closed
    /\ StopWrite
    /\ UNCHANGED <<bufs, sock, reader, out, lastRound, wbuf, owes, hist>>

\* The peer or the network ends the connection ...
Break ==
    /\ sock = "open"
    /\ sock' = "broken"
    /\ UNCHANGED <<shared, reader, writer, owes, hist>>

\* ... or the owner of the listener or the client closes the socket.
CloseNow ==
    /\ sock # "closed"
    /\ sock' = "closed"
    /\ UNCHANGED <<shared, reader, writer, owes, hist>>

-----------------------------------------------------------------------------
(***************************************************************************)
(* The reader: serve and its deferred calls.                               *)
(***************************************************************************)
ReaderGoes(from, to) == rpc = from /\ rpc' = to

StartWrite ==
    /\ ReaderGoes("start", "connect")
    /\ wpc' = IF closed THEN wpc ELSE "top"
    /\ UNCHANGED <<shared, sock, reads, out, lastRound, wbuf, owes, hist>>

\* handler.Connect returns, or panics before Disconnect was deferred.
Connect ==
    /\ ReaderGoes("connect", "read") \/ ReaderGoes("connect", "stop")
    /\ UNCHANGED <<shared, sock, reads, writer, owes, hist>>

\* Messages that bufio.Reader holds are read even when the socket is closed.
Read ==
    /\ ReaderGoes("read", "receive")
    /\ reads < MaxReads
    /\ reads' = reads + 1
    /\ UNCHANGED <<shared, sock, writer, owes, hist>>

\* handler.Receive returns or panics.
EndReceive ==
    /\ ~owes[Reader]
    /\ ReaderGoes("receive", "read") \/ ReaderGoes("receive", "disconnect")
    /\ UNCHANGED <<shared, sock, reads, writer, owes, hist>>

\* The peer has ended its side, sent a frame that is too large, or the
\* socket is broken or closed.
ReadError ==
    /\ ReaderGoes("read", "disconnect")
    /\ UNCHANGED <<shared, sock, reads, writer, owes, hist>>

Disconnect ==
    /\ ReaderGoes("disconnect", "stop")
    /\ UNCHANGED <<shared, sock, reads, writer, owes, hist>>

ReaderStops ==
    /\ ReaderGoes("stop", "close")
    /\ StopWrite
    /\ UNCHANGED <<bufs, sock, reads, out, lastRound, wbuf, owes, hist>>

ReaderCloses ==
    /\ ReaderGoes("close", "done")
    /\ sock' = "closed"
    /\ UNCHANGED <<shared, reads, writer, owes, hist>>

-----------------------------------------------------------------------------
(***************************************************************************)
(* The writer: backgroundWrite.                                            *)
(***************************************************************************)
Wait ==
    /\ wpc = "top"
    /\ ~closed /\ bufs = <<>>
    /\ wpc' = "wait"
    /\ UNCHANGED <<shared, sock, reader, out, lastRound, wbuf, owes, hist>>

\* Faulty variant: bufs is copied and not reset.
SwapKeepsBufs ==
    /\ wpc = "top"
    /\ closed \/ bufs # <<>>
    /\ out' = bufs
    /\ lastRound' = closed
    /\ wpc' = "write"
    /\ UNCHANGED <<shared, sock, reader, wbuf, owes, hist>>

Swap ==
    /\ wpc = "top"
    /\ closed \/ bufs # <<>>
    /\ out' = bufs
    /\ bufs' = <<>>
    /\ lastRound' = closed
    /\ wpc' = "write"
    /\ UNCHANGED <<closed, sock, reader, wbuf, owes, hist>>

\* codec.Write: the buffer takes the message and may hand over any part of
\* what it holds, which takes an open socket.
Write ==
    /\ wpc = "write"
    /\ out # <<>> /\ Head(out) \notin Oversize
    /\ out' = Tail(out)
    /\ LET held == Append(wbuf, Head(out))
       IN  \E k \in 0 .. Len(held) :
              /\ k > 0 => sock = "open"
              /\ wire' = wire \o SubSeq(held, 1, k)
              /\ wbuf' = SubSeq(held, k + 1, Len(held))
    /\ UNCHANGED <<shared, sock, reader, wpc, lastRound, owes, accepted>>

WriteFails ==
    /\ wpc = "write"
    /\ out # <<>>
    /\ Head(out) \in Oversize \/ sock # "open"
    /\ wpc' = "fail"
    /\ UNCHANGED <<shared, sock, reader, out, lastRound, wbuf, owes, hist>>

\* Faulty variant: the loop ends on the flag of the moment instead of the
\* one it read together with bufs.
FlushRereads ==
    /\ wpc = "write"
    /\ out = <<>>
    /\ wbuf = <<>> \/ sock = "open"
    /\ wire' = wire \o wbuf
    /\ wbuf' = <<>>
    /\ wpc' = IF closed THEN "close" ELSE "top"
    /\ UNCHANGED <<shared, sock, reader, out, lastRound, owes, accepted>>

Flush ==
    /\ wpc = "write"
    /\ out = <<>>
    /\ wbuf = <<>> \/ sock = "open"
    /\ wire' = wire \o wbuf
    /\ wbuf' = <<>>
    /\ wpc' = IF lastRound THEN "close" ELSE "top"
    /\ UNCHANGED <<shared, sock, reader, out, lastRound, owes, accepted>>

FlushFails ==
    /\ wpc = "write"
    /\ out = <<>> /\ wbuf # <<>>
    /\ sock # "open"
    /\ wpc' = "fail"
    /\ UNCHANGED <<shared, sock, reader, out, lastRound, wbuf, owes, hist>>

\* closeSend: no more messages are accepted; nobody is signalled.
CloseSend ==
    /\ wpc = "fail"
    /\ closed' = TRUE
    /\ wpc' = "close"
    /\ UNCHANGED <<bufs, sock, reader, out, lastRound, wbuf, owes, hist>>

\* Faulty variant: backgroundWrite returns without conn.Close().
WriterLeavesOpen ==
    /\ wpc = "close"
    /\ wpc' = "done"
    /\ UNCHANGED <<shared, sock, reader, out, lastRound, wbuf, owes, hist>>

WriterCloses ==
    /\ wpc = "close"
    /\ sock' = "closed"
    /\ wpc' = "done"
    /\ UNCHANGED <<shared, reader, out, lastRound, wbuf, owes, hist>>

ReaderStep ==
    \/ StartWrite \/ Connect \/ EndReceive \/ Disconnect \/ ReaderStops \/ ReaderCloses
    \/ sock # "open" /\ ReadError

WriterStep ==
    \/ Wait \/ Swap \/ Write \/ WriteFails \/ Flush \/ FlushFails
    \/ CloseSend \/ WriterCloses

Next ==
    \/ \E t \in Callers : (\E m \in Msgs : Send(t, m)) \/ Signal(t) \/ Shutdown(t)
    \/ Break \/ CloseNow
    \/ Read \/ ReadError \/ ReaderStep
    \/ WriterStep

(***************************************************************************)
(* Handlers return or panic, a read on a broken or closed socket returns,  *)
(* a write to the socket does not block for ever (the peer reads, or the   *)
(* connection breaks), and a goroutine that unlocked goes on to signal.    *)
(* Nobody is obliged to send, and no message need arrive.                  *)
(***************************************************************************)
Fairness ==
    /\ WF_vars(ReaderStep)
    /\ WF_vars(WriterStep)
    /\ \A t \in Callers : WF_vars(Signal(t))

Spec     == Init /\ [][Next]_vars
FairSpec == Spec /\ Fairness

-----------------------------------------------------------------------------
(***************************************************************************)
(* Properties                                                              *)
(***************************************************************************)

\* No message is lost, duplicated or reordered between Send and the socket,
\* through the swap (tcpconnection.go:117), the codec and the bufio.Writer;
\* a message that is never written stays where the writer gave up.
InTransit == accepted = wire \o wbuf \o out \o bufs

\* The writer never sleeps on messages or on a shutdown unless the sender
\* still has its Signal (tcpconnection.go:172) ahead of it.
NoLostWakeup ==
    wpc = "wait" /\ (closed \/ bufs # <<>>) => \E t \in Callers : owes[t]

\* The round in which the writer sees closed is the last (tcpconnection.go
\* :110, :118): no message was accepted behind it, by Send's own test.
LastRoundIsLast ==
    /\ rpc = "start" => wpc = "none"
    /\ lastRound => closed /\ bufs = <<>>
    /\ wpc \in {"none", "top", "wait"} => out = <<>> /\ wbuf = <<>> /\ ~lastRound
    /\ wpc = "fail" => sock # "open" \/ Range(accepted) \cap Oversize # {}
    /\ wpc \in {"close", "done"}
          => \/ lastRound /\ out = <<>> /\ wbuf = <<>>
             \/ closed /\ (sock # "open" \/ Range(accepted) \cap Oversize # {})

\* The abstract promise, with the history variables as its state.
Pipe == INSTANCE SendPipe WITH
            shut   <- closed,
            faulty <- (sock # "open" \/ Range(accepted) \cap Oversize # {}),
            ended  <- (wpc \in {"close", "done"})

PipeSpec == Pipe!Spec

\* Neither goroutine outlives the other (tcpconnection.go:63, :71, :105):
\* when the reader ends the writer is stopped, and when the writer ends it
\* closes the socket under the reader.
BothEnd ==
    (rpc = "done" \/ wpc = "done") ~> (rpc = "done" /\ wpc = "done")
=============================================================================
