------------------------ MODULE TCPConnectionProofs ------------------------
(***************************************************************************)
(* What a connection of base/network guarantees for any messages, any      *)
(* number of sending goroutines and any length of the run.                 *)
(***************************************************************************)
EXTENDS TCPConnection, SequenceTheorems, TLAPS

-----------------------------------------------------------------------------
(* Facts about sequences.                                                  *)

\* Moving the head of the second sequence to the end of the first leaves
\* their concatenation alone.
LEMMA MoveHead ==
    ASSUME NEW S, NEW s \in Seq(S), NEW t \in Seq(S), t # <<>>
    PROVE  Append(s, Head(t)) \o Tail(t) = s \o t
<1>1. /\ Head(t) \in S /\ Tail(t) \in Seq(S)
      /\ <<Head(t)>> \in Seq(S)
    BY HeadTailProperties
<1>2. Append(s, Head(t)) = s \o <<Head(t)>>
    BY <1>1, AppendIsConcat
<1>3. t = <<Head(t)>> \o Tail(t)
    BY <1>1, HeadTailProperties
<1>4. (s \o <<Head(t)>>) \o Tail(t) = s \o (<<Head(t)>> \o Tail(t))
    BY <1>1, ConcatAssociative
<1> QED BY <1>2, <1>3, <1>4

\* Appending to the last of two sequences appends to their concatenation.
LEMMA AppendLast ==
    ASSUME NEW S, NEW s \in Seq(S), NEW t \in Seq(S), NEW e \in S
    PROVE  s \o Append(t, e) = Append(s \o t, e)
<1>1. <<e>> \in Seq(S)
    OBVIOUS
<1>2. Append(t, e) = t \o <<e>> /\ s \o t \in Seq(S)
    BY AppendIsConcat, ConcatProperties
<1>3. Append(s \o t, e) = (s \o t) \o <<e>>
    BY <1>2, AppendIsConcat
<1> QED BY <1>1, <1>2, <1>3, ConcatAssociative

\* A sequence is the concatenation of its first k elements and the others.
LEMMA SplitAt ==
    ASSUME NEW S, NEW s \in Seq(S), NEW k \in 0 .. Len(s)
    PROVE  /\ SubSeq(s, 1, k) \in Seq(S)
           /\ SubSeq(s, k + 1, Len(s)) \in Seq(S)
           /\ Len(SubSeq(s, 1, k)) = k
           /\ SubSeq(s, 1, k) \o SubSeq(s, k + 1, Len(s)) = s
<1>1. Len(s) \in Nat /\ k \in Nat /\ \A i \in 1 .. Len(s) : s[i] \in S
    BY LenProperties, ElementOfSeq
<1>2. SubSeq(s, 1, k) \in Seq(S) /\ Len(SubSeq(s, 1, k)) = k
    BY <1>1, SubSeqProperties
<1>3. SubSeq(s, k + 1, Len(s)) \in Seq(S)
    BY <1>1, SubSeqProperties
<1>4. SubSeq(s, 1, k) \o SubSeq(s, k + 1, Len(s)) = SubSeq(s, 1, Len(s))
  <2>1. 1 \in 1 .. Len(s) + 1 /\ k \in 1 - 1 .. Len(s) /\ Len(s) \in k .. Len(s)
    BY <1>1
  <2> QED BY <2>1, ConcatAdjacentSubSeq
<1>5. SubSeq(s, 1, Len(s)) = s
    BY SubSeqFull
<1> QED BY <1>2, <1>3, <1>4, <1>5

\* The first of two sequences is a prefix of their concatenation.
LEMMA FirstIsPrefix ==
    ASSUME NEW S, NEW s \in Seq(S), NEW t \in Seq(S)
    PROVE  SubSeq(s \o t, 1, Len(s)) = s
<1>1. Len(s) \in Nat
    BY LenProperties
<1>2. CASE Len(s) = 0
    <2>1. s = <<>>
        BY <1>2, EmptySeq
    <2> QED BY <1>2, <2>1, SubSeqEmpty
<1>3. CASE Len(s) > 0
    BY <1>1, <1>3, SubSeqOfConcat1, SubSeqFull
<1> QED BY <1>1, <1>2, <1>3

-----------------------------------------------------------------------------
\* What the buffered writer holds splits into what it hands over and what it
\* keeps.
LEMMA WriteTypes ==
    ASSUME TypeOK, Write
    PROVE  /\ Head(out) \in Msgs /\ out' = Tail(out) /\ out' \in Seq(Msgs)
           /\ wire' \in Seq(Msgs) /\ wbuf' \in Seq(Msgs)
           /\ \E piece \in Seq(Msgs) : /\ wire' = wire \o piece
                                       /\ piece \o wbuf' = Append(wbuf, Head(out))
           /\ wbuf' = Append(wbuf, Head(out)) \/ sock = "open"
<1> USE DEF TypeOK
<1> DEFINE held == Append(wbuf, Head(out))
<1>1. /\ Head(out) \in Msgs /\ Tail(out) \in Seq(Msgs) /\ out' = Tail(out)
    BY HeadTailProperties DEF Write
<1>2. held \in Seq(Msgs)
    BY <1>1, AppendProperties
<1>3. PICK k \in 0 .. Len(held) : /\ k > 0 => sock = "open"
                                  /\ wire' = wire \o SubSeq(held, 1, k)
                                  /\ wbuf' = SubSeq(held, k + 1, Len(held))
    BY DEF Write
<1> HIDE DEF held
<1>4. /\ SubSeq(held, 1, k) \in Seq(Msgs)
      /\ SubSeq(held, k + 1, Len(held)) \in Seq(Msgs)
      /\ SubSeq(held, 1, k) \o SubSeq(held, k + 1, Len(held)) = held
    BY <1>2, SplitAt
<1>5. k = 0 => wbuf' = held
    BY <1>2, <1>3, SubSeqFull
<1>6. k > 0 \/ k = 0
    BY <1>2, <1>3, LenProperties
<1>7. wire' \in Seq(Msgs)
    BY <1>3, <1>4, ConcatProperties
<1>8. \E piece \in Seq(Msgs) : wire' = wire \o piece /\ piece \o wbuf' = held
    BY <1>3, <1>4
<1> QED BY <1>1, <1>3, <1>4, <1>5, <1>6, <1>7, <1>8 DEF held

\* The variables keep their types (tcpconnection.go:45, :97).
THEOREM TypeCorrect == Spec => []TypeOK
<1>1. Init => TypeOK
  <2> SUFFICES ASSUME Init
               PROVE  TypeOK
      OBVIOUS
  <2> USE DEF Init
  <2>1. <<>> \in Seq(Msgs)
      BY EmptySeq
  <2>2. bufs \in Seq(Msgs) /\ out \in Seq(Msgs) /\ wbuf \in Seq(Msgs)
        /\ accepted \in Seq(Msgs) /\ wire \in Seq(Msgs)
      BY <2>1
  <2>3. closed \in BOOLEAN /\ lastRound \in BOOLEAN
      OBVIOUS
  <2>4. owes \in [Callers -> BOOLEAN]
      OBVIOUS
  <2>5. sock \in {"open", "broken", "closed"} /\ rpc \in ReaderPCs /\ wpc \in WriterPCs
      BY DEF ReaderPCs, WriterPCs
  <2>6. reads \in Nat
      OBVIOUS
  <2> QED BY <2>2, <2>3, <2>4, <2>5, <2>6 DEF TypeOK
<1>2. TypeOK /\ [Next]_vars => TypeOK'
  <2> SUFFICES ASSUME TypeOK, [Next]_vars
               PROVE  TypeOK'
      OBVIOUS
  <2> USE DEF TypeOK, shared, reader, writer, hist, ReaderPCs, WriterPCs
  <2>1. ASSUME NEW t \in Callers, NEW m \in Msgs, Send(t, m)
        PROVE  TypeOK'
      BY <2>1 DEF Send
  <2>2. ASSUME NEW t \in Callers, Signal(t)
        PROVE  TypeOK'
      BY <2>2 DEF Signal, Woken
  <2>3. ASSUME NEW t \in Callers, Shutdown(t)
        PROVE  TypeOK'
      BY <2>3 DEF Shutdown, StopWrite, Woken
  <2>4. CASE Break \/ CloseNow
      BY <2>4 DEF Break, CloseNow
  <2>5. CASE Read \/ ReadError \/ StartWrite \/ Connect \/ EndReceive \/ Disconnect
      BY <2>5 DEF Read, ReadError, StartWrite, Connect, EndReceive, Disconnect, ReaderGoes
  <2>6. CASE ReaderStops \/ ReaderCloses
      BY <2>6 DEF ReaderStops, ReaderCloses, ReaderGoes, StopWrite, Woken
  <2>7. CASE Wait \/ WriteFails \/ FlushFails \/ CloseSend \/ WriterCloses
      BY <2>7 DEF Wait, WriteFails, FlushFails, CloseSend, WriterCloses
  <2>8. CASE Swap
      BY <2>8, EmptySeq DEF Swap
  <2>9. CASE Write
      BY <2>9, WriteTypes DEF Write
  <2>10. CASE Flush
      BY <2>10, EmptySeq, ConcatProperties DEF Flush
  <2>11. CASE UNCHANGED vars
      BY <2>11 DEF vars
  <2> QED BY <2>1, <2>2, <2>3, <2>4, <2>5, <2>6, <2>7, <2>8, <2>9, <2>10, <2>11
          DEF Next, ReaderStep, WriterStep
<1> QED BY <1>1, <1>2, PTL DEF Spec

-----------------------------------------------------------------------------
\* No wake-up is lost: the writer sleeps on messages or on a shutdown only
\* while the sender is about to call Signal (tcpconnection.go:172).
THEOREM WakeupsAreKept == Spec => []NoLostWakeup
<1> USE DEF NoLostWakeup
<1>1. Init => NoLostWakeup
    BY DEF Init
<1>2. TypeOK /\ NoLostWakeup /\ [Next]_vars => NoLostWakeup'
  <2> SUFFICES ASSUME TypeOK, NoLostWakeup, [Next]_vars
               PROVE  NoLostWakeup'
      OBVIOUS
  <2> USE DEF shared, writer
  <2>1. ASSUME NEW t \in Callers, NEW m \in Msgs, Send(t, m)
        PROVE  NoLostWakeup'
      BY <2>1 DEF Send, TypeOK
  <2>2. ASSUME NEW t \in Callers, Signal(t)
        PROVE  NoLostWakeup'
      BY <2>2 DEF Signal, Woken
  <2>3. ASSUME NEW t \in Callers, Shutdown(t)
        PROVE  NoLostWakeup'
      BY <2>3 DEF Shutdown, StopWrite, Woken
  <2>4. CASE Break \/ CloseNow
      BY <2>4 DEF Break, CloseNow
  <2>5. CASE Read \/ ReadError \/ StartWrite \/ Connect \/ EndReceive \/ Disconnect
      BY <2>5 DEF Read, ReadError, StartWrite, Connect, EndReceive, Disconnect
  <2>6. CASE ReaderStops \/ ReaderCloses
      BY <2>6 DEF ReaderStops, ReaderCloses, StopWrite, Woken
  <2>7. CASE Wait
      BY <2>7 DEF Wait
  <2>8. CASE Swap \/ Write \/ WriteFails \/ Flush \/ FlushFails \/ CloseSend \/ WriterCloses
    <3>1. wpc' # "wait"
        BY <2>8 DEF Swap, Write, WriteFails, Flush, FlushFails, CloseSend, WriterCloses
    <3> QED BY <3>1
  <2>9. CASE UNCHANGED vars
      BY <2>9 DEF vars
  <2> QED BY <2>1, <2>2, <2>3, <2>4, <2>5, <2>6, <2>7, <2>8, <2>9
          DEF Next, ReaderStep, WriterStep
<1> QED BY <1>1, <1>2, TypeCorrect, PTL DEF Spec

-----------------------------------------------------------------------------
\* What the writer failed on was accepted, so it is among the faults.
LEMMA HeadWasAccepted ==
    ASSUME TypeOK, InTransit, out # <<>>
    PROVE  Head(out) \in Range(accepted)
<1> USE DEF TypeOK
<1> DEFINE front == wire \o wbuf
<1>1. /\ front \in Seq(Msgs) /\ front \o out \in Seq(Msgs)
      /\ Len(out) \in Nat \ {0} /\ Len(bufs) \in Nat /\ Head(out) = out[1]
    BY EmptySeq, LenProperties, ConcatProperties
<1>2. Len(front) \in Nat
    BY <1>1, LenProperties
<1> HIDE DEF front
<1>3. Len(front \o out) = Len(front) + Len(out) /\ (front \o out)[Len(front) + 1] = out[1]
    BY <1>1, <1>2, ConcatProperties
<1>4. /\ accepted = (front \o out) \o bufs
      /\ Len(accepted) = Len(front) + Len(out) + Len(bufs)
    BY <1>1, <1>3, ConcatProperties DEF InTransit, front
<1>5. accepted[Len(front) + 1] = (front \o out)[Len(front) + 1]
    BY <1>1, <1>2, <1>3, <1>4, ConcatProperties
<1>6. Len(front) + 1 \in DOMAIN accepted
    BY <1>1, <1>2, <1>4, LenProperties
<1> QED BY <1>1, <1>3, <1>5, <1>6 DEF Range

\* No message is lost, duplicated or reordered between Send and the socket
\* (tcpconnection.go:117, :121-127), and nothing is accepted behind the
\* round in which the writer sees closed (:118).  The two need each other:
\* the swap drops nothing because the writer comes back with empty hands.
THEOREM TransitCorrect == Spec => [](InTransit /\ LastRoundIsLast)
<1>1. Init => InTransit /\ LastRoundIsLast
    BY EmptySeq, ConcatEmptySeq DEF Init, InTransit, LastRoundIsLast
<1>2. TypeOK /\ InTransit /\ LastRoundIsLast /\ [Next]_vars => InTransit'
  <2> SUFFICES ASSUME TypeOK, InTransit, LastRoundIsLast, [Next]_vars
               PROVE  InTransit'
      OBVIOUS
  <2> USE DEF InTransit, shared, reader, writer, hist
  <2>0. /\ wire \o wbuf \in Seq(Msgs)
        /\ wire \o wbuf \o out \in Seq(Msgs)
      BY ConcatProperties DEF TypeOK
  <2>1. ASSUME NEW t \in Callers, NEW m \in Msgs, Send(t, m)
        PROVE  InTransit'
    <3>1. \A e \in Msgs : (wire \o wbuf \o out) \o Append(bufs, e)
                             = Append((wire \o wbuf \o out) \o bufs, e)
        BY ONLY <2>0, TypeOK, AppendLast DEF TypeOK
    <3> QED BY <2>1, <3>1 DEF Send
  <2>2. ASSUME NEW t \in Callers, Signal(t) \/ Shutdown(t)
        PROVE  InTransit'
      BY <2>2 DEF Signal, Shutdown
  <2>3. CASE Break \/ CloseNow \/ Read \/ ReadError \/ StartWrite \/ Connect
             \/ EndReceive \/ Disconnect \/ ReaderStops \/ ReaderCloses
      BY <2>3 DEF Break, CloseNow, Read, ReadError, StartWrite, Connect, EndReceive,
                  Disconnect, ReaderStops, ReaderCloses
  <2>4. CASE Wait \/ WriteFails \/ FlushFails \/ CloseSend \/ WriterCloses
      BY <2>4 DEF Wait, WriteFails, FlushFails, CloseSend, WriterCloses
  <2>5. CASE Swap
    <3>1. out = <<>>
        BY <2>5 DEF Swap, LastRoundIsLast
    <3>2. (wire \o wbuf) \o bufs \in Seq(Msgs)
        BY <2>0, ConcatProperties DEF TypeOK
    <3>3. /\ (wire \o wbuf) \o <<>> = wire \o wbuf
          /\ ((wire \o wbuf) \o bufs) \o <<>> = (wire \o wbuf) \o bufs
        BY <2>0, <3>2, ConcatEmptySeq
    <3> QED BY <2>5, <3>1, <3>3 DEF Swap
  <2>6. CASE Write
    <3>0. wire \in Seq(Msgs) /\ wbuf \in Seq(Msgs) /\ wbuf' \in Seq(Msgs) /\ Head(out) \in Msgs
      <4>1. wbuf' \in Seq(Msgs) /\ Head(out) \in Msgs
          BY <2>6, WriteTypes
      <4> QED BY <4>1 DEF TypeOK
    <3>1. PICK piece \in Seq(Msgs) : /\ wire' = wire \o piece
                                     /\ piece \o wbuf' = Append(wbuf, Head(out))
        BY <2>6, WriteTypes
    <3>2. wire' \o wbuf' = wire \o Append(wbuf, Head(out))
      <4>1. (wire \o piece) \o wbuf' = wire \o (piece \o wbuf')
          BY <3>0, ConcatAssociative
      <4> QED BY <3>1, <4>1
    <3>3. wire \o Append(wbuf, Head(out)) = Append(wire \o wbuf, Head(out))
        BY <3>0, AppendLast
    <3>4. Append(wire \o wbuf, Head(out)) \o Tail(out) = (wire \o wbuf) \o out
        BY <2>0, <2>6, MoveHead DEF TypeOK, Write
    <3> QED BY <2>6, <3>2, <3>3, <3>4 DEF Write
  <2>7. CASE Flush
    <3>1. (wire \o wbuf) \o <<>> = wire \o wbuf
        BY <2>0, ConcatEmptySeq
    <3> QED BY <2>7, <3>1 DEF Flush
  <2>8. CASE UNCHANGED vars
      BY <2>8 DEF vars
  <2> QED BY <2>1, <2>2, <2>3, <2>4, <2>5, <2>6, <2>7, <2>8
          DEF Next, ReaderStep, WriterStep
<1>3. TypeOK /\ InTransit /\ LastRoundIsLast /\ [Next]_vars => LastRoundIsLast'
  <2> SUFFICES ASSUME TypeOK, InTransit, LastRoundIsLast, [Next]_vars
               PROVE  LastRoundIsLast'
      OBVIOUS
  <2> USE DEF LastRoundIsLast, shared, reader, writer, hist
  <2>1. ASSUME NEW t \in Callers, NEW m \in Msgs, Send(t, m)
        PROVE  LastRoundIsLast'
    <3>1. /\ Len(accepted) \in Nat /\ DOMAIN accepted = 1 .. Len(accepted)
          /\ DOMAIN accepted' = 1 .. Len(accepted) + 1
          /\ \A i \in DOMAIN accepted : accepted'[i] = accepted[i]
        BY <2>1, AppendProperties, LenProperties DEF Send, TypeOK
    <3>2. Range(accepted) \subseteq Range(accepted')
        BY <3>1 DEF Range
    <3> QED BY <2>1, <3>2 DEF Send
  <2>2. ASSUME NEW t \in Callers, Signal(t)
        PROVE  LastRoundIsLast'
      BY <2>2 DEF Signal, Woken
  <2>3. ASSUME NEW t \in Callers, Shutdown(t)
        PROVE  LastRoundIsLast'
      BY <2>3 DEF Shutdown, StopWrite, Woken
  <2>4. CASE Break \/ CloseNow
      BY <2>4 DEF Break, CloseNow
  <2>5. CASE Read \/ ReadError \/ StartWrite \/ Connect \/ EndReceive \/ Disconnect
      BY <2>5 DEF Read, ReadError, StartWrite, Connect, EndReceive, Disconnect, ReaderGoes
  <2>6. CASE ReaderStops \/ ReaderCloses
      BY <2>6 DEF ReaderStops, ReaderCloses, ReaderGoes, StopWrite, Woken
  <2>7. CASE Wait
      BY <2>7 DEF Wait
  <2>8. CASE Swap
      BY <2>8 DEF Swap
  <2>9. CASE Write
      BY <2>9 DEF Write
  <2>10. CASE WriteFails
    <3>1. Head(out) \in Range(accepted)
        BY <2>10, HeadWasAccepted DEF WriteFails
    <3> QED BY <2>10, <3>1 DEF WriteFails
  <2>11. CASE Flush
      BY <2>11 DEF Flush
  <2>12. CASE FlushFails
      BY <2>12 DEF FlushFails
  <2>13. CASE CloseSend
      BY <2>13 DEF CloseSend
  <2>14. CASE WriterCloses
      BY <2>14 DEF WriterCloses
  <2>15. CASE UNCHANGED vars
      BY <2>15 DEF vars
  <2> QED BY <2>1, <2>2, <2>3, <2>4, <2>5, <2>6, <2>7, <2>8, <2>9, <2>10, <2>11,
             <2>12, <2>13, <2>14, <2>15
          DEF Next, ReaderStep, WriterStep
<1> QED BY <1>1, <1>2, <1>3, TypeCorrect, PTL DEF Spec
-----------------------------------------------------------------------------
\* What has been written is a prefix of what was accepted, and grows along
\* it (tcpconnection.go:121-127).
LEMMA WireGrows ==
    ASSUME NEW w \in Seq(Msgs), NEW piece \in Seq(Msgs), NEW rest \in Seq(Msgs),
           w \o piece # w
    PROVE  \E n \in Len(w) + 1 .. Len((w \o piece) \o rest) :
              w \o piece = SubSeq((w \o piece) \o rest, 1, n)
<1> DEFINE n == Len(w \o piece)
<1>1. /\ w \o piece \in Seq(Msgs)
      /\ n = Len(w) + Len(piece) /\ Len(w) \in Nat /\ Len(piece) \in Nat
    BY ConcatProperties, LenProperties
<1>2. piece # <<>>
    BY ConcatEmptySeq
<1>3. Len(piece) > 0
    BY <1>1, <1>2, EmptySeq
<1>4. Len((w \o piece) \o rest) = n + Len(rest) /\ Len(rest) \in Nat
    BY <1>1, ConcatProperties, LenProperties
<1>5. SubSeq((w \o piece) \o rest, 1, n) = w \o piece
    BY <1>1, FirstIsPrefix
<1> HIDE DEF n
<1>6. n \in Len(w) + 1 .. Len((w \o piece) \o rest)
    BY <1>1, <1>3, <1>4
<1> QED BY <1>5, <1>6

\* Four sequences, joined from the left or from the right.
Rejoined(a, b, c, d) ==
    /\ ((a \o b) \o c) \o d = a \o (b \o (c \o d))
    /\ b \o (c \o d) \in Seq(Msgs)

\* Joining sequences of messages is associative, for the four places where a
\* message can be.
LEMMA ConcatFour ==
    ASSUME NEW a \in Seq(Msgs), NEW b \in Seq(Msgs), NEW c \in Seq(Msgs), NEW d \in Seq(Msgs)
    PROVE  Rejoined(a, b, c, d)
<1> DEFINE ab == a \o b
           cd == c \o d
<1>1. ab \in Seq(Msgs) /\ cd \in Seq(Msgs) /\ b \o cd \in Seq(Msgs)
    BY ConcatProperties
<1>2. ab \o cd = a \o (b \o cd)
    BY <1>1, ConcatAssociative
<1> HIDE DEF ab
<1>3. (ab \o c) \o d = ab \o cd
    BY <1>1, ConcatAssociative
<1> QED BY <1>1, <1>2, <1>3 DEF ab, Rejoined

\* Up to its liveness, a connection keeps the promise of SendPipe: messages
\* reach the socket in order and once, nothing is accepted after Shutdown,
\* and the writer ends with everything written unless there was a fault.
THEOREM PipeKept == Spec => Pipe!SafeSpec
<1>1. Init => Pipe!Init
  <2> SUFFICES ASSUME Init
               PROVE  Pipe!Init
      OBVIOUS
  <2>1. Range(accepted) = {}
      BY DEF Init, Range
  <2> QED BY <2>1 DEF Init, Pipe!Init
<1>2. TypeOK /\ TypeOK' /\ InTransit /\ InTransit' /\ LastRoundIsLast /\ [Next]_vars
      => [Pipe!Next]_Pipe!vars
  <2> SUFFICES ASSUME TypeOK, TypeOK', InTransit, InTransit', LastRoundIsLast, [Next]_vars
               PROVE  [Pipe!Next]_Pipe!vars
      OBVIOUS
  <2> DEFINE faulty == sock # "open" \/ Range(accepted) \cap Oversize # {}
             ended  == wpc \in {"close", "done"}
  <2> USE DEF shared, reader, writer, hist, Pipe!vars
  <2>0. /\ wire \in Seq(Msgs) /\ wbuf \in Seq(Msgs) /\ bufs \in Seq(Msgs)
        /\ wire' \in Seq(Msgs) /\ wbuf' \in Seq(Msgs) /\ out' \in Seq(Msgs)
        /\ bufs' \in Seq(Msgs) /\ accepted \in Seq(Msgs)
      BY DEF TypeOK
  <2>1. ASSUME NEW t \in Callers, NEW m \in Msgs, Send(t, m)
        PROVE  Pipe!Accept(m)
    <3>1. /\ Len(accepted) \in Nat /\ DOMAIN accepted = 1 .. Len(accepted)
          /\ DOMAIN accepted' = 1 .. Len(accepted) + 1
          /\ \A i \in DOMAIN accepted : accepted'[i] = accepted[i]
        BY <2>1, AppendProperties, LenProperties DEF Send, TypeOK
    <3>2. Range(accepted) \subseteq Range(accepted')
        BY <3>1 DEF Range
    <3>3. faulty => faulty'
        BY <2>1, <3>2 DEF Send
    <3>4. faulty' \in {faulty, TRUE}
        BY <3>3
    <3>5. ended' = ended
        BY <2>1 DEF Send
    <3>6. m \notin Pipe!Range(accepted)
        BY <2>1 DEF Send, Range, Pipe!Range
    <3> QED BY <2>1, <3>4, <3>5, <3>6 DEF Send, Pipe!Accept
  <2>2. ASSUME NEW t \in Callers, Signal(t)
        PROVE  UNCHANGED Pipe!vars
    <3>1. ended' = ended /\ faulty' = faulty
        BY <2>2 DEF Signal, Woken
    <3> QED BY <2>2, <3>1 DEF Signal
  <2>3. ASSUME NEW t \in Callers, Shutdown(t)
        PROVE  Pipe!Shut
    <3>1. ended' = ended /\ faulty' = faulty
        BY <2>3 DEF Shutdown, StopWrite, Woken
    <3> QED BY <2>3, <3>1 DEF Shutdown, StopWrite, Pipe!Shut
  <2>4. CASE Break \/ CloseNow \/ ReaderCloses \/ WriterCloses
    <3>1. faulty' /\ ended' = ended /\ UNCHANGED <<accepted, wire, closed>>
        BY <2>4 DEF Break, CloseNow, ReaderCloses, WriterCloses
    <3>2. CASE faulty
      <4>1. faulty' = faulty
          BY <3>1, <3>2
      <4> QED BY <3>1, <4>1
    <3>3. CASE ~faulty
      <4>1. Pipe!Fault
          BY <3>1, <3>3 DEF Pipe!Fault
      <4> QED BY <4>1 DEF Pipe!Next
    <3> QED BY <3>2, <3>3
  <2>5. CASE Read \/ ReadError \/ Connect \/ EndReceive \/ Disconnect
    <3>1. ended' = ended /\ faulty' = faulty
        BY <2>5 DEF Read, ReadError, Connect, EndReceive, Disconnect
    <3> QED BY <2>5, <3>1 DEF Read, ReadError, Connect, EndReceive, Disconnect
  <2>6. CASE StartWrite
    <3>1. ended' = ended /\ faulty' = faulty
        BY <2>6 DEF StartWrite, ReaderGoes, LastRoundIsLast
    <3> QED BY <2>6, <3>1 DEF StartWrite
  <2>7. CASE ReaderStops
    <3>1. ended' = ended /\ faulty' = faulty /\ UNCHANGED <<accepted, wire>>
        BY <2>7 DEF ReaderStops, StopWrite, Woken
    <3>2. CASE closed
        BY <2>7, <3>1, <3>2 DEF ReaderStops, StopWrite, TypeOK
    <3>3. CASE ~closed
      <4>1. Pipe!Shut
          BY <2>7, <3>1, <3>3 DEF ReaderStops, StopWrite, Pipe!Shut
      <4> QED BY <4>1 DEF Pipe!Next
    <3> QED BY <3>2, <3>3
  <2>8. CASE Wait \/ Swap \/ WriteFails \/ FlushFails
    <3>1. ended' = ended /\ faulty' = faulty
        BY <2>8 DEF Wait, Swap, WriteFails, FlushFails
    <3> QED BY <2>8, <3>1 DEF Wait, Swap, WriteFails, FlushFails
  <2>9. CASE Write
    <3>1. ended' = ended /\ faulty' = faulty /\ UNCHANGED <<accepted, closed>> /\ ~ended
        BY <2>9 DEF Write
    <3>2. CASE wire' = wire
        BY <3>1, <3>2
    <3>3. CASE wire' # wire
      <4> DEFINE rest == wbuf' \o (out' \o bufs')
      <4>1. PICK piece \in Seq(Msgs) : wire' = wire \o piece
          BY <2>9, WriteTypes
      <4>2. accepted = (wire' \o rest) /\ rest \in Seq(Msgs)
        <5>1. accepted = ((wire' \o wbuf') \o out') \o bufs'
            BY <3>1 DEF InTransit
        <5>2. /\ wire' \in Seq(Msgs) /\ wbuf' \in Seq(Msgs)
              /\ out' \in Seq(Msgs) /\ bufs' \in Seq(Msgs)
            BY <2>0
        <5>3. Rejoined(wire', wbuf', out', bufs')
            BY <5>2, ConcatFour
        <5> QED BY <5>1, <5>3 DEF Rejoined
      <4> HIDE DEF rest
      <4>3. accepted = (wire \o piece) \o rest /\ wire \o piece # wire
          BY <3>3, <4>1, <4>2
      <4>4. \E n \in Len(wire) + 1 .. Len((wire \o piece) \o rest) :
               wire \o piece = SubSeq((wire \o piece) \o rest, 1, n)
        <5>1. wire \in Seq(Msgs)
            BY <2>0
        <5> QED BY ONLY <4>2, <4>3, <5>1, piece \in Seq(Msgs), WireGrows, Zenon
      <4>5. Pipe!Deliver
          BY <3>1, <4>1, <4>3, <4>4 DEF Pipe!Deliver
      <4> QED BY <4>5 DEF Pipe!Next
    <3> QED BY <3>2, <3>3
  <2>10. CASE Flush
    <3>1. faulty' = faulty /\ UNCHANGED <<accepted, closed>> /\ ~ended
        BY <2>10 DEF Flush
    <3>2. wire \o wbuf \in Seq(Msgs) /\ wire' = wire \o wbuf
        BY <2>10, ConcatProperties DEF Flush, TypeOK
    <3>3. accepted = wire' \o bufs
        BY <2>10, <3>2, ConcatEmptySeq DEF Flush, InTransit
    <3>4. CASE lastRound
      <4>1. bufs = <<>> /\ closed /\ ended'
          BY <2>10, <3>4 DEF Flush, LastRoundIsLast
      <4>2. wire' = accepted
          BY <3>2, <3>3, <4>1, ConcatEmptySeq
      <4>3. Pipe!Finish
          BY <3>1, <4>1, <4>2 DEF Pipe!Finish
      <4> QED BY <4>3 DEF Pipe!Next
    <3>5. CASE ~lastRound
      <4>1. ended' = ended
          BY <2>10, <3>5 DEF Flush
      <4>2. CASE wire' = wire
          BY <3>1, <4>1, <4>2
      <4>3. CASE wire' # wire
        <5>1. accepted = (wire \o wbuf) \o bufs /\ wire \o wbuf # wire
            BY <3>2, <3>3, <4>3, <2>10 DEF Flush
        <5>2. \E n \in Len(wire) + 1 .. Len((wire \o wbuf) \o bufs) :
                 wire \o wbuf = SubSeq((wire \o wbuf) \o bufs, 1, n)
          <6>1. wire \in Seq(Msgs) /\ wbuf \in Seq(Msgs) /\ bufs \in Seq(Msgs)
              BY <2>0
          <6> QED BY ONLY <5>1, <6>1, WireGrows, Zenon
        <5>3. Pipe!Deliver
            BY <3>1, <3>2, <4>1, <5>1, <5>2 DEF Pipe!Deliver
        <5> QED BY <5>3 DEF Pipe!Next
      <4> QED BY <4>2, <4>3
    <3> QED BY <3>4, <3>5
  <2>11. CASE CloseSend
    <3>1. faulty /\ faulty' = faulty /\ ~ended /\ ended'
        BY <2>11 DEF CloseSend, LastRoundIsLast
    <3>2. Pipe!Fail
        BY <2>11, <3>1 DEF CloseSend, Pipe!Fail
    <3> QED BY <3>2 DEF Pipe!Next
  <2>12. CASE UNCHANGED vars
      BY <2>12 DEF vars
  <2>13. ASSUME NEW t \in Callers, NEW m \in Msgs, Send(t, m)
         PROVE  Pipe!Next
      BY <2>1, <2>13 DEF Pipe!Next
  <2>14. ASSUME NEW t \in Callers, Shutdown(t)
         PROVE  Pipe!Next
      BY <2>3, <2>14 DEF Pipe!Next
  <2> QED BY <2>2, <2>4, <2>5, <2>6, <2>7, <2>8, <2>9, <2>10, <2>11, <2>12, <2>13, <2>14
          DEF Next, ReaderStep, WriterStep
<1> QED BY <1>1, <1>2, TypeCorrect, TransitCorrect, PTL DEF Spec, Pipe!SafeSpec
=============================================================================
