--------------------------- MODULE UartLinkProofs ---------------------------
(***************************************************************************)
(* Uart implements Link: step by step, what the driver, its handler and    *)
(* the device do to the two queues, the shift register and the receiver is *)
(* a step of a line on which bytes wait, travel and are read in order, for *)
(* any payloads, blocks, calls, configurations and callbacks of a UART     *)
(* whose far end sends no frame of its own.                                *)
(***************************************************************************)
EXTENDS UartLink, UartProofs

Line == Delivered \o reg.hold \o Shifting
Up == reg.lb /\ reg.re

-----------------------------------------------------------------------------
(* Sequences.                                                              *)

\* The end of s \o t behind s is t.
LEMMA LastPart ==
  ASSUME NEW S, NEW s \in Seq(S), NEW t \in Seq(S)
  PROVE  SubSeq(s \o t, Len(s) + 1, Len(s \o t)) = t
  <1> DEFINE n == Len(s)
             k == Len(t)
  <1>1. n \in Nat /\ k \in Nat /\ Len(s \o t) = n + k
    BY ConcatProperties, LenProperties
  <1>2. CASE k = 0
    <2>1. SubSeq(s \o t, n + 1, n + k) = <<>>
      <3> HIDE DEF n, k
      <3>1. n + 1 > n + k
        BY <1>1, <1>2
      <3>2. QED
        BY <1>1, <3>1, SubSeqEmpty
    <2>2. t = <<>>
      BY <1>2, EmptySeq
    <2>3. QED
      BY <1>1, <2>1, <2>2
  <1>3. CASE k # 0
    <2>1. /\ n + 1 \in n + 1 .. n + k /\ n + k \in n + 1 .. n + k
          /\ n + 1 - n = 1 /\ n + k - n = k
      <3> HIDE DEF n, k
      <3>1. QED
        BY <1>1, <1>3
    <2>2. SubSeq(s \o t, n + 1, n + k) = SubSeq(t, n + 1 - n, n + k - n)
      BY <2>1, SubSeqOfConcat2
    <2>3. SubSeq(t, 1, k) = t
      BY SubSeqFull
    <2>4. QED
      BY <1>1, <2>1, <2>2, <2>3
  <1>4. QED
    BY <1>2, <1>3

\* The head and the tail of s \o t are those of s.
LEMMA FrontOf ==
  ASSUME NEW S, NEW s \in Seq(S), NEW t \in Seq(S), s # <<>>
  PROVE  /\ Head(s \o t) = Head(s)
         /\ Tail(s \o t) = Tail(s) \o t
         /\ s \o t # <<>>
  <1>1. /\ Head(s) \in S /\ Tail(s) \in Seq(S)
        /\ <<Head(s)>> \o Tail(s) = s
    BY HeadAndTail
  <1>2. <<Head(s)>> \in Seq(S) /\ Tail(s) \o t \in Seq(S)
    BY <1>1, ConcatProperties
  <1>3. s \o t = <<Head(s)>> \o (Tail(s) \o t)
    BY <1>1, <1>2, ConcatAssociative
  <1>4. Len(s \o t) = Len(s) + Len(t) /\ Len(s) \in Nat \ {0} /\ Len(t) \in Nat
    BY ConcatProperties, EmptySeq, LenProperties
  <1>5. s \o t # <<>> /\ s \o t \in Seq(S)
    BY <1>4, EmptySeq, ConcatProperties
  <1>6. (s \o t)[1] = s[1]
    BY <1>4, ConcatProperties
  <1>7. Head(s \o t) = Head(s)
    BY <1>6
  <1>8. Tail(s \o t) = SubSeq(s \o t, 2, Len(s \o t))
    BY <1>5, TailIsSubSeq
  <1>9. SubSeq(s \o t, 2, Len(s \o t)) = Tail(s) \o t
    <2> DEFINE u == Tail(s) \o t
               x == <<Head(s)>>
    <2>1. Len(x) = 1
      OBVIOUS
    <2> HIDE DEF u, x
    <2>2. SubSeq(x \o u, Len(x) + 1, Len(x \o u)) = u
      BY <1>2, LastPart DEF x, u
    <2>3. QED
      BY <1>3, <2>1, <2>2 DEF u, x
  <1>10. QED
    BY <1>5, <1>7, <1>8, <1>9

\* The sequences of the line.
LEMMA LineIs ==
  ASSUME TypeOK
  PROVE  /\ Delivered \in Seq(Byte) /\ reg.hold \in Seq(Byte)
         /\ Shifting \in Seq(Byte) /\ Queued \in Seq(Byte)
         /\ rxlog.taken \in Seq(Byte)
         /\ Line \in Seq(Byte) /\ Len(Line) \in Nat
         /\ Line = Delivered \o (reg.hold \o Shifting)
         /\ reg.hold \o Shifting \in Seq(Byte)
  <1>1. /\ Delivered \in Seq(Byte) /\ reg.hold \in Seq(Byte)
        /\ Shifting \in Seq(Byte) /\ Queued \in Seq(Byte)
        /\ rxlog.taken \in Seq(Byte)
    BY ByteSequences DEF TypeOK, RegType, RxLogType
  <1>2. Delivered \o reg.hold \in Seq(Byte) /\ reg.hold \o Shifting \in Seq(Byte)
    BY <1>1, ConcatProperties
  <1>3. Line \in Seq(Byte)
    BY <1>1, <1>2, ConcatProperties DEF Line
  <1>4. Line = Delivered \o (reg.hold \o Shifting)
    <2> DEFINE d == Delivered
               h == reg.hold
               s == Shifting
    <2>1. d \in Seq(Byte) /\ h \in Seq(Byte) /\ s \in Seq(Byte)
      BY <1>1
    <2>2. Line = (d \o h) \o s
      BY DEF Line
    <2> HIDE DEF d, h, s
    <2>3. (d \o h) \o s = d \o (h \o s)
      BY <2>1, ConcatAssociative
    <2>4. QED
      BY <2>2, <2>3 DEF d, h, s
  <1>5. QED
    BY <1>1, <1>2, <1>3, <1>4, LenProperties

-----------------------------------------------------------------------------
(* The steps of the link, told from what a step of the driver does.        *)

\* Nothing but flags changes.
LEMMA Rereads ==
  ASSUME Queued' = Queued, Line' = Line, rxlog'.taken = rxlog.taken,
         Up' = Up, txlog'.sends = txlog.sends
  PROVE  TheLink!Next
  BY DEF TheLink!Next, TheLink!Reread, Line, Up

\* Not even the variables that the link is made of.
LEMMA Stays ==
  ASSUME uart'.txFifo = uart.txFifo, uart'.rxFifo = uart.rxFifo,
         reg'.hold = reg.hold, reg'.shift = reg.shift, Up' = Up,
         rxlog'.taken = rxlog.taken, txlog'.sends = txlog.sends
  PROVE  TheLink!Next
  <1>1. Queued' = Queued /\ Line' = Line
    BY DEF Queued, Line, Delivered, Shifting
  <1>2. QED
    BY <1>1, Rereads

\* The oldest n bytes are read.
LEMMA Reads ==
  ASSUME NEW n \in 1 .. Len(Line),
         rxlog'.taken = rxlog.taken \o SubSeq(Line, 1, n),
         Line' = SubSeq(Line, n + 1, Len(Line)), Queued' = Queued,
         Up' = Up, reg'.errors = reg.errors,
         uart'.errorFlags = uart.errorFlags, txlog'.sends = txlog.sends
  PROVE  TheLink!Next
  <1>1. TheLink!Read
    BY DEF TheLink!Read, Line, Up
  <1>2. QED
    BY <1>1 DEF TheLink!Next

\* The oldest byte is read.
LEMMA ReadsOne ==
  ASSUME TypeOK, Line # <<>>,
         rxlog'.taken = Append(rxlog.taken, Head(Line)),
         Line' = Tail(Line), Queued' = Queued,
         Up' = Up, reg'.errors = reg.errors,
         uart'.errorFlags = uart.errorFlags, txlog'.sends = txlog.sends
  PROVE  TheLink!Next
  <1>1. Line \in Seq(Byte) /\ Len(Line) \in Nat \ {0} /\ rxlog.taken \in Seq(Byte)
    BY LineIs, EmptySeq
  <1>2. SubSeq(Line, 1, 1) = <<Head(Line)>> /\ Head(Line) \in Byte
    <2>1. /\ Head(Line) \in Byte /\ Tail(Line) \in Seq(Byte)
          /\ <<Head(Line)>> \o Tail(Line) = Line
      BY <1>1, HeadAndTail
    <2>2. <<Head(Line)>> \in Seq(Byte) /\ Len(<<Head(Line)>>) = 1
      BY <2>1
    <2>3. SubSeq(<<Head(Line)>> \o Tail(Line), 1, Len(<<Head(Line)>>)) = <<Head(Line)>>
      BY <2>1, <2>2, FirstPart
    <2>4. QED
      BY <2>1, <2>2, <2>3
  <1>3. Append(rxlog.taken, Head(Line)) = rxlog.taken \o <<Head(Line)>>
    BY <1>1, <1>2, AppendIsConcat
  <1>4. Tail(Line) = SubSeq(Line, 2, Len(Line))
    BY <1>1, TailIsSubSeq
  <1>5. 1 \in 1 .. Len(Line) /\ 1 + 1 = 2
    BY <1>1
  <1>6. QED
    BY <1>2, <1>3, <1>4, <1>5, Reads

\* A byte is lost to an overflow.
LEMMA Overflows ==
  ASSUME NEW i \in 1 .. Len(Line), Line \in Seq(Byte),
         Line' = SubSeq(Line, 1, i - 1) \o SubSeq(Line, i + 1, Len(Line)),
         "OV" \in reg'.errors \/ "RF" \in uart'.errorFlags,
         Queued' = Queued, rxlog'.taken = rxlog.taken,
         Up' = Up, txlog'.sends = txlog.sends
  PROVE  TheLink!Next
  <1>1. i \in DOMAIN Line
    BY LenProperties
  <1>2. TheLink!Overflow
    BY <1>1 DEF TheLink!Overflow, TheLink!RemoveAt, Line, Up
  <1>3. QED
    BY <1>2 DEF TheLink!Next

\* The link is or goes down or up: an end and a beginning of the line may be
\* lost.
LEMMA GoesDown ==
  ASSUME ~Up \/ ~Up',
         NEW i \in 0 .. Len(Line), NEW j \in 0 .. Len(Line),
         Line' = SubSeq(Line, i + 1, j), Queued' \in {Queued, <<>>},
         rxlog'.taken = rxlog.taken, txlog'.sends = txlog.sends
  PROVE  TheLink!Next
  <1>1. TheLink!Down
    BY DEF TheLink!Down, Line, Up
  <1>2. QED
    BY <1>1 DEF TheLink!Next

\* A transfer begins.
LEMMA Transfers ==
  ASSUME txlog'.sends = txlog.sends + 1,
         NEW t \in Seq(Byte), Line \in Seq(Byte), Line' = Line \o t,
         rxlog'.taken = rxlog.taken, Up' = Up,
         reg'.errors = reg.errors, uart'.errorFlags = uart.errorFlags
  PROVE  TheLink!Next
  <1>1. /\ SubSeq(Line \o t, 1, Len(Line)) = Line
        /\ SubSeq(Line, 1, Len(Line)) = Line
    BY FirstPart, SubSeqFull
  <1>2. Len(Line) <= Len(Line \o t)
    BY ConcatProperties, LenProperties
  <1>3. TheLink!IsPrefix(Line, Line')
    BY <1>1, <1>2 DEF TheLink!IsPrefix
  <1>4. TheLink!Transfer
    BY <1>3 DEF TheLink!Transfer, Line, Up
  <1>5. QED
    BY <1>4 DEF TheLink!Next

-----------------------------------------------------------------------------
(* The device.                                                             *)

\* The end of a frame: from the shift register it goes to the receiver, which
\* comes before it on the line, is flagged as lost, or leaves a link that is
\* down.
LEMMA TxDoneLink ==
  ASSUME TypeOK, TxDone
  PROVE  TheLink!Next
  <1> DEFINE d == Delivered
             h == reg.hold
             b == reg.shift
             f == d \o h
             sent == [reg EXCEPT !.shift = NULL]
  <1>1. /\ b \in Byte /\ reg \in RegType /\ txlog \in TxLogType
        /\ rxlog \in RxLogType
    BY DEF TypeOK, RegType, TxDone
  <1>2. d \in Seq(Byte) /\ h \in Seq(Byte) /\ f \in Seq(Byte)
    BY LineIs, ConcatProperties
  <1>3. Shifting = <<b>> /\ <<b>> \in Seq(Byte) /\ Len(<<b>>) = 1
    BY <1>1 DEF Shifting, TxDone
  <1>4. Line = f \o <<b>>
    BY <1>3 DEF Line
  <1>5. /\ sent \in RegType /\ sent.hold = h /\ sent.re = reg.re
        /\ sent.lb = reg.lb /\ sent.shift = NULL
        /\ sent.errors = reg.errors
    BY <1>1 DEF RegType
  <1>6. /\ Queued' = Queued /\ Delivered' = d
        /\ rxlog'.taken = rxlog.taken /\ txlog'.sends = txlog.sends
    BY <1>1 DEF TxDone, Queued, Delivered, LogReceived, RxLogType, TxLogType
  <1>7. reg' = IF reg.lb THEN Received(sent, b) ELSE sent
    BY DEF TxDone
  <1> HIDE DEF d, h, b, f, sent
  <1>8. Up' = Up /\ reg'.shift = NULL
    BY <1>5, <1>7 DEF Received, RegType, Up
  <1>9. Shifting' = <<>>
    BY <1>8 DEF Shifting
  <1>10. /\ Len(f) \in Nat /\ Len(Line) = Len(f) + 1
         /\ SubSeq(Line, 1, Len(Line) - 1) = f
         /\ f \o <<>> = f
    <2>1. Len(f) \in Nat /\ Len(Line) = Len(f) + 1
      BY <1>2, <1>3, <1>4, ConcatProperties, LenProperties
    <2>2. SubSeq(f \o <<b>>, 1, Len(f \o <<b>>) - Len(<<b>>)) = f
      BY <1>2, <1>3, FirstPart
    <2>3. QED
      BY <1>2, <1>3, <1>4, <2>1, <2>2, ConcatEmptySeq
  <1>11. CASE Up /\ Len(h) < HwDepth
    <2>1. reg'.hold = Append(h, b)
      BY <1>5, <1>7, <1>11 DEF Received, RegType, Up
    <2>2. Line' = (d \o Append(h, b)) \o <<>>
      BY <1>6, <1>9, <2>1 DEF Line
    <2>3. d \o Append(h, b) = Append(f, b)
      BY <1>1, <1>2, AppendAtEnd DEF f
    <2>4. Append(f, b) = f \o <<b>> /\ Append(f, b) \in Seq(Byte)
      BY <1>1, <1>2, AppendIsConcat, AppendProperties
    <2>5. Append(f, b) \o <<>> = Append(f, b)
      BY <2>4, ConcatEmptySeq
    <2>6. QED
      BY <1>4, <1>6, <1>8, <2>2, <2>3, <2>4, <2>5, Rereads
  <1>12. CASE ~(Up /\ Len(h) < HwDepth)
    <2>1. reg'.hold = h
      BY <1>5, <1>7, <1>12 DEF Received, RegType, Up
    <2>2. Line' = f
      BY <1>6, <1>9, <1>10, <2>1 DEF Line, f
    <2>3. CASE Up
      <3>1. "OV" \in reg'.errors
        BY <1>5, <1>7, <1>12, <2>3 DEF Received, RegType, Up
      <3>2. /\ Len(Line) \in 1 .. Len(Line)
            /\ SubSeq(Line, Len(Line) + 1, Len(Line)) = <<>>
        BY <1>10, SubSeqEmpty
      <3>3. Line' = SubSeq(Line, 1, Len(Line) - 1)
                      \o SubSeq(Line, Len(Line) + 1, Len(Line))
        BY <1>10, <2>2, <3>2
      <3>4. QED
        BY <1>6, <1>8, <3>1, <3>2, <3>3, Overflows, LineIs
    <2>4. CASE ~Up
      <3> DEFINE j == Len(Line) - 1
      <3>1. 0 \in 0 .. Len(Line) /\ j \in 0 .. Len(Line)
        BY <1>10
      <3>2. Line' = SubSeq(Line, 0 + 1, j)
        BY <1>10, <2>2
      <3> HIDE DEF j
      <3>3. QED
        BY <1>6, <2>4, <3>1, <3>2, GoesDown
    <2>5. QED
      BY <2>3, <2>4
  <1>13. QED
    BY <1>11, <1>12

\* The far end sends no frame; one with an error in it leaves no byte.
LEMMA DeviceLink ==
  ASSUME LineBytes = {}, TypeOK, Device
  PROVE  TheLink!Next
  <1>1. ASSUME NEW error \in LineErrors, BadFrameArrives(error)
        PROVE  TheLink!Next
    <2>1. reg \in RegType
      BY DEF TypeOK
    <2>2. /\ reg'.hold = reg.hold /\ reg'.shift = reg.shift /\ Up' = Up
          /\ UNCHANGED <<uart, txlog, rxlog>>
      BY <1>1, <2>1 DEF BadFrameArrives, RegType, Up
    <2>3. QED
      BY <2>2, Stays
  <1>2. QED
    BY <1>1, TxDoneLink DEF Device

-----------------------------------------------------------------------------
(* The interrupt handler.                                                  *)

\* The byte taken out of the receiver goes to the end of the queue, which is
\* before it on the line, or is flagged as lost.
LEMMA HandleRxLink ==
  ASSUME TypeOK, Uart_handleRx
  PROVE  TheLink!Next
  <1> DEFINE d == Delivered
             h == reg.hold
             s == Shifting
  <1>1. /\ d \in Seq(Byte) /\ h \in Seq(Byte) /\ s \in Seq(Byte)
        /\ Line \in Seq(Byte) /\ Line = d \o (h \o s) /\ h \o s \in Seq(Byte)
    BY LineIs
  <1>2. reg \in RegType /\ uart \in UartType /\ rxlog \in RxLogType
    BY DEF TypeOK
  <1>3. CASE ~RxReady
    BY <1>3, Stays DEF Uart_handleRx, Up
  <1>4. CASE RxReady
    <2>1. h # <<>>
      BY <1>4 DEF RxReady, DR
    <2>2. /\ reg'.hold = Tail(h) /\ Up' = Up /\ Shifting' = s
          /\ UNCHANGED txlog
      BY <1>2, <1>4 DEF Uart_handleRx, RegType, Up, Shifting
    <2>3. Queued' = Queued /\ rxlog'.taken = rxlog.taken
      BY <1>2, <1>4
         DEF Uart_handleRx, DropByte, TakeByte, Queued, UartType, RxLogType
    <2>4. Head(h) \in Byte /\ Tail(h) \in Seq(Byte) /\ <<Head(h)>> \o Tail(h) = h
      BY <1>1, <2>1, HeadAndTail
    <2>5. CASE ByteFifo_isFull(uart.rxFifo)
      <3>1. Delivered' = d /\ "RF" \in uart'.errorFlags
        BY <1>2, <1>4, <2>5 DEF Uart_handleRx, DropByte, Delivered, UartType
      <3>2. Line' = (d \o Tail(h)) \o s
        BY <2>2, <3>1 DEF Line
      <3> DEFINE t == h \o s
                 i == Len(d \o t) - Len(t) + 1
      <3> HIDE DEF d, h, s
      <3>3. t \in Seq(Byte) /\ t # <<>> /\ Tail(t) = Tail(h) \o s
        BY <1>1, <2>1, FrontOf
      <3>4. (d \o Tail(h)) \o s = d \o (Tail(h) \o s)
        BY <1>1, <2>4, ConcatAssociative
      <3>5. Line = d \o t
        BY <1>1
      <3> HIDE DEF t
      <3>6. SubSeq(d \o t, 1, i - 1) \o SubSeq(d \o t, i + 1, Len(d \o t))
              = d \o Tail(t)
        BY <1>1, <3>3, HeadDropped
      <3>7. i \in 1 .. Len(d \o t)
        <4>1. /\ Len(d) \in Nat /\ Len(t) \in Nat \ {0}
              /\ Len(d \o t) = Len(d) + Len(t)
          BY <1>1, <3>3, ConcatProperties, LenProperties, EmptySeq
        <4>2. QED
          BY <4>1
      <3> HIDE DEF i
      <3>8. /\ i \in 1 .. Len(Line)
            /\ Line' = SubSeq(Line, 1, i - 1) \o SubSeq(Line, i + 1, Len(Line))
        BY <3>2, <3>3, <3>4, <3>5, <3>6, <3>7
      <3>9. QED
        BY <1>1, <2>2, <2>3, <3>1, <3>8, Overflows
    <2>6. CASE ~ByteFifo_isFull(uart.rxFifo)
      <3>1. Delivered' = Append(d, Head(h))
        <4>1. uart.rxFifo # NULL /\ IsByteFifo(uart.rxFifo)
          BY <1>4 DEF RxReady, TypeOK, FifosOK
        <4>2. /\ IsByteFifo(ByteFifo_push(uart.rxFifo, Head(h)))
              /\ Contents(ByteFifo_push(uart.rxFifo, Head(h)))
                   = Append(Contents(uart.rxFifo), Head(h))
          BY <2>4, <2>6, <4>1, PushContents
        <4>3. ByteFifo_push(uart.rxFifo, Head(h)) # NULL
          BY <4>2, NullAssumption DEF IsByteFifo
        <4>4. uart'.rxFifo = ByteFifo_push(uart.rxFifo, Head(h))
          BY <1>2, <1>4, <2>6 DEF Uart_handleRx, TakeByte, UartType
        <4>5. QED
          BY <4>1, <4>2, <4>3, <4>4 DEF Delivered
      <3>2. Line' = (Append(d, Head(h)) \o Tail(h)) \o s
        BY <2>2, <3>1 DEF Line
      <3>3. Line = (d \o h) \o s
        BY DEF Line
      <3> HIDE DEF d, h, s
      <3>4. Append(d, Head(h)) \o Tail(h) = d \o h
        BY <1>1, <2>1, HeadMoves
      <3>5. QED
        BY <2>2, <2>3, <3>2, <3>3, <3>4, Rereads
    <2>7. QED
      BY <2>5, <2>6
  <1>5. QED
    BY <1>3, <1>4

\* The callback that brings a fresh queue reads the old one out.
LEMMA RefilledLink ==
  ASSUME NEW handler \in Refills, TypeOK, HandleRxRefilled(handler)
  PROVE  TheLink!Next
  <1> DEFINE d == Delivered
             h == reg.hold
             s == Shifting
             c == RxCountFrom(SentBytesAfter(Count))
  <1>1. /\ d \in Seq(Byte) /\ h \in Seq(Byte) /\ s \in Seq(Byte)
        /\ Line \in Seq(Byte) /\ Line = d \o (h \o s) /\ h \o s \in Seq(Byte)
        /\ rxlog.taken \in Seq(Byte)
    BY LineIs
  <1>2. reg \in RegType /\ uart \in UartType /\ h # <<>>
    BY DEF TypeOK, HandleRxRefilled, RxReady, DR
  <1>3. Head(h) \in Byte /\ Tail(h) \in Seq(Byte) /\ <<Head(h)>> \o Tail(h) = h
    BY <1>1, <1>2, HeadAndTail
  <1>4. c \in RxLogType /\ c.taken = rxlog.taken
    <2>1. SentBytesAfter(Count) \in Nat
      BY DEF HandleRxRefilled, SentBytesAfter
    <2>2. QED
      BY <2>1, RxCountType
  <1>5. rxlog' = [c EXCEPT !.taken = rxlog.taken \o d]
    BY <1>4 DEF HandleRxRefilled
  <1>6. /\ reg'.hold = Tail(h) /\ Up' = Up /\ reg'.errors = reg.errors
        /\ Shifting' = s /\ Queued' = Queued
        /\ uart'.errorFlags = uart.errorFlags /\ UNCHANGED txlog
        /\ uart'.rxFifo = Refilled(Head(h))
    BY <1>2 DEF HandleRxRefilled, RegType, Up, UartType, Shifting, Queued
  <1>7. Delivered' = <<Head(h)>>
    <2>1. Refilled(Head(h)) # NULL /\ Contents(Refilled(Head(h))) = <<Head(h)>>
      BY <1>3, RefilledContents, NullAssumption DEF IsByteFifo
    <2>2. QED
      BY <1>6, <2>1 DEF Delivered
  <1>8. Line' = (<<Head(h)>> \o Tail(h)) \o s
    BY <1>6, <1>7 DEF Line
  <1>9. Line' = h \o s
    BY <1>3, <1>8
  <1> HIDE DEF d, h, s, c
  <1>10. rxlog'.taken = rxlog.taken \o d
    BY <1>4, <1>5 DEF RxLogType
  <1>11. CASE d = <<>>
    <2>1. rxlog.taken \o d = rxlog.taken /\ d \o (h \o s) = h \o s
      BY <1>1, <1>11, ConcatEmptySeq
    <2>2. QED
      BY <1>1, <1>6, <1>9, <1>10, <2>1, Rereads
  <1>12. CASE d # <<>>
    <2> DEFINE n == Len(d)
    <2>1. n \in 1 .. Len(Line)
      <3>1. Len(d) \in Nat \ {0} /\ Len(h \o s) \in Nat
            /\ Len(Line) = Len(d) + Len(h \o s)
        BY <1>1, <1>12, ConcatProperties, LenProperties, EmptySeq
      <3>2. QED
        BY <3>1
    <2>2. SubSeq(Line, 1, n) = d /\ SubSeq(Line, n + 1, Len(Line)) = h \o s
      BY <1>1, FirstPart, LastPart
    <2> HIDE DEF n
    <2>3. QED
      BY <1>6, <1>9, <1>10, <2>1, <2>2, Reads
  <1>13. QED
    BY <1>11, <1>12

\* The next queued byte goes onto the line.
LEMMA HandleTxLink ==
  ASSUME TypeOK, Uart_handleTx
  PROVE  TheLink!Next
  <1> DEFINE q == Queued
             f == Delivered \o reg.hold
             rest == ByteFifo_pull(uart.txFifo)
  <1>0. /\ reg \in RegType /\ uart \in UartType /\ txlog \in TxLogType /\ FifosOK
        /\ q \in Seq(Byte) /\ f \in Seq(Byte)
    BY LineIs, ConcatProperties DEF TypeOK
  <1>1. CASE UNCHANGED <<reg, uart, txlog>>
    BY <1>1, Stays DEF Uart_handleTx, Up
  <1>2. CASE ~UNCHANGED <<reg, uart, txlog>>
    <2>1. /\ TS /\ uart.txFifo # NULL /\ IsByteFifo(uart.txFifo)
          /\ ~ByteFifo_isEmpty(uart.txFifo)
          /\ uart' = [uart EXCEPT !.txFifo = rest]
          /\ reg' = [reg EXCEPT !.shift = PullData(uart.txFifo)]
          /\ txlog' \in {txlog, [txlog EXCEPT !.ended = Append(@, uart.txHandler)]}
          /\ UNCHANGED rxlog
      BY <1>0, <1>2 DEF Uart_handleTx, FifosOK
    <2>2. /\ q # <<>> /\ PullData(uart.txFifo) = Head(q)
          /\ IsByteFifo(rest) /\ Contents(rest) = Tail(q)
      BY <2>1, PullContents DEF Queued
    <2>3. Queued' = Tail(q)
      <3>1. rest # NULL
        BY <2>2, NullAssumption DEF IsByteFifo
      <3>2. uart'.txFifo = rest
        BY <1>0, <2>1 DEF UartType
      <3>3. QED
        BY <2>2, <3>1, <3>2 DEF Queued
    <2>4. Head(q) \in Byte
      BY <1>0, <2>2, HeadTailProperties
    <2>5. /\ reg'.hold = reg.hold /\ Up' = Up /\ reg'.errors = reg.errors
          /\ reg'.shift = Head(q)
          /\ uart'.rxFifo = uart.rxFifo /\ uart'.errorFlags = uart.errorFlags
          /\ txlog'.sends = txlog.sends
      BY <1>0, <2>1, <2>2 DEF RegType, Up, UartType, TxLogType
    <2>6. Line' = f \o <<Head(q)>>
      <3>1. Delivered' = Delivered
        BY <2>5 DEF Delivered
      <3>2. Shifting' = <<Head(q)>>
        BY <2>4, <2>5, NullAssumption DEF Shifting
      <3>3. QED
        BY <2>5, <3>1, <3>2 DEF Line
    <2>7. Line = f
      <3>1. Line = f \o <<>>
        BY <2>1 DEF Line, Shifting, TS
      <3>2. QED
        BY <1>0, <3>1, ConcatEmptySeq
    <2> HIDE DEF q, f, rest
    <2>8. Line' = Append(Line, Head(q))
      BY <1>0, <2>4, <2>6, <2>7, AppendIsConcat
    <2>9. TheLink!Transmit
      BY <2>1, <2>2, <2>3, <2>5, <2>8 DEF TheLink!Transmit, Line, q, Up
    <2>10. QED
      BY <2>9 DEF TheLink!Next
  <1>3. QED
    BY <1>1, <1>2

-----------------------------------------------------------------------------
(* Calls.                                                                  *)

\* A transfer may have its first byte on the line at once.
LEMMA WriteAsyncLink ==
  ASSUME NEW payload \in Payloads, TypeOK, WriteAsync(payload), UNCHANGED rxlog
  PROVE  TheLink!Next
  <1> DEFINE b == First(Given(payload))
             f == Delivered \o reg.hold
  <1>0. /\ reg \in RegType /\ uart \in UartType /\ txlog \in TxLogType
        /\ Line \in Seq(Byte) /\ f \in Seq(Byte)
    BY LineIs, ConcatProperties DEF TypeOK
  <1>1. b \in Byte
    BY GivenType
  <1>2. reg' = IF ~TS THEN reg ELSE [reg EXCEPT !.shift = b]
    BY DEF WriteAsync, Given, First
  <1>3. /\ uart'.rxFifo = uart.rxFifo /\ uart'.errorFlags = uart.errorFlags
        /\ txlog'.sends = txlog.sends + 1
    BY <1>0 DEF WriteAsync, UartType, TxLogType
  <1> HIDE DEF b
  <1>4. /\ reg'.hold = reg.hold /\ Up' = Up /\ reg'.errors = reg.errors
        /\ reg'.shift = IF TS THEN b ELSE reg.shift
    BY <1>0, <1>2 DEF RegType, Up
  <1>5. Delivered' = Delivered
    BY <1>3 DEF Delivered
  <1>6. CASE TS
    <2>1. Shifting' = <<b>>
      BY <1>1, <1>4, <1>6, NullAssumption DEF Shifting
    <2>2. Line = f
      <3>1. Line = f \o <<>>
        BY <1>6 DEF Line, Shifting, TS
      <3>2. QED
        BY <1>0, <3>1, ConcatEmptySeq
    <2>3. Line' = Line \o <<b>>
      BY <1>4, <1>5, <2>1, <2>2 DEF Line
    <2>4. <<b>> \in Seq(Byte)
      BY <1>1
    <2>5. QED
      BY <1>0, <1>3, <1>4, <2>3, <2>4, Transfers
  <1>7. CASE ~TS
    <2>1. Line' = Line
      BY <1>4, <1>5, <1>7 DEF Line, Shifting
    <2>2. <<>> \in Seq(Byte) /\ Line \o <<>> = Line
      BY <1>0, ConcatEmptySeq
    <2>3. QED
      BY <1>0, <1>3, <1>4, <2>1, <2>2, Transfers
  <1>8. QED
    BY <1>6, <1>7

\* Uart_write puts its byte on the line with no transfer waiting.
LEMMA WritePollLink ==
  ASSUME TypeOK, PollsAlone, WritePoll
  PROVE  TheLink!Next
  <1> DEFINE b == task.data
             f == Delivered \o reg.hold
  <1>0. /\ reg \in RegType /\ b \in Byte /\ txlog \in TxLogType
        /\ Line \in Seq(Byte) /\ f \in Seq(Byte)
    BY LineIs, ConcatProperties DEF TypeOK, TaskType
  <1>1. CASE ~TS
    BY <1>1, Stays DEF WritePoll, Up
  <1>2. CASE TS
    <2>1. Queued = <<>> /\ Queued' = <<>>
      BY DEF WritePoll, PollsAlone, Queued
    <2>2. /\ reg' = [reg EXCEPT !.shift = b]
          /\ txlog' = [txlog EXCEPT !.handed = Append(@, b)]
          /\ UNCHANGED <<uart, rxlog>>
      BY <1>2 DEF WritePoll
    <2>3. /\ reg'.hold = reg.hold /\ Up' = Up /\ reg'.errors = reg.errors
          /\ reg'.shift = b /\ txlog'.sends = txlog.sends
      BY <1>0, <2>2 DEF RegType, Up, TxLogType
    <2>4. Delivered' = Delivered /\ Shifting' = <<b>>
      BY <1>0, <2>2, <2>3, NullAssumption DEF Delivered, Shifting
    <2>5. Line' = f \o <<b>>
      BY <2>3, <2>4 DEF Line
    <2>6. Line = f
      <3>1. Line = f \o <<>>
        BY <1>2 DEF Line, Shifting, TS
      <3>2. QED
        BY <1>0, <3>1, ConcatEmptySeq
    <2> HIDE DEF b, f
    <2>7. Line' = Append(Line, b)
      BY <1>0, <2>5, <2>6, AppendIsConcat
    <2>8. TheLink!WriteByte
      BY <1>0, <2>1, <2>2, <2>3, <2>7 DEF TheLink!WriteByte, Line, Up
    <2>9. QED
      BY <2>8 DEF TheLink!Next
  <1>3. QED
    BY <1>1, <1>2

\* Uart_read reads the oldest byte on the line: it has no queue.
LEMMA ReadDataLink ==
  ASSUME TypeOK, PollsAlone, ReadData
  PROVE  TheLink!Next
  <1> DEFINE h == reg.hold
             s == Shifting
  <1>0. /\ reg \in RegType /\ rxlog \in RxLogType
        /\ h \in Seq(Byte) /\ s \in Seq(Byte) /\ h \o s \in Seq(Byte)
        /\ Line = Delivered \o (h \o s)
    BY LineIs DEF TypeOK
  <1>1. h # <<>> /\ Delivered = <<>> /\ Delivered' = <<>>
    BY DEF ReadData, DR, PollsAlone, Delivered
  <1>2. /\ reg'.hold = Tail(h) /\ Up' = Up /\ reg'.errors = reg.errors
        /\ Shifting' = s /\ Queued' = Queued
        /\ rxlog'.taken = Append(rxlog.taken, Head(h))
        /\ UNCHANGED <<uart, txlog>>
    BY <1>0 DEF ReadData, RegType, Up, RxLogType, Shifting, Queued
  <1>3. Line' = (<<>> \o Tail(h)) \o s
    BY <1>1, <1>2 DEF Line
  <1> HIDE DEF h, s
  <1>4. Line = h \o s
    BY <1>0, <1>1, ConcatEmptySeq
  <1>5. Head(Line) = Head(h) /\ Tail(Line) = Tail(h) \o s /\ Line # <<>>
    BY <1>0, <1>1, <1>4, FrontOf
  <1>6. Line' = Tail(h) \o s
    <2>1. Tail(h) \in Seq(Byte)
      BY <1>0, <1>1, HeadAndTail
    <2>2. <<>> \o Tail(h) = Tail(h)
      BY <2>1, ConcatEmptySeq
    <2>3. QED
      BY <1>3, <2>2
  <1>7. QED
    BY <1>2, <1>5, <1>6, ReadsOne

\* So does the task's pull: what is queued comes first.
LEMMA PullLink ==
  ASSUME TypeOK, Pull
  PROVE  TheLink!Next
  <1> DEFINE d == Delivered
             t == reg.hold \o Shifting
             rest == ByteFifo_pull(uart.rxFifo)
  <1>0. /\ uart \in UartType /\ rxlog \in RxLogType
        /\ d \in Seq(Byte) /\ t \in Seq(Byte) /\ Line = d \o t
        /\ reg.hold \in Seq(Byte) /\ Shifting \in Seq(Byte)
    BY LineIs DEF TypeOK
  <1>1. uart.rxFifo # NULL /\ IsByteFifo(uart.rxFifo) /\ ~ByteFifo_isEmpty(uart.rxFifo)
    BY DEF Pull, TypeOK, FifosOK
  <1>2. /\ IsByteFifo(rest) /\ Contents(rest) = Tail(d)
        /\ d # <<>> /\ PullData(uart.rxFifo) = Head(d)
    BY <1>1, PullContents DEF Delivered
  <1>3. /\ uart'.rxFifo = rest /\ Queued' = Queued
        /\ uart'.errorFlags = uart.errorFlags
        /\ rxlog'.taken = Append(rxlog.taken, Head(d))
        /\ UNCHANGED <<reg, txlog>>
    BY <1>0, <1>2 DEF Pull, UartType, RxLogType, Queued
  <1>4. Delivered' = Tail(d) /\ Shifting' = Shifting
    <2>1. rest # NULL
      BY <1>2, NullAssumption DEF IsByteFifo
    <2>2. QED
      BY <1>2, <1>3, <2>1 DEF Delivered, Shifting
  <1>5. Line' = (Tail(d) \o reg.hold) \o Shifting
    BY <1>3, <1>4 DEF Line
  <1>6. Tail(d) \in Seq(Byte)
    BY <1>0, <1>2, HeadAndTail
  <1> DEFINE h == reg.hold
             s == Shifting
  <1> HIDE DEF d, h, s, rest
  <1>7. (Tail(d) \o h) \o s = Tail(d) \o (h \o s)
    <2>1. h \in Seq(Byte) /\ s \in Seq(Byte)
      BY <1>0 DEF h, s
    <2>2. QED
      BY <1>6, <2>1, ConcatAssociative
  <1>8. Line' = Tail(d) \o t
    BY <1>5, <1>7 DEF h, s
  <1> HIDE DEF t
  <1>9. Head(Line) = Head(d) /\ Tail(Line) = Tail(d) \o t /\ Line # <<>>
    BY <1>0, <1>2, FrontOf
  <1>10. QED
    BY <1>3, <1>8, <1>9, ReadsOne DEF Up

\* Uart_readAsync attaches the queue it has, or a fresh one for an empty one.
LEMMA ReadAsyncLink ==
  ASSUME NEW handler \in RxHandlers, TypeOK, Uart_readAsync(handler)
  PROVE  TheLink!Next
  <1>0. uart \in UartType /\ rxlog \in RxLogType
    BY DEF TypeOK
  <1>1. PICK fifo \in {uart.rxFifo, ByteFifo_init(NULL, RxBlock)} :
          /\ fifo # NULL
          /\ fifo = uart.rxFifo \/ Delivered = <<>>
          /\ uart' = [uart EXCEPT !.rxFifo = fifo, !.rxHandler = handler]
    BY DEF Uart_readAsync
  <1>2. uart'.rxFifo = fifo /\ uart'.txFifo = uart.txFifo
    BY <1>0, <1>1 DEF UartType
  <1>3. rxlog'.taken = rxlog.taken
    BY <1>0 DEF Uart_readAsync, RxCountFrom, RxLogType
  <1>4. Delivered' = Delivered
    <2>1. CASE fifo = uart.rxFifo
      BY <1>2, <2>1 DEF Delivered
    <2>2. CASE fifo # uart.rxFifo
      <3>1. Contents(fifo) = <<>>
        BY <1>1, <2>2, InitContents, UartAssumption
      <3>2. QED
        BY <1>1, <1>2, <2>2, <3>1 DEF Delivered
    <2>3. QED
      BY <2>1, <2>2
  <1>5. UNCHANGED <<reg, txlog>>
    BY DEF Uart_readAsync
  <1>6. Line' = Line /\ Queued' = Queued
    BY <1>2, <1>4, <1>5 DEF Line, Shifting, Queued
  <1>7. QED
    BY <1>3, <1>5, <1>6, Rereads DEF Up

\* Uart_init abandons the two queues; Uart_shutdown and the steps of
\* Uart_setConfig take the link down or up with every byte in its place.
LEMMA LifecycleLink ==
  ASSUME TypeOK,
         \/ Uart_init \/ Uart_shutdown
         \/ \E config \in Configs : Uart_setConfig(config)
         \/ SetInterrupts \/ SetLoopback
  PROVE  TheLink!Next
  <1> DEFINE d == Delivered
             t == reg.hold \o Shifting
             n == Len(Line)
  <1>0. /\ reg \in RegType /\ uart \in UartType /\ txlog \in TxLogType
        /\ rxlog \in RxLogType
        /\ d \in Seq(Byte) /\ t \in Seq(Byte) /\ Line = d \o t
        /\ reg.hold \in Seq(Byte) /\ Line \in Seq(Byte) /\ n \in Nat
    BY LineIs DEF TypeOK
  <1>1. /\ reg'.hold = reg.hold /\ Shifting' = Shifting
        /\ rxlog'.taken = rxlog.taken /\ txlog'.sends = txlog.sends
    BY <1>0
       DEF Uart_init, Uart_shutdown, Uart_setConfig, SetInterrupts, SetLoopback,
           RegType, TxLogType, RxLogType, RxCountFrom, Shifting
  <1>2. CASE Uart_init
    <2>1. Delivered' = <<>> /\ Queued' = <<>> /\ ~Up'
      BY <1>0, <1>2 DEF Uart_init, NewUart, Delivered, Queued, RegType, Up
    <2>2. Line' = (<<>> \o reg.hold) \o Shifting
      BY <1>1, <2>1 DEF Line
    <2>3. Line' = t
      BY <1>0, <2>2, ConcatEmptySeq
    <2> DEFINE k == Len(d)
    <2>4. k \in 0 .. n /\ n \in 0 .. n
      <3>1. Len(d) \in Nat /\ Len(t) \in Nat /\ Len(Line) = Len(d) + Len(t)
        BY <1>0, ConcatProperties, LenProperties
      <3>2. QED
        BY <3>1
    <2> HIDE DEF d, t
    <2>5. SubSeq(Line, k + 1, n) = t
      BY <1>0, LastPart
    <2> HIDE DEF k
    <2>6. QED
      BY <1>1, <2>1, <2>3, <2>4, <2>5, GoesDown
  <1>3. CASE ~Uart_init
    <2>1. uart'.rxFifo = uart.rxFifo /\ uart'.txFifo = uart.txFifo
      BY <1>0, <1>3
         DEF Uart_shutdown, Uart_setConfig, SetInterrupts, SetLoopback, UartType
    <2>2. Line' = Line /\ Queued' = Queued
      BY <1>1, <2>1 DEF Line, Delivered, Queued
    <2>3. CASE Up' = Up
      BY <1>1, <2>2, <2>3, Rereads
    <2>4. CASE Up' # Up
      <3>1. ~Up \/ ~Up'
        BY <2>4 DEF Up
      <3>2. 0 \in 0 .. n /\ n \in 0 .. n
        BY <1>0
      <3>3. SubSeq(Line, 0 + 1, n) = Line
        <4>1. SubSeq(Line, 1, Len(Line)) = Line
          BY <1>0, SubSeqFull
        <4>2. 0 + 1 = 1
          OBVIOUS
        <4>3. QED
          BY <4>1, <4>2
      <3>4. QED
        BY <1>1, <2>2, <3>1, <3>2, <3>3, GoesDown
    <2>5. QED
      BY <2>3, <2>4
  <1>4. QED
    BY <1>2, <1>3

\* No other step moves a byte.
LEMMA OthersLink ==
  ASSUME TypeOK,
         \/ IsrEnter \/ Uart_handleError \/ EndReturns
         \/ WriteTimesOut \/ ReadFlag \/ ReadNoData
         \/ WriteRefused \/ QueryTx \/ ReadRefused \/ QueryRx
         \/ \E data \in SyncBytes, limit \in WriteLimits : WriteBegin(data, limit)
         \/ \E limit \in ReadLimits : ReadBegin(limit)
         \/ Uart_startup \/ Uart_registerErrorHandler \/ UNCHANGED vars
  PROVE  TheLink!Next
  <1>0. uart \in UartType /\ rxlog \in RxLogType
    BY DEF TypeOK
  <1>1. UNCHANGED <<reg, txlog>>
    BY DEF IsrEnter, Uart_handleError, EndReturns, WriteTimesOut, ReadFlag,
           ReadNoData, WriteRefused, QueryTx, ReadRefused, QueryRx, WriteBegin,
           ReadBegin, Uart_startup, Uart_registerErrorHandler, vars
  <1>2. uart'.txFifo = uart.txFifo /\ uart'.rxFifo = uart.rxFifo
    BY <1>0
       DEF IsrEnter, Uart_handleError, EndReturns, WriteTimesOut, ReadFlag,
           ReadNoData, WriteRefused, QueryTx, ReadRefused, QueryRx, WriteBegin,
           ReadBegin, Uart_startup, Uart_registerErrorHandler, vars, UartType
  <1>3. rxlog'.taken = rxlog.taken
    BY <1>0
       DEF IsrEnter, Uart_handleError, EndReturns, WriteTimesOut, ReadFlag,
           ReadNoData, WriteRefused, QueryTx, ReadRefused, QueryRx, WriteBegin,
           ReadBegin, Uart_startup, Uart_registerErrorHandler, vars, RxCountFrom,
           RxLogType
  <1>4. QED
    BY <1>1, <1>2, <1>3, Stays DEF Up

\* Every step of the driver, its handler and the device is a step of the link.
LEMMA NextLink ==
  ASSUME LineBytes = {}, TypeOK, PollsAlone, [Next]_vars
  PROVE  TheLink!Next
  <1>1. ASSUME NEW payload \in Chained, EndChains(payload) PROVE TheLink!Next
    <2>1. payload \in Payloads
      BY UartAssumption
    <2>2. QED
      BY <1>1, <2>1, WriteAsyncLink DEF EndChains
  <1>2. CASE Interrupt
    BY <1>1, <1>2, HandleRxLink, RefilledLink, HandleTxLink, OthersLink DEF Interrupt
  <1>3. CASE TaskStep
    BY <1>3, WritePollLink, ReadDataLink, LifecycleLink, OthersLink DEF TaskStep
  <1>4. CASE Sending
    BY <1>4, WriteAsyncLink, OthersLink DEF Sending, Uart_writeAsync
  <1>5. CASE Receiving
    BY <1>5, ReadAsyncLink, PullLink, OthersLink DEF Receiving
  <1>6. CASE Lifecycle
    BY <1>6, LifecycleLink, OthersLink DEF Lifecycle
  <1>7. CASE Device
    BY <1>7, DeviceLink
  <1>8. CASE UNCHANGED vars
    BY <1>8, OthersLink
  <1>9. QED
    BY <1>2, <1>3, <1>4, <1>5, <1>6, <1>7, <1>8 DEF Next

\* The driver starts with nothing waiting, on the line, or read.
LEMMA InitLink == Init => TheLink!Init
  <1> SUFFICES ASSUME Init PROVE TheLink!Init
    OBVIOUS
  <1>1. /\ Queued = <<>> /\ Delivered = <<>> /\ Shifting = <<>>
        /\ reg.hold = <<>> /\ rxlog.taken = <<>> /\ ~reg.lb
        /\ reg.errors = {} /\ uart.errorFlags = {} /\ txlog.sends = 0
    BY DEF Init, IdleReg, NewUart, Queued, Delivered, Shifting
  <1>2. <<>> \o <<>> = <<>>
    BY ConcatEmptySeq, EmptySeq
  <1>3. Delivered \o reg.hold \o Shifting = <<>>
    BY <1>1, <1>2
  <1>4. QED
    BY <1>1, <1>3 DEF TheLink!Init

\* ImplementsLink: while the far end sends no frame, everything the driver, its
\* handler and the device do to the bytes of both directions is what a line does
\* that never repeats a byte or lets one pass another, and, with the loop back
\* and the receiver on, loses one only to an overflow it flags: however
\* Uart_writeAsync, Uart_write, Uart_read, Uart_readAsync, the task's pulls, the
\* writes of Uart_setConfig and the callbacks that start the next transfer or
\* bring a fresh queue are interleaved, and whatever the configurations are.
THEOREM LinkImplemented == LineBytes = {} /\ Spec => ImplementsLink
  <1> SUFFICES ASSUME LineBytes = {} PROVE Spec => ImplementsLink
    OBVIOUS
  <1>1. RxInv /\ [Next]_vars => [TheLink!Next]_(TheLink!vars)
    BY NextLink DEF RxInv
  <1>2. QED
    BY <1>1, InitLink, RxInvariant, PTL DEF Spec, ImplementsLink, TheLink!Spec
=============================================================================
