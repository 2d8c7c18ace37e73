------------------------- MODULE ElfStream_proofs -------------------------
(***************************************************************************)
(* Proofs about `gen`, for every size of a chunk, of the FIFO and of the   *)
(* shell's buffers and for all binaries and error texts.  First, what the  *)
(* receiver guarantees whatever it receives; then the protocol, when       *)
(* nothing goes wrong, and that it implements the service of GenService.   *)
(***************************************************************************)
EXTENDS ElfStream, SequenceTheorems, TLAPS

RecvInv == StreamTypeOK /\ ReceiverInBounds

LEMMA Bounds ==
  /\ Chunk \in Nat \ {0} /\ MaxElf \in Nat \ {0}
  /\ MaxDigits \in Nat \ {0} /\ MaxGens \in Nat
BY StreamAssumption

LEMMA DigitTypes ==
  /\ \A n \in 0 .. 9 : Digit(n) \in Byte
  /\ \A b \in Digits : Value(b) \in 0 .. 9
  /\ \A n \in 0 .. 9 : Value(Digit(n)) = n
<1>1. \A n \in 0 .. 9 : Digit(n) \in Digits
  BY DEF Digits
<1>2. \A b \in Digits : Value(b) \in 0 .. 9 /\ b = Digit(Value(b))
  <2> TAKE b \in Digits
  <2>1. \E n \in 0 .. 9 : b = Digit(n)
    BY DEF Digits
  <2> HIDE DEF Digit
  <2> QED BY <2>1 DEF Value
<1>3. \A n \in 0 .. 9 : Value(Digit(n)) = n
  BY <1>1, <1>2, DigitAssumption
<1> QED BY <1>1, <1>2, <1>3 DEF Byte

\* A digit is not a newline.
LEMMA NoNewline == \A d \in Digits : d # "nl" /\ d \in Byte
BY DigitAssumption DEF Byte

\* A binary, and the size that is written for it.
LEMMA SizeLine ==
  ASSUME NEW binary \in Elves
  PROVE  /\ binary \in Seq(Byte) /\ Len(binary) \in 1 .. MaxElf /\ binary # <<>>
         /\ Decimal[Len(binary)] \in Seq(Digits) /\ Decimal[Len(binary)] \in Seq(Byte)
         /\ Len(Decimal[Len(binary)]) <= MaxDigits
         /\ Number(Decimal[Len(binary)]) = Len(binary)
<1>1. binary \in Seq(Byte) /\ Len(binary) \in 1 .. MaxElf
  BY StreamAssumption
<1>2. binary # <<>>
  BY <1>1
<1>3. /\ Decimal[Len(binary)] \in Seq(Digits) /\ Len(Decimal[Len(binary)]) <= MaxDigits
      /\ Number(Decimal[Len(binary)]) = Len(binary)
  BY <1>1, DecimalAssumption
<1>4. Digits \subseteq Byte
  BY DEF Byte
<1>5. Decimal[Len(binary)] \in Seq(Byte)
  BY <1>3, <1>4
<1> QED BY <1>1, <1>2, <1>3, <1>5

\* Reading digits one after the other.
Reading == INSTANCE FoldFacts WITH Op <- TakeDigit

LEMMA NumberSteps ==
  /\ Number(<<>>) = 0
  /\ \A read \in Seq(Digits) : \A d \in Digits :
       Number(Append(read, d)) = TakeDigit(Number(read), d)
<1>1. \A read : Number(read) = Reading!Folded(0, read)
  BY DEF Number, Reading!Folded, Reading!FoldLeft, Reading!MapThenFoldSet, Reading!Max,
         FoldLeft, MapThenFoldSet, Max
<1>2. Number(<<>>) = 0
  BY <1>1, Reading!FoldEmpty
<1>3. ASSUME NEW read \in Seq(Digits), NEW d \in Digits
      PROVE  Number(Append(read, d)) = TakeDigit(Number(read), d)
  <2>1. <<d>> \in Seq(Digits) /\ Append(read, d) = read \o <<d>>
    BY AppendIsConcat
  <2>2. Number(Append(read, d)) = Reading!Folded(Number(read), <<d>>)
    <3> DEFINE base == 0
               w == <<d>>
    <3>0. read \in Seq(Digits) /\ w \in Seq(Digits)
      BY <2>1
    <3> HIDE DEF base, w
    <3>1. Reading!Folded(base, read \o w) = Reading!Folded(Reading!Folded(base, read), w)
      BY ONLY <3>0, Reading!FoldConcat
    <3> USE DEF base, w
    <3> QED BY <1>1, <2>1, <3>1
  <2>3. 1 \in Nat /\ DOMAIN <<d>> = 1 .. 1
    OBVIOUS
  <2>4. PICK g : Reading!Folding(g, Number(read), <<d>>, 1)
    BY <2>3, Reading!Folds
  <2>5. 1 \in 1 .. 1 /\ 1 - 1 = 0 /\ <<d>>[1] = d
    OBVIOUS
  <2>6. g[1] = TakeDigit(g[0], d) /\ g[0] = Number(read)
    BY <2>4, <2>5 DEF Reading!Folding
  <2> QED BY <2>2, <2>4, <2>6 DEF Reading!Folding
<1> QED BY <1>2, <1>3

\* A multiple of the chunk stays one.
LEMMA NextMultiple ==
  ASSUME NEW c \in Nat \ {0}, NEW x \in Int, x % c = 0
  PROVE  (x + c) % c = 0
<1>1. x = c * (x \div c)
  OBVIOUS
<1>2. x + c = c * ((x \div c) + 1) /\ x \div c \in Int
  BY <1>1
<1> QED BY <1>2

\* The bytes in the state are bytes.
Strings == /\ elf_buf \in Seq(Byte) /\ last_elf \in Seq(Byte) /\ fifo \in Seq(Byte)
           /\ k2d \in Seq(Byte) /\ d2k \in Seq(Byte) /\ rbuf \in Seq(Byte)
           /\ elf \in Seq(Byte) /\ built \in Seq(Byte)

LEMMA StringsInType == StreamTypeOK => Strings
BY DEF StreamTypeOK, Strings

\* The other parts of the type invariant.
Numbers ==
  /\ remaining \in Nat /\ size \in Nat /\ size_len \in Nat /\ ack_counter \in Nat
  /\ gens \in 0 .. MaxGens

Names ==
  /\ elf_state \in {"Idle", "AwaitingSize", "AwaitingData"}
  /\ daemon \in {"line", "generate", "size ack", "send", "chunk ack", "final ack",
                "closed"}
  /\ closed_at \in {"open", "line", "generate", "size ack", "chunk ack", "final ack"}

Scalars == Numbers /\ Names

Flags == rejected \in BOOLEAN /\ lost \in BOOLEAN

LEMMA TypeParts == StreamTypeOK <=> Strings /\ Scalars /\ Flags
BY DEF StreamTypeOK, Strings, Scalars, Numbers, Names, Flags

LEMMA AckType ==
  ASSUME k2d \in Seq(Byte), Ack
  PROVE  k2d' \in Seq(Byte)
BY DEF Ack, Byte

\* The first byte of the FIFO, and the rest.
LEMMA ReceiveType ==
  ASSUME Strings, NEW state, Receive(state)
  PROVE  Head(fifo) \in Byte /\ fifo' \in Seq(Byte) /\ elf_state = state
BY HeadTailProperties DEF Strings, Receive

-----------------------------------------------------------------------------

LEMMA Init_RecvInv == ASSUME Init PROVE RecvInv
<1>1. <<>> \in Seq(Byte) /\ <<"p", "nl">> \in Seq(Byte) /\ Len(<<>>) = 0
  BY DEF Byte
<1>2. Strings
  <2>1. k2d \in Seq(Byte)
    BY <1>1 DEF Init
  <2> QED BY <1>1, <2>1 DEF Init, Strings
<1>3. Scalars
  <2>1. 0 \in 0 .. MaxGens
    BY Bounds
  <2> QED BY <2>1 DEF Init, Scalars, Numbers, Names
<1>4. Flags
  BY DEF Init, Flags
<1>5. ReceiverInBounds
  BY <1>1, Bounds DEF Init, ReceiverInBounds
<1> QED BY <1>2, <1>3, <1>4, <1>5, TypeParts DEF RecvInv

LEMMA Gen_RecvInv == ASSUME RecvInv, Gen PROVE RecvInv'
<1>1. Strings /\ Scalars /\ Flags
  BY TypeParts DEF RecvInv
<1>2. Strings'
  <2>1. k2d' \in Seq(Byte)
    <3>1. <<"g", "nl">> \in Seq(Byte)
      BY DEF Byte
    <3> QED BY <1>1, <3>1, ConcatProperties DEF Gen, Strings
  <2> QED BY <1>1, <2>1 DEF Gen, Strings, daemonVars
<1>3. Scalars'
  <2>1. Numbers'
    BY <1>1, Bounds DEF Gen, Scalars, Numbers, daemonVars
  <2>2. Names'
    BY <1>1, Bounds DEF Gen, Scalars, Names, daemonVars
  <2> QED BY <2>1, <2>2 DEF Scalars
<1>4. ReceiverInBounds'
  BY Bounds DEF Gen, RecvInv, ReceiverInBounds
<1>f. Flags'
  BY <1>1 DEF Gen, Flags
<1> QED BY <1>2, <1>3, <1>4, <1>f
        DEF RecvInv, StreamTypeOK, Strings, Scalars, Numbers, Names, Flags

LEMMA SizeByte_RecvInv == ASSUME RecvInv, SizeByte PROVE RecvInv'
<1>1. Strings /\ Scalars /\ Flags
  BY TypeParts DEF RecvInv
<1>2. Strings'
  BY <1>1, ReceiveType DEF SizeByte, Strings, daemonVars
<1>3. size' \in Nat /\ size_len' \in Nat /\ size_len' <= MaxDigits
  <2>1. CASE Head(fifo) \in Digits /\ size_len < MaxDigits
    <3>1. Value(Head(fifo)) \in 0 .. 9
      BY <2>1, DigitTypes
    <3>2. size' = 10 * size + Value(Head(fifo)) /\ size_len' = size_len + 1
      BY <2>1 DEF SizeByte, TakeDigit
    <3>3. size \in Nat /\ size_len \in Nat
      BY <1>1 DEF Scalars, Numbers
    <3> QED BY <2>1, <3>1, <3>2, <3>3, Bounds
  <2>2. CASE ~(Head(fifo) \in Digits /\ size_len < MaxDigits)
    BY <1>1, <2>2 DEF SizeByte, Scalars, Numbers, Names, RecvInv, ReceiverInBounds
  <2> QED BY <2>1, <2>2
<1>4. Scalars'
  <2>1. Numbers'
    BY <1>1, <1>3 DEF SizeByte, Scalars, Numbers, daemonVars
  <2>2. Names'
    BY <1>1, <1>3 DEF SizeByte, Scalars, Names, daemonVars
  <2> QED BY <2>1, <2>2 DEF Scalars
<1>5. ReceiverInBounds'
  BY <1>3 DEF SizeByte, RecvInv, ReceiverInBounds
<1>f. Flags'
  BY <1>1 DEF SizeByte, Flags
<1> QED BY <1>2, <1>4, <1>5, <1>f
        DEF RecvInv, StreamTypeOK, Strings, Scalars, Numbers, Names, Flags

LEMMA SizeEnd_RecvInv == ASSUME RecvInv, SizeEnd PROVE RecvInv'
<1>1. Strings /\ Scalars /\ Flags
  BY TypeParts DEF RecvInv
<1>2. Strings'
  <2>1. fifo' \in Seq(Byte) /\ k2d' \in Seq(Byte) /\ elf_buf' = <<>>
    BY <1>1, ReceiveType, AckType DEF SizeEnd, Strings
  <2> QED BY <1>1, <2>1 DEF SizeEnd, Strings, daemonVars
<1>3. Scalars'
  <2>1. Numbers'
    BY <1>1 DEF SizeEnd, Scalars, Numbers, daemonVars
  <2>2. Names'
    BY <1>1 DEF SizeEnd, Scalars, Names, daemonVars
  <2> QED BY <2>1, <2>2 DEF Scalars
<1>4. ReceiverInBounds'
  <2>1. Len(elf_buf') = 0 /\ 0 % Chunk = 0
    BY Bounds DEF SizeEnd
  <2>2. size_len' = 0 /\ ack_counter' = 0 /\ last_elf' = last_elf
    BY DEF SizeEnd
  <2>3. elf_state' = "AwaitingData" => remaining' \in 1 .. MaxElf
    BY DEF SizeEnd, ValidSize
  <2>4. Len(last_elf) <= MaxElf
    BY DEF RecvInv, ReceiverInBounds
  <2> QED BY <2>1, <2>2, <2>3, <2>4, Bounds DEF ReceiverInBounds
<1>f. Flags'
  BY <1>1 DEF SizeEnd, Flags
<1> QED BY <1>2, <1>3, <1>4, <1>f
        DEF RecvInv, StreamTypeOK, Strings, Scalars, Numbers, Names, Flags

\* DataByte and LastByte: there is room for the byte.
LEMMA RoomInBuffer ==
  ASSUME RecvInv, NEW b \in Byte, elf_state = "AwaitingData"
  PROVE  /\ Len(elf_buf) < MaxElf
         /\ Append(elf_buf, b) \in Seq(Byte)
         /\ Len(Append(elf_buf, b)) = Len(elf_buf) + 1
<1>1. elf_buf \in Seq(Byte) /\ remaining \in Nat
  BY TypeParts DEF RecvInv, Strings, Scalars, Numbers, Names
<1> QED BY <1>1, Bounds DEF RecvInv, ReceiverInBounds

LEMMA DataByte_RecvInv == ASSUME RecvInv, DataByte PROVE RecvInv'
<1>1. Strings /\ Scalars /\ Flags
  BY TypeParts DEF RecvInv
<1>2. Head(fifo) \in Byte /\ fifo' \in Seq(Byte) /\ elf_state = "AwaitingData"
  BY <1>1, ReceiveType DEF DataByte
<1>3. elf_buf' \in Seq(Byte) /\ Len(elf_buf') = Len(elf_buf) + 1
  BY <1>2, RoomInBuffer DEF DataByte
<1>4. Strings'
  <2>1. k2d' \in Seq(Byte)
    BY <1>1, AckType DEF DataByte, Strings
  <2> QED BY <1>1, <1>2, <1>3, <2>1 DEF DataByte, Strings, daemonVars
<1>5. Scalars'
  <2>1. Numbers'
    BY <1>1 DEF DataByte, Scalars, Numbers, daemonVars
  <2>2. Names'
    BY <1>1 DEF DataByte, Scalars, Names, daemonVars
  <2> QED BY <2>1, <2>2 DEF Scalars
<1>6. ReceiverInBounds'
  <2> DEFINE x == Len(elf_buf) - ack_counter
  <2>1. /\ Len(elf_buf) \in Nat /\ ack_counter \in Nat /\ Chunk \in Nat \ {0}
        /\ MaxElf \in Nat /\ remaining \in Nat
        /\ ack_counter < Chunk /\ x % Chunk = 0
        /\ size_len <= MaxDigits /\ Len(last_elf) <= MaxElf
        /\ Len(elf_buf) + remaining <= MaxElf
    <3>1. Len(elf_buf) \in Nat
      BY <1>1 DEF Strings
    <3>2. ack_counter \in Nat /\ remaining \in Nat
      BY <1>1 DEF Scalars, Numbers, Names
    <3> QED BY <1>2, <3>1, <3>2, Bounds DEF RecvInv, ReceiverInBounds
  <2>2. remaining' >= 1 /\ Len(elf_buf') + remaining' <= MaxElf
    BY <1>3, <2>1 DEF DataByte
  <2>3. ack_counter' < Chunk /\ (Len(elf_buf') - ack_counter') % Chunk = 0
    <3>1. CASE ChunkComplete
      <4>1. ack_counter' = 0 /\ ack_counter + 1 = Chunk
        BY <2>1, <3>1 DEF DataByte, ChunkComplete
      <4>2. Len(elf_buf') - ack_counter' = x + Chunk
        BY <1>3, <2>1, <4>1
      <4>3. (x + Chunk) % Chunk = 0
        <5>1. x \in Int
          BY <2>1
        <5> HIDE DEF x
        <5> QED BY <2>1, <5>1, NextMultiple
      <4> QED BY <2>1, <4>1, <4>2, <4>3
    <3>2. CASE ~ChunkComplete
      <4>1. ack_counter' = ack_counter + 1 /\ ack_counter + 1 < Chunk
        BY <2>1, <3>2 DEF DataByte, ChunkComplete
      <4>2. Len(elf_buf') - ack_counter' = x
        BY <1>3, <2>1, <4>1
      <4> QED BY <2>1, <4>1, <4>2
    <3> QED BY <3>1, <3>2
  <2>4. size_len' = size_len /\ last_elf' = last_elf
    BY DEF DataByte
  <2> QED BY <2>1, <2>2, <2>3, <2>4 DEF ReceiverInBounds
<1>f. Flags'
  BY <1>1 DEF DataByte, Flags
<1> QED BY <1>4, <1>5, <1>6, <1>f
        DEF RecvInv, StreamTypeOK, Strings, Scalars, Numbers, Names, Flags

LEMMA LastByte_RecvInv == ASSUME RecvInv, LastByte PROVE RecvInv'
<1>1. Strings /\ Scalars /\ Flags
  BY TypeParts DEF RecvInv
<1>2. Head(fifo) \in Byte /\ fifo' \in Seq(Byte) /\ elf_state = "AwaitingData"
  BY <1>1, ReceiveType DEF LastByte
<1>3. last_elf' \in Seq(Byte) /\ Len(last_elf') <= MaxElf
  <2>1. last_elf' = Append(elf_buf, Head(fifo))
    BY <1>2, RoomInBuffer DEF LastByte
  <2>2. Len(elf_buf) \in Nat /\ MaxElf \in Nat
    BY <1>1, Bounds DEF Strings
  <2> QED BY <1>2, <2>1, <2>2, RoomInBuffer
<1>4. Strings'
  <2>1. k2d' \in Seq(Byte) /\ elf_buf' = <<>>
    BY <1>1, AckType DEF LastByte, Strings
  <2> QED BY <1>1, <1>2, <1>3, <2>1 DEF LastByte, Strings, daemonVars
<1>5. Scalars'
  <2>1. Numbers'
    BY <1>1 DEF LastByte, Scalars, Numbers, daemonVars
  <2>2. Names'
    BY <1>1 DEF LastByte, Scalars, Names, daemonVars
  <2> QED BY <2>1, <2>2 DEF Scalars
<1>6. ReceiverInBounds'
  BY <1>3, Bounds DEF LastByte, ReceiverInBounds
<1>f. Flags'
  BY <1>1 DEF LastByte, Flags
<1> QED BY <1>4, <1>5, <1>6, <1>f
        DEF RecvInv, StreamTypeOK, Strings, Scalars, Numbers, Names, Flags

-----------------------------------------------------------------------------
\* The other steps leave the receiver alone.

LEMMA Deliver_RecvInv == ASSUME RecvInv, Deliver PROVE RecvInv'
<1>1. Strings /\ Scalars /\ Flags
  BY TypeParts DEF RecvInv
<1>2. Strings'
  <2>1. d2k \in Seq(Byte) /\ d2k # <<>> /\ fifo \in Seq(Byte)
    BY <1>1 DEF Deliver, Strings
  <2>2. fifo' \in Seq(Byte) /\ d2k' \in Seq(Byte)
    BY <2>1, HeadTailProperties, AppendProperties DEF Deliver
  <2> QED BY <1>1, <2>2 DEF Deliver, Strings, shellVars, daemonVars
<1>3. Scalars' /\ ReceiverInBounds'
  <2>1. Numbers'
    BY <1>1 DEF Deliver, Scalars, Numbers, shellVars
  <2>2. Names'
    BY <1>1 DEF Deliver, AwaitsAck, Scalars, Names, shellVars, daemonVars
  <2>3. ReceiverInBounds'
    BY DEF Deliver, RecvInv, ReceiverInBounds, shellVars
  <2> QED BY <2>1, <2>2, <2>3 DEF Scalars
<1>4. Flags'
  BY <1>1 DEF Deliver, Flags
<1> QED BY <1>2, <1>3, <1>4
        DEF RecvInv, StreamTypeOK, Strings, Scalars, Numbers, Names, Flags

LEMMA Overrun_RecvInv == ASSUME RecvInv, Overrun PROVE RecvInv'
<1>1. Strings /\ Scalars /\ Flags
  BY TypeParts DEF RecvInv
<1>2. Strings'
  <2>1. d2k \in Seq(Byte) /\ d2k # <<>>
    BY <1>1 DEF Overrun, Strings
  <2>2. d2k' \in Seq(Byte)
    BY <2>1, HeadTailProperties DEF Overrun
  <2> QED BY <1>1, <2>2 DEF Overrun, Strings, shellVars, daemonVars
<1>3. Scalars' /\ ReceiverInBounds'
  <2>1. Numbers'
    BY <1>1 DEF Overrun, Scalars, Numbers, shellVars
  <2>2. Names'
    BY <1>1 DEF Overrun, AwaitsAck, Scalars, Names, shellVars, daemonVars
  <2>3. ReceiverInBounds'
    BY DEF Overrun, RecvInv, ReceiverInBounds, shellVars
  <2> QED BY <2>1, <2>2, <2>3 DEF Scalars
<1>4. Flags'
  BY <1>1 DEF Overrun, Flags
<1> QED BY <1>2, <1>3, <1>4
        DEF RecvInv, StreamTypeOK, Strings, Scalars, Numbers, Names, Flags

LEMMA ReadLine_RecvInv == ASSUME RecvInv, ReadLine PROVE RecvInv'
<1>1. Strings /\ Scalars /\ Flags
  BY TypeParts DEF RecvInv
<1>2. Strings'
  <2> DEFINE all == rbuf \o k2d
  <2>1. all \in Seq(Byte)
    BY <1>1, ConcatProperties DEF Strings
  <2>2. rbuf' \in Seq(Byte) /\ k2d' \in Seq(Byte)
    <3>1. PICK i \in DOMAIN all : \E end \in i .. Len(all) :
            /\ rbuf' = SubSeq(all, i + 1, end)
            /\ k2d' = SubSeq(all, end + 1, Len(all))
      BY DEF ReadLine
    <3>e. PICK end \in i .. Len(all) :
            /\ rbuf' = SubSeq(all, i + 1, end)
            /\ k2d' = SubSeq(all, end + 1, Len(all))
      BY <3>1
    <3> HIDE DEF all
    <3>2. i \in 1 .. Len(all) /\ Len(all) \in Nat
      BY <2>1
    <3>3. end \in i .. Len(all)
      BY <3>e
    <3>4. \A j \in (i + 1) .. end : all[j] \in Byte
      BY <2>1, <3>2, <3>3
    <3>5. \A j \in (end + 1) .. Len(all) : all[j] \in Byte
      BY <2>1, <3>2, <3>3
    <3> QED BY <2>1, <3>e, <3>2, <3>3, <3>4, <3>5, SubSeqProperties
  <2>3. d2k' \in Seq(Byte)
    <3>1. <<"x", "x", "nl">> \in Seq(Byte)
      BY DEF Byte
    <3> QED BY <1>1, <3>1, ConcatProperties DEF ReadLine, Strings
  <2> QED BY <1>1, <2>2, <2>3 DEF ReadLine, Strings, shellVars
<1>3. Scalars' /\ ReceiverInBounds'
  <2>1. Numbers'
    BY <1>1 DEF ReadLine, Scalars, Numbers, shellVars
  <2>2. Names'
    BY <1>1 DEF ReadLine, AwaitsAck, Scalars, Names, shellVars, daemonVars
  <2>3. ReceiverInBounds'
    BY DEF ReadLine, RecvInv, ReceiverInBounds, shellVars
  <2> QED BY <2>1, <2>2, <2>3 DEF Scalars
<1>4. Flags'
  BY <1>1 DEF ReadLine, Flags
<1> QED BY <1>2, <1>3, <1>4
        DEF RecvInv, StreamTypeOK, Strings, Scalars, Numbers, Names, Flags

LEMMA Generate_RecvInv == ASSUME RecvInv, Generate PROVE RecvInv'
<1>1. Strings /\ Scalars /\ Flags
  BY TypeParts DEF RecvInv
<1>2. Strings'
  <2>1. d2k' \in Seq(Byte) /\ elf' \in Seq(Byte) /\ built' \in Seq(Byte)
    <3>1. CASE \E binary \in Elves :
                 /\ d2k' = Append(d2k \o Decimal[Len(binary)], "nl")
                 /\ elf' = binary /\ built' = binary
      <4>1. PICK binary \in Elves : /\ d2k' = Append(d2k \o Decimal[Len(binary)], "nl")
                                    /\ elf' = binary /\ built' = binary
        BY <3>1
      <4>2. binary \in Seq(Byte) /\ Decimal[Len(binary)] \in Seq(Byte) /\ "nl" \in Byte
        BY SizeLine DEF Byte
      <4>3. d2k \o Decimal[Len(binary)] \in Seq(Byte)
        BY <1>1, <4>2, ConcatProperties DEF Strings
      <4>4. d2k' \in Seq(Byte)
        BY <4>1, <4>2, <4>3, AppendProperties
      <4> QED BY <4>1, <4>2, <4>4
    <3>2. CASE \E text \in ErrorLines : /\ d2k' = Append(d2k \o text, "nl")
                                        /\ elf' = <<>> /\ built' = built
      <4>1. PICK text \in ErrorLines : d2k' = Append(d2k \o text, "nl")
        BY <3>2
      <4>2. text \in Seq(Byte) /\ "nl" \in Byte
        BY StreamAssumption DEF Byte
      <4>3. d2k \o text \in Seq(Byte)
        BY <1>1, <4>2, ConcatProperties DEF Strings
      <4>4. d2k' \in Seq(Byte)
        BY <4>1, <4>2, <4>3, AppendProperties
      <4> QED BY <1>1, <3>2, <4>4 DEF Strings
    <3> QED BY <3>1, <3>2 DEF Generate
  <2> QED BY <1>1, <2>1 DEF Generate, Strings, shellVars
<1>3. Scalars' /\ ReceiverInBounds'
  <2>1. Numbers'
    BY <1>1 DEF Generate, Scalars, Numbers, shellVars
  <2>2. Names'
    BY <1>1 DEF Generate, AwaitsAck, Scalars, Names, shellVars, daemonVars
  <2>3. ReceiverInBounds'
    BY DEF Generate, RecvInv, ReceiverInBounds, shellVars
  <2> QED BY <2>1, <2>2, <2>3 DEF Scalars
<1>4. Flags'
  BY <1>1 DEF Generate, Flags
<1> QED BY <1>2, <1>3, <1>4
        DEF RecvInv, StreamTypeOK, Strings, Scalars, Numbers, Names, Flags

LEMMA GiveUp_RecvInv ==
  ASSUME RecvInv, GenerateFails \/ ReadTimeout PROVE RecvInv'
<1>1. Strings /\ Scalars /\ Flags
  BY TypeParts DEF RecvInv
<1>2. Strings'
  <2>1. <<>> \in Seq(Byte)
    OBVIOUS
  <2> QED BY <1>1, <2>1 DEF GenerateFails, ReadTimeout, Strings, shellVars
<1>3. Scalars' /\ ReceiverInBounds'
  <2>1. Numbers'
    BY <1>1 DEF GenerateFails, ReadTimeout, Scalars, Numbers, shellVars
  <2>2. Names'
    BY <1>1 DEF GenerateFails, ReadTimeout, AwaitsAck, Scalars, Names, shellVars, daemonVars
  <2>3. ReceiverInBounds'
    BY DEF GenerateFails, ReadTimeout, RecvInv, ReceiverInBounds, shellVars
  <2> QED BY <2>1, <2>2, <2>3 DEF Scalars
<1>4. Flags'
  BY <1>1 DEF GenerateFails, ReadTimeout, Flags
<1> QED BY <1>2, <1>3, <1>4
        DEF RecvInv, StreamTypeOK, Strings, Scalars, Numbers, Names, Flags

LEMMA ReadAck_RecvInv == ASSUME RecvInv, ReadAck PROVE RecvInv'
<1>1. Strings /\ Scalars /\ Flags
  BY TypeParts DEF RecvInv
<1>2. Strings'
  <2>1. k2d' \in Seq(Byte)
    BY <1>1, HeadTailProperties DEF ReadAck, Strings
  <2> QED BY <1>1, <2>1 DEF ReadAck, Strings, shellVars
<1>3. Scalars' /\ ReceiverInBounds'
  <2>1. Numbers'
    BY <1>1 DEF ReadAck, Scalars, Numbers, shellVars
  <2>2. Names'
    BY <1>1 DEF ReadAck, AwaitsAck, Scalars, Names, shellVars, daemonVars
  <2>3. ReceiverInBounds'
    BY DEF ReadAck, RecvInv, ReceiverInBounds, shellVars
  <2> QED BY <2>1, <2>2, <2>3 DEF Scalars
<1>4. Flags'
  BY <1>1 DEF ReadAck, Flags
<1> QED BY <1>2, <1>3, <1>4
        DEF RecvInv, StreamTypeOK, Strings, Scalars, Numbers, Names, Flags

LEMMA SendChunk_RecvInv == ASSUME RecvInv, SendChunk PROVE RecvInv'
<1>1. Strings /\ Scalars /\ Flags
  BY TypeParts DEF RecvInv
<1>2. Strings'
  <2>1. elf \in Seq(Byte) /\ d2k \in Seq(Byte) /\ Len(elf) \in Nat
    BY <1>1 DEF Strings
  <2>2. NextChunk \in 0 .. Len(elf)
    BY <2>1, StreamAssumption DEF NextChunk
  <2>3. \A j \in 1 .. Len(elf) : elf[j] \in Byte
    BY <2>1
  <2>4. SubSeq(elf, 1, NextChunk) \in Seq(Byte)
    BY <2>1, <2>2, <2>3, SubSeqProperties
  <2>5. SubSeq(elf, NextChunk + 1, Len(elf)) \in Seq(Byte)
    BY <2>1, <2>2, <2>3, SubSeqProperties
  <2>6. d2k' \in Seq(Byte) /\ elf' \in Seq(Byte)
    BY <2>1, <2>4, <2>5, ConcatProperties DEF SendChunk
  <2> QED BY <1>1, <2>6 DEF SendChunk, Strings, shellVars
<1>3. Scalars' /\ ReceiverInBounds'
  <2>1. Numbers'
    BY <1>1 DEF SendChunk, Scalars, Numbers, shellVars
  <2>2. Names'
    BY <1>1 DEF SendChunk, AwaitsAck, Scalars, Names, shellVars, daemonVars
  <2>3. ReceiverInBounds'
    BY DEF SendChunk, RecvInv, ReceiverInBounds, shellVars
  <2> QED BY <2>1, <2>2, <2>3 DEF Scalars
<1>4. Flags'
  BY <1>1 DEF SendChunk, Flags
<1> QED BY <1>2, <1>3, <1>4
        DEF RecvInv, StreamTypeOK, Strings, Scalars, Numbers, Names, Flags

LEMMA Next_RecvInv == ASSUME RecvInv, [Next]_vars PROVE RecvInv'
<1>1. CASE UNCHANGED vars
  BY <1>1 DEF RecvInv, StreamTypeOK, ReceiverInBounds, vars, shellVars, daemonVars
<1>2. CASE Next
  BY <1>2, Gen_RecvInv, SizeByte_RecvInv, SizeEnd_RecvInv, DataByte_RecvInv,
     LastByte_RecvInv, Deliver_RecvInv, Overrun_RecvInv, ReadLine_RecvInv,
     Generate_RecvInv, GiveUp_RecvInv, ReadAck_RecvInv, SendChunk_RecvInv
     DEF Next, Shell, Daemon
<1> QED BY <1>1, <1>2

LEMMA RecvInvCorrect == Spec => []RecvInv
BY Init_RecvInv, Next_RecvInv, PTL DEF Spec

\* `gen` stays within the types of its state, whatever happens on the way.
THEOREM StreamTypeCorrect == Spec => []StreamTypeOK
<1>1. RecvInv => StreamTypeOK
  BY DEF RecvInv
<1> QED BY <1>1, RecvInvCorrect, PTL

\* Whatever the bytes that come over COM2, the receiver of shell.rs writes
\* inside size_buf and elf_buf and never counts below zero.
THEOREM ReceiverInBoundsCorrect == Spec => []ReceiverInBounds
<1>1. RecvInv => ReceiverInBounds
  BY DEF RecvInv
<1> QED BY <1>1, RecvInvCorrect, PTL

-----------------------------------------------------------------------------

(***************************************************************************)
(* The protocol of `gen` when nothing goes wrong: where the shell is,      *)
(* where the daemon is and what is on its way between them fit in one of   *)
(* ten phases.                                                             *)
(***************************************************************************)

\* What is on its way to the shell.
Wire == fifo \o d2k

Quiet == Wire = <<>> /\ rbuf = <<>> /\ elf = <<>>

\* The phases, in the order in which a `gen` passes through them.
AllDone == daemon = "line" /\ elf_state = "Idle" /\ Quiet /\ k2d = <<>>

Asked ==
  /\ daemon = "line" /\ elf_state = "AwaitingSize" /\ Quiet /\ k2d = <<"g", "nl">>
  /\ size = 0 /\ size_len = 0

Generating ==
  /\ daemon = "generate" /\ elf_state = "AwaitingSize" /\ Quiet /\ k2d = <<>>
  /\ size = 0 /\ size_len = 0

\* The digits that the shell has read and those on their way make up the size.
SizeSplit(read, rest) ==
  /\ read \o rest = Decimal[Len(built)] /\ Wire = Append(rest, "nl")
  /\ size = Number(read) /\ size_len = Len(read)
SizeOnWire == \E read, rest \in Seq(Digits) : SizeSplit(read, rest)

SizeSent ==
  /\ daemon = "size ack" /\ elf_state = "AwaitingSize" /\ k2d = <<>>
  /\ elf = built /\ built \in Elves
  /\ SizeOnWire

SizeTaken ==
  /\ daemon = "size ack" /\ elf_state = "AwaitingData" /\ k2d = <<"ack">>
  /\ elf = built /\ built \in Elves /\ Wire = <<>>
  /\ elf_buf = <<>> /\ remaining = Len(built) /\ ack_counter = 0

Sending ==
  /\ daemon = "send" /\ elf_state = "AwaitingData" /\ k2d = <<>>
  /\ elf # <<>> /\ built \in Elves /\ Wire = <<>>
  /\ elf_buf \o elf = built /\ remaining = Len(elf) /\ ack_counter = 0

ChunkSent ==
  /\ daemon = "chunk ack" /\ elf_state = "AwaitingData"
  /\ elf # <<>> /\ built \in Elves
  /\ (elf_buf \o Wire) \o elf = built /\ remaining = Len(Wire) + Len(elf)
  /\ \/ Wire # <<>> /\ k2d = <<>> /\ ack_counter + Len(Wire) = Chunk
     \/ Wire = <<>> /\ k2d = <<"ack">> /\ ack_counter = 0

RestSent ==
  /\ daemon = "final ack" /\ elf_state = "AwaitingData" /\ k2d = <<>>
  /\ elf = <<>> /\ built \in Elves /\ Wire # <<>>
  /\ elf_buf \o Wire = built /\ remaining = Len(Wire)
  /\ ack_counter + Len(Wire) <= Chunk

Received == daemon = "final ack" /\ elf_state = "Idle" /\ Quiet /\ k2d = <<"ack">>

\* The user is faster than the daemon with the last ACK.
AskedAgain ==
  /\ daemon = "final ack" /\ elf_state = "AwaitingSize" /\ Quiet
  /\ k2d = <<"ack", "g", "nl">>
  /\ size = 0 /\ size_len = 0

Phase == \/ AllDone \/ Asked \/ Generating \/ SizeSent \/ SizeTaken \/ Sending
         \/ ChunkSent \/ RestSent \/ Received \/ AskedAgain

Kept ==
  /\ daemon # "line" => rbuf = <<>>
  /\ elf_state = "Idle" /\ gens > 0 => last_elf = built /\ built \in Elves
  /\ elf_state # "Idle" => gens > 0

Calm == Phase /\ Kept

CalmInv == RecvInv /\ (trouble = {} => Calm)

-----------------------------------------------------------------------------

\* Moving the first element of one sequence to the end of another.
LEMMA MoveFirst ==
  ASSUME NEW S, NEW s \in Seq(S), NEW w \in Seq(S), w # <<>>
  PROVE  Append(s, Head(w)) \o Tail(w) = s \o w
<1>1. Head(w) \in S /\ Tail(w) \in Seq(S)
  BY HeadTailProperties
<1>2. Append(s, Head(w)) = s \o <<Head(w)>>
  BY <1>1, AppendIsConcat
<1>3. <<Head(w)>> \in Seq(S)
  BY <1>1
<1>4. (s \o <<Head(w)>>) \o Tail(w) = s \o (<<Head(w)>> \o Tail(w))
  BY <1>1, <1>3, ConcatAssociative
<1>5. <<Head(w)>> \o Tail(w) = w
  OBVIOUS
<1> QED BY <1>2, <1>4, <1>5

LEMMA Strs == RecvInv => Strings
BY StringsInType DEF RecvInv

LEMMA WireType == ASSUME RecvInv PROVE Wire \in Seq(Byte) /\ Len(Wire) \in Nat
<1>1. Wire \in Seq(Byte)
  BY Strs, ConcatProperties DEF Strings, Wire
<1> QED BY <1>1

\* The shell takes the first byte on the way to it.
LEMMA Taken ==
  ASSUME RecvInv, NEW state, Receive(state), UNCHANGED d2k
  PROVE  /\ Wire # <<>> /\ Head(Wire) = Head(fifo) /\ Wire' = Tail(Wire)
         /\ Head(Wire) \in Byte /\ Wire' \in Seq(Byte) /\ Len(Wire') = Len(Wire) - 1
         /\ Len(Wire') \in Nat
<1>1. fifo \in Seq(Byte) /\ d2k \in Seq(Byte) /\ fifo # <<>>
  BY Strs DEF Receive, Strings
<1>2. Wire # <<>> /\ Head(Wire) = Head(fifo) /\ Tail(Wire) = Tail(fifo) \o d2k
  BY <1>1 DEF Wire
<1>3. Wire' = Tail(Wire)
  BY <1>2 DEF Wire, Receive
<1> QED BY <1>2, <1>3, WireType, HeadTailProperties

LEMMA NothingOnTheWay == ASSUME RecvInv, Wire = <<>> PROVE fifo = <<>> /\ d2k = <<>>
<1>1. fifo \in Seq(Byte) /\ d2k \in Seq(Byte)
  BY Strs DEF Strings
<1> QED BY <1>1, ConcatEqualIffEmpty DEF Wire

\* An ACK when nothing is on the way to the daemon.
LEMMA FirstAck ==
  ASSUME Ack, k2d = <<>>, daemon # "closed"
  PROVE  k2d' = <<"ack">>
<1>1. k2d' = Append(<<>>, "ack")
  BY DEF Ack
<1>2. Append(<<>>, "ack") = <<"ack">>
  OBVIOUS
<1> QED BY <1>1, <1>2

LEMMA Behind == ASSUME NEW a, NEW b, NEW c PROVE <<a>> \o <<b, c>> = <<a, b, c>>
<1> DEFINE x == <<a>> \o <<b, c>>
           y == <<a, b, c>>
           T == {a, b, c}
<1>1. <<a>> \in Seq(T) /\ <<b, c>> \in Seq(T) /\ y \in Seq(T)
  OBVIOUS
<1>2. x \in Seq(T)
  BY <1>1, ConcatProperties
<1>3. Len(<<a>>) = 1 /\ Len(<<b, c>>) = 2
  OBVIOUS
<1>4. Len(x) = 3 /\ \A i \in 1 .. 3 : x[i] = IF i <= 1 THEN <<a>>[i] ELSE <<b, c>>[i - 1]
  BY <1>1, <1>3, ConcatProperties
<1>5. x[1] = a /\ x[2] = b /\ x[3] = c
  <2> HIDE DEF x
  <2>1. x[1] = <<a>>[1] /\ x[2] = <<b, c>>[1] /\ x[3] = <<b, c>>[2]
    BY <1>4
  <2> QED BY <2>1
<1>6. Len(y) = 3 /\ y[1] = a /\ y[2] = b /\ y[3] = c
  OBVIOUS
<1>7. \A i \in 1 .. Len(x) : x[i] = y[i]
  <2> HIDE DEF x, y
  <2> QED BY <1>4, <1>5, <1>6
<1> HIDE DEF x, y, T
<1>8. x = y
  BY <1>1, <1>2, <1>4, <1>6, <1>7, SeqEqual
<1> QED BY <1>8 DEF x, y

-----------------------------------------------------------------------------

LEMMA Init_Calm == ASSUME Init PROVE CalmInv
<1>1. RecvInv
  BY Init_RecvInv
<1>2. ASSUME trouble = {} PROVE Calm
  <2>1. Wire = <<>>
    BY DEF Init, Wire
  <2>2. AllDone
    BY <1>2, <2>1 DEF Init, AllDone, Quiet
  <2> QED BY <2>2 DEF Calm, Phase, Kept, Init
<1> QED BY <1>1, <1>2 DEF CalmInv

LEMMA Gen_Calm == ASSUME RecvInv, Calm, trouble = {}, Gen PROVE Calm'
<1>1. Wire' = Wire /\ elf_state = "Idle" /\ elf_state' = "AwaitingSize"
  BY DEF Gen, Wire
<1>2. Kept'
  <2>1. gens \in Nat
    BY TypeParts, Bounds DEF RecvInv, Scalars, Numbers
  <2>2. gens' > 0
    BY <2>1 DEF Gen
  <2>3. (daemon # "line" => rbuf = <<>>)'
    BY DEF Calm, Kept, Gen, daemonVars
  <2> QED BY <1>1, <2>2, <2>3 DEF Kept
<1>3. CASE AllDone
  <2>1. k2d' = <<"g", "nl">>
    BY <1>3 DEF AllDone, Gen
  <2>2. Asked'
    BY <1>1, <1>3, <2>1 DEF AllDone, Asked, Gen, Quiet, daemonVars
  <2> QED BY <1>2, <2>2 DEF Calm, Phase
<1>4. CASE Received
  <2>1. k2d' = <<"ack", "g", "nl">>
    <3>1. <<"ack">> \o <<"g", "nl">> = <<"ack", "g", "nl">>
      BY Behind
    <3>2. k2d' = k2d \o <<"g", "nl">>
      BY <1>4 DEF Received, Gen
    <3> QED BY <1>4, <3>1, <3>2 DEF Received
  <2>2. AskedAgain'
    BY <1>1, <1>4, <2>1 DEF Received, AskedAgain, Gen, Quiet, daemonVars
  <2> QED BY <1>2, <2>2 DEF Calm, Phase
<1> QED BY <1>1, <1>3, <1>4
        DEF Calm, Phase, AllDone, Asked, Generating, SizeSent, SizeTaken, Sending,
            ChunkSent, RestSent, Received, AskedAgain

\* The first byte of what is left of a size line.
LEMMA SizeLineHead ==
  ASSUME NEW rest \in Seq(Digits)
  PROVE  /\ rest = <<>> => Head(Append(rest, "nl")) = "nl" /\ Tail(Append(rest, "nl")) = <<>>
         /\ rest # <<>> => /\ Head(rest) \in Digits /\ Tail(rest) \in Seq(Digits)
                          /\ Head(Append(rest, "nl")) = Head(rest)
                          /\ Tail(Append(rest, "nl")) = Append(Tail(rest), "nl")
<1>1. CASE rest = <<>>
  <2>1. Append(<<>>, "nl") = <<"nl">> /\ Head(<<"nl">>) = "nl" /\ Tail(<<"nl">>) = <<>>
    OBVIOUS
  <2> QED BY <1>1, <2>1
<1>2. CASE rest # <<>>
  <2>1. Head(rest) \in Digits /\ Tail(rest) \in Seq(Digits)
    BY <1>2, HeadTailProperties
  <2>2. Head(Append(rest, "nl")) = Head(rest)
    BY <1>2
  <2>3. Tail(Append(rest, "nl")) = Append(Tail(rest), "nl")
    BY <1>2
  <2> QED BY <1>2, <2>1, <2>2, <2>3
<1> QED BY <1>1, <1>2

LEMMA SizeByte_Calm == ASSUME RecvInv, Calm, SizeByte PROVE Calm'
<1>1. /\ Wire # <<>> /\ Head(Wire) # "nl" /\ Wire' = Tail(Wire)
      /\ Head(Wire) = Head(fifo) /\ elf_state = "AwaitingSize"
  BY Taken DEF SizeByte, Receive
<1>2. SizeSent
  BY <1>1 DEF Calm, Phase, AllDone, Asked, Generating, SizeSent, SizeTaken, Sending,
              ChunkSent, RestSent, Received, AskedAgain, Quiet
<1>3. PICK read \in Seq(Digits), rest \in Seq(Digits) : SizeSplit(read, rest)
  BY <1>2 DEF SizeSent, SizeOnWire
<1>4. /\ rest # <<>> /\ Head(rest) \in Digits /\ Tail(rest) \in Seq(Digits)
      /\ Head(fifo) = Head(rest) /\ Wire' = Append(Tail(rest), "nl")
  BY <1>1, <1>3, SizeLineHead DEF SizeSplit
<1>5. size_len < MaxDigits
  <2>1. Len(read) + Len(rest) = Len(Decimal[Len(built)])
    BY <1>3, ConcatProperties DEF SizeSplit
  <2>2. Len(Decimal[Len(built)]) <= MaxDigits
    BY <1>2, SizeLine DEF SizeSent
  <2>3. Len(rest) # 0 /\ Len(rest) \in Nat /\ Len(read) \in Nat
    BY <1>4, EmptySeq
  <2>4. size_len = Len(read) /\ MaxDigits \in Nat
    BY <1>3, Bounds DEF SizeSplit
  <2> QED BY <2>1, <2>2, <2>3, <2>4
<1>6. size' = TakeDigit(size, Head(rest)) /\ size_len' = size_len + 1
  BY <1>4, <1>5 DEF SizeByte
<1>7. Append(read, Head(rest)) \in Seq(Digits) /\ Len(Append(read, Head(rest))) = Len(read) + 1
  BY <1>4
<1>8. Append(read, Head(rest)) \o Tail(rest) = read \o rest
  BY <1>4, MoveFirst
<1>9. size' = Number(Append(read, Head(rest)))
  BY <1>3, <1>4, <1>6, NumberSteps DEF SizeSplit
<1>10. built' = built
  BY DEF SizeByte, daemonVars
<1>11. SizeSplit(Append(read, Head(rest)), Tail(rest))'
  BY <1>3, <1>4, <1>6, <1>7, <1>8, <1>9, <1>10 DEF SizeSplit
<1>12. SizeOnWire'
  BY <1>4, <1>7, <1>11 DEF SizeOnWire
<1>13. SizeSent'
  BY <1>2, <1>12 DEF SizeSent, SizeByte, daemonVars
<1> QED BY <1>2, <1>13 DEF Calm, Phase, Kept, SizeByte, SizeSent, daemonVars

LEMMA SizeEnd_Calm == ASSUME RecvInv, Calm, SizeEnd PROVE Calm'
<1>1. /\ Wire # <<>> /\ Head(Wire) = "nl" /\ Wire' = Tail(Wire)
      /\ elf_state = "AwaitingSize"
  BY Taken DEF SizeEnd, Receive
<1>2. SizeSent
  BY <1>1 DEF Calm, Phase, AllDone, Asked, Generating, SizeSent, SizeTaken, Sending,
              ChunkSent, RestSent, Received, AskedAgain, Quiet
<1>3. PICK read \in Seq(Digits), rest \in Seq(Digits) : SizeSplit(read, rest)
  BY <1>2 DEF SizeSent, SizeOnWire
<1>4. rest = <<>> /\ Wire' = <<>>
  <2>1. rest # <<>> => Head(Wire) \in Digits
    BY <1>3, SizeLineHead DEF SizeSplit
  <2>2. rest = <<>>
    BY <1>1, <2>1, NoNewline
  <2> QED BY <1>1, <1>3, <2>2, SizeLineHead DEF SizeSplit
<1>5. size = Len(built) /\ Len(built) \in 1 .. MaxElf
  <2>1. read \o <<>> = read
    BY ConcatEmptySeq
  <2>2. size = Number(Decimal[Len(built)])
    BY <1>3, <1>4, <2>1 DEF SizeSplit
  <2>3. built \in Elves
    BY <1>2 DEF SizeSent
  <2> QED BY <2>2, <2>3, SizeLine
<1>6. k2d' = <<"ack">>
  BY <1>2, FirstAck DEF SizeEnd, SizeSent
<1>7. elf_state' = "AwaitingData" /\ remaining' = Len(built)
  BY <1>5 DEF SizeEnd, ValidSize
<1>8. SizeTaken'
  BY <1>2, <1>4, <1>6, <1>7 DEF SizeSent, SizeTaken, SizeEnd, daemonVars
<1> QED BY <1>2, <1>7, <1>8 DEF Calm, Phase, Kept, SizeEnd, SizeSent, daemonVars

\* The byte that the receiver puts in its buffer.
LEMMA Stored ==
  ASSUME RecvInv, Receive("AwaitingData"), UNCHANGED d2k,
         elf_buf' = IF Len(elf_buf) < MaxElf THEN Append(elf_buf, Head(fifo)) ELSE elf_buf
  PROVE  elf_buf' \o Wire' = elf_buf \o Wire
<1>1. /\ Wire # <<>> /\ Head(Wire) = Head(fifo) /\ Wire' = Tail(Wire)
      /\ Head(Wire) \in Byte /\ elf_state = "AwaitingData"
  BY Taken DEF Receive
<1>2. elf_buf' = Append(elf_buf, Head(Wire))
  BY <1>1, RoomInBuffer
<1>3. elf_buf \in Seq(Byte) /\ Wire \in Seq(Byte)
  BY Strs, WireType DEF Strings
<1> QED BY <1>1, <1>2, <1>3, MoveFirst

LEMMA DataByte_Calm == ASSUME RecvInv, Calm, DataByte PROVE Calm'
<1>1. /\ Wire # <<>> /\ Len(Wire') = Len(Wire) - 1 /\ Len(Wire') \in Nat
      /\ Wire' \in Seq(Byte) /\ Len(Wire) \in Nat
      /\ elf_state = "AwaitingData" /\ elf_state' = "AwaitingData"
  BY Taken, WireType DEF DataByte, Receive
<1>n. Len(Wire) \in Nat /\ Len(Wire') \in Nat /\ Len(Wire') = Len(Wire) - 1
  BY <1>1
<1>2. elf_buf' \o Wire' = elf_buf \o Wire
  BY Stored DEF DataByte
<1>3. remaining' = remaining - 1 /\ remaining \in Nat /\ ack_counter \in Nat
  BY TypeParts DEF DataByte, RecvInv, Scalars, Numbers
<1>4. daemon' = daemon /\ elf' = elf /\ built' = built /\ rbuf' = rbuf /\ gens' = gens
  BY DEF DataByte, daemonVars
<1>5. Kept'
  BY <1>1, <1>4 DEF Calm, Kept
<1>6. CASE ChunkSent
  <2>1. /\ k2d = <<>> /\ ack_counter + Len(Wire) = Chunk /\ elf # <<>> /\ built \in Elves
        /\ daemon = "chunk ack"
        /\ (elf_buf \o Wire) \o elf = built /\ remaining = Len(Wire) + Len(elf)
    BY <1>1, <1>6 DEF ChunkSent
  <2>2. Len(elf) \in Nat
    BY Strs DEF Strings
  <2>3. remaining' = Len(Wire') + Len(elf')
    <3>1. \A r, w, v, e \in Nat : r = w + e /\ v = w - 1 => r - 1 = v + e
      OBVIOUS
    <3>2. remaining - 1 = Len(Wire') + Len(elf)
      <4>1. remaining = Len(Wire) + Len(elf) /\ remaining \in Nat
        BY <1>3, <2>1
      <4> QED BY <1>n, <2>2, <3>1, <4>1
    <3> QED BY <1>3, <1>4, <3>2
  <2>4. (elf_buf' \o Wire') \o elf' = built'
    BY <1>2, <1>4, <2>1
  <2>5. \/ Wire' # <<>> /\ k2d' = <<>> /\ ack_counter' + Len(Wire') = Chunk
        \/ Wire' = <<>> /\ k2d' = <<"ack">> /\ ack_counter' = 0
    <3>1. CASE ChunkComplete
      <4>0. \A a, w, v, c \in Nat : a + w = c /\ v = w - 1 /\ a + 1 >= c => v = 0
        OBVIOUS
      <4>c. ack_counter + 1 >= Chunk /\ Chunk \in Nat
        BY <3>1, Bounds DEF ChunkComplete
      <4>1. Len(Wire') = 0
        BY <1>n, <1>3, <2>1, <4>0, <4>c
      <4>2. Wire' = <<>>
        BY <1>1, <4>1, EmptySeq
      <4>3. Ack /\ ack_counter' = 0
        BY <3>1 DEF DataByte
      <4>4. k2d' = <<"ack">>
        BY <2>1, <4>3, FirstAck
      <4> QED BY <4>2, <4>3, <4>4
    <3>2. CASE ~ChunkComplete
      <4>1. ack_counter' = ack_counter + 1 /\ k2d' = k2d
        BY <3>2 DEF DataByte
      <4>0. \A a, w, v, c \in Nat :
              a + w = c /\ v = w - 1 /\ ~ (a + 1 >= c) => v # 0 /\ (a + 1) + v = c
        OBVIOUS
      <4>c. ~ (ack_counter + 1 >= Chunk) /\ Chunk \in Nat
        BY <3>2, Bounds DEF ChunkComplete
      <4>2. Len(Wire') # 0 /\ (ack_counter + 1) + Len(Wire') = Chunk
        <5>1. ack_counter + Len(Wire) = Chunk /\ ack_counter \in Nat
          BY <1>3, <2>1
        <5> QED BY <1>n, <4>0, <4>c, <5>1
      <4>3. Wire' # <<>>
        BY <4>2, EmptySeq
      <4> QED BY <2>1, <4>1, <4>2, <4>3
    <3> QED BY <3>1, <3>2
  <2>6. ChunkSent'
    BY <1>1, <1>4, <2>1, <2>3, <2>4, <2>5 DEF ChunkSent
  <2> QED BY <1>5, <2>6 DEF Calm, Phase
<1>7. CASE RestSent
  <2>1. /\ k2d = <<>> /\ ack_counter + Len(Wire) <= Chunk /\ elf = <<>>
        /\ built \in Elves /\ daemon = "final ack"
        /\ elf_buf \o Wire = built /\ remaining = Len(Wire)
    BY <1>7 DEF RestSent
  <2>2. remaining > 1
    BY DEF DataByte
  <2>c. \A a, w, v, c \in Nat : a + w <= c /\ v = w - 1 /\ w > 1 =>
          ~ (a + 1 >= c) /\ v # 0 /\ (a + 1) + v <= c
    OBVIOUS
  <2>3. ~ChunkComplete /\ Len(Wire') # 0 /\ (ack_counter + 1) + Len(Wire') <= Chunk
    <3>1. Chunk \in Nat
      BY Bounds
    <3> QED BY <1>1, <1>3, <2>1, <2>2, <2>c, <3>1 DEF ChunkComplete
  <2>4. ack_counter' = ack_counter + 1 /\ k2d' = k2d
    BY <2>3 DEF DataByte
  <2>5. Len(Wire') # 0 /\ remaining' = Len(Wire') /\ ack_counter' + Len(Wire') <= Chunk
    BY <1>1, <1>3, <2>1, <2>3, <2>4
  <2>6. Wire' # <<>>
    BY <2>5, EmptySeq
  <2>7. RestSent'
    BY <1>1, <1>2, <1>4, <2>1, <2>4, <2>5, <2>6 DEF RestSent
  <2> QED BY <1>5, <2>7 DEF Calm, Phase
<1> QED BY <1>1, <1>6, <1>7
        DEF Calm, Phase, AllDone, Asked, Generating, SizeSent, SizeTaken, Sending,
            Received, AskedAgain

LEMMA LastByte_Calm == ASSUME RecvInv, Calm, LastByte PROVE Calm'
<1>1. /\ Wire # <<>> /\ Len(Wire') = Len(Wire) - 1 /\ Len(Wire') \in Nat
      /\ Wire' \in Seq(Byte) /\ Len(Wire) \in Nat /\ Wire \in Seq(Byte)
      /\ Head(Wire) = Head(fifo) /\ Head(Wire) \in Byte /\ Wire' = Tail(Wire)
      /\ elf_state = "AwaitingData" /\ elf_state' = "Idle" /\ remaining = 1
  BY Taken, WireType DEF LastByte, Receive
<1>2. daemon' = daemon /\ elf' = elf /\ built' = built /\ rbuf' = rbuf /\ gens' = gens
  BY DEF LastByte, daemonVars
<1>3. ~ChunkSent
  <2>1. ASSUME ChunkSent PROVE FALSE
    <3>1. elf \in Seq(Byte) /\ elf # <<>> /\ remaining = Len(Wire) + Len(elf)
      BY <2>1, Strs DEF ChunkSent, Strings
    <3>2. Len(elf) > 0 /\ Len(Wire) > 0
      BY <1>1, <3>1, EmptySeq
    <3>3. Len(elf) \in Nat
      BY <3>1
    <3> QED BY <1>1, <3>1, <3>2, <3>3
  <2> QED BY <2>1
<1>4. RestSent
  BY <1>1, <1>3 DEF Calm, Phase, AllDone, Asked, Generating, SizeSent, SizeTaken,
                    Sending, Received, AskedAgain
<1>5. Wire' = <<>>
  <2>1. Len(Wire') = 0
    <3>1. Len(Wire) = 1
      BY <1>1, <1>4 DEF RestSent
    <3> QED BY <1>1, <3>1
  <2> QED BY <1>1, <2>1, EmptySeq
<1>6. last_elf' = built
  <2>1. last_elf' = Append(elf_buf, Head(Wire)) /\ elf_buf \in Seq(Byte)
    BY <1>1, RoomInBuffer, Strs DEF LastByte, Strings
  <2>2. Append(elf_buf, Head(Wire)) \in Seq(Byte)
    BY <1>1, <2>1, AppendProperties
  <2>3. Append(elf_buf, Head(Wire)) \o Tail(Wire) = elf_buf \o Wire
    BY <1>1, <2>1, MoveFirst
  <2>4. Append(elf_buf, Head(Wire)) \o <<>> = Append(elf_buf, Head(Wire))
    BY <2>2, ConcatEmptySeq
  <2> QED BY <1>1, <1>4, <1>5, <2>1, <2>3, <2>4 DEF RestSent
<1>7. Received'
  <2>1. k2d' = <<"ack">>
    BY <1>4, FirstAck DEF LastByte, RestSent
  <2> QED BY <1>1, <1>2, <1>4, <1>5, <2>1 DEF Received, RestSent, Quiet, Calm, Kept
<1>8. Kept'
  BY <1>1, <1>2, <1>4, <1>6 DEF Calm, Kept, RestSent
<1> QED BY <1>7, <1>8 DEF Calm, Phase

LEMMA Deliver_Calm == ASSUME RecvInv, Calm, Deliver PROVE Calm'
<1>1. Wire' = Wire
  BY Strs, MoveFirst DEF Deliver, Strings, Wire
<1> QED BY <1>1
        DEF Calm, Phase, Kept, Quiet, SizeOnWire, SizeSplit, AllDone, Asked, Generating,
            SizeSent, SizeTaken, Sending, ChunkSent, RestSent, Received, AskedAgain, Deliver, shellVars,
            daemonVars

LEMMA ReadLine_Calm == ASSUME RecvInv, Calm, ReadLine PROVE Calm'
<1>1. daemon = "line" /\ elf' = elf /\ built' = built /\ gens' = gens
      /\ UNCHANGED shellVars /\ fifo' = fifo
  BY DEF ReadLine
<1>2. rbuf = <<>> /\ rbuf \o k2d = k2d
  <2>1. rbuf = <<>>
    BY <1>1 DEF Calm, Phase, AllDone, Asked, Generating, SizeSent, SizeTaken, Sending,
                ChunkSent, RestSent, Received, AskedAgain, Quiet
  <2> QED BY <2>1, Strs, ConcatEmptySeq DEF Strings
<1>3. PICK i \in DOMAIN k2d : \E end \in i .. Len(k2d) :
        /\ LineEnds(k2d, i)
        /\ rbuf' = SubSeq(k2d, i + 1, end)
        /\ k2d' = SubSeq(k2d, end + 1, Len(k2d))
  BY <1>2 DEF ReadLine
<1>4. k2d = <<"g", "nl">> /\ Asked
  <2>1. CASE AllDone
    <3>1. k2d = <<>>
      BY <2>1 DEF AllDone
    <3> QED BY <1>3, <3>1
  <2>2. CASE ~AllDone
    BY <1>1, <2>2 DEF Calm, Phase, AllDone, Asked, Generating, SizeSent, SizeTaken,
                      Sending, ChunkSent, RestSent, Received, AskedAgain
  <2> QED BY <2>1, <2>2
<1>5. i = 2
  <2>1. k2d[1] = "g" /\ DOMAIN k2d = {1, 2}
    BY <1>4
  <2>2. k2d[i] = "nl"
    BY <1>3 DEF LineEnds
  <2> QED BY <2>1, <2>2
<1>6. rbuf' = <<>> /\ k2d' = <<>>
  <2>1. PICK end \in 2 .. Len(k2d) : /\ rbuf' = SubSeq(k2d, 3, end)
                                     /\ k2d' = SubSeq(k2d, end + 1, Len(k2d))
    BY <1>3, <1>5
  <2>2. end = 2 /\ Len(k2d) = 2
    BY <1>4, <2>1
  <2>3. SubSeq(k2d, 3, 2) = <<>>
    BY <1>4, SubSeqEmpty
  <2> QED BY <2>1, <2>2, <2>3
<1>7. daemon' = "generate" /\ d2k' = d2k
  <2>1. (rbuf \o k2d)[1] = "g"
    BY <1>2, <1>4
  <2> QED BY <2>1 DEF ReadLine
<1>8. Wire' = Wire
  BY <1>1, <1>7 DEF Wire
<1>9. Generating'
  BY <1>1, <1>4, <1>6, <1>7, <1>8 DEF Asked, Generating, Quiet, shellVars
<1> QED BY <1>1, <1>4, <1>6, <1>9 DEF Calm, Phase, Kept, Asked, shellVars

LEMMA Generate_Calm == ASSUME RecvInv, Calm, trouble = {}, Generate PROVE Calm'
<1>1. PICK binary \in Elves : /\ d2k' = Append(d2k \o Decimal[Len(binary)], "nl")
                              /\ elf' = binary /\ built' = binary
  BY DEF Generate
<1>2. Generating /\ daemon' = "size ack" /\ k2d' = k2d /\ rbuf' = rbuf /\ gens' = gens
      /\ UNCHANGED shellVars /\ fifo' = fifo
  BY DEF Generate, Calm, Phase, AllDone, Asked, Generating, SizeSent, SizeTaken, Sending,
         ChunkSent, RestSent, Received, AskedAgain
<1>3. Decimal[Len(binary)] \in Seq(Digits)
  BY SizeLine
<1>4. SizeSent'
  <2> DEFINE dec == Decimal[Len(binary)]
  <2>1. fifo = <<>> /\ d2k = <<>>
    BY <1>2, NothingOnTheWay DEF Generating, Quiet
  <2>2. <<>> \o dec = dec /\ <<>> \o Append(dec, "nl") = Append(dec, "nl")
    <3>1. Append(dec, "nl") \in Seq(Digits \cup {"nl"})
      BY <1>3
    <3> HIDE DEF dec
    <3> QED BY <1>3, <3>1, ConcatEmptySeq
  <2>3. Wire' = Append(dec, "nl")
    BY <1>1, <1>2, <2>1, <2>2 DEF Wire
  <2>4. <<>> \in Seq(Digits) /\ Len(<<>>) = 0
    OBVIOUS
  <2>5. SizeSplit(<<>>, dec)'
    BY <1>1, <1>2, <2>2, <2>3, <2>4, NumberSteps DEF SizeSplit, Generating, shellVars
  <2>6. SizeOnWire'
    BY <1>3, <2>4, <2>5 DEF SizeOnWire
  <2> QED BY <1>1, <1>2, <2>6 DEF SizeSent, Generating, shellVars
<1> QED BY <1>2, <1>4 DEF Calm, Phase, Kept, Generating, Quiet, SizeSent, shellVars

LEMMA ReadAck_Calm == ASSUME RecvInv, Calm, ReadAck PROVE Calm'
<1>1. /\ AwaitsAck /\ k2d # <<>> /\ k2d' = Tail(k2d) /\ Wire' = Wire
      /\ UNCHANGED shellVars /\ rbuf' = rbuf /\ elf' = elf /\ built' = built
      /\ gens' = gens
  BY DEF ReadAck, Wire
<1>f. daemon = "final ack" => daemon' = "line"
  BY DEF ReadAck
<1>s. daemon # "final ack" /\ elf # <<>> => daemon' = "send"
  BY DEF ReadAck
<1>2. Kept'
  BY <1>1 DEF Calm, Kept, AwaitsAck, shellVars
<1>t. Tail(<<"ack">>) = <<>>
  OBVIOUS
<1>3. CASE SizeTaken
  <2>1. elf # <<>> /\ daemon' = "send" /\ k2d' = <<>>
    BY <1>1, <1>s, <1>3, <1>t, SizeLine DEF SizeTaken
  <2>2. elf_buf' \o elf' = built'
    <3>1. elf \in Seq(Byte) /\ elf_buf = <<>> /\ elf = built
      BY <1>3, SizeLine DEF SizeTaken
    <3>2. <<>> \o elf = elf
      BY <3>1, ConcatEmptySeq
    <3> QED BY <1>1, <3>1, <3>2 DEF shellVars
  <2>3. Sending'
    BY <1>1, <1>3, <2>1, <2>2 DEF SizeTaken, Sending, shellVars
  <2> QED BY <1>2, <2>3 DEF Calm, Phase
<1>4. CASE ChunkSent
  <2>1. elf # <<>> /\ daemon' = "send" /\ k2d' = <<>> /\ Wire = <<>> /\ ack_counter = 0
    BY <1>1, <1>s, <1>4, <1>t DEF ChunkSent
  <2>2. elf_buf' \o elf' = built' /\ remaining = Len(elf)
    <3>1. elf_buf \in Seq(Byte) /\ Len(elf) \in Nat
      BY Strs DEF Strings
    <3>2. elf_buf \o <<>> = elf_buf
      BY <3>1, ConcatEmptySeq
    <3>3. (elf_buf \o <<>>) \o elf = built /\ remaining = Len(<<>>) + Len(elf)
      BY <1>4, <2>1 DEF ChunkSent
    <3>4. Len(<<>>) = 0
      OBVIOUS
    <3>5. elf_buf \o elf = built
      BY <3>2, <3>3
    <3>6. remaining = Len(elf)
      BY <3>1, <3>3, <3>4
    <3> QED BY <1>1, <3>5, <3>6 DEF shellVars
  <2>3. Sending'
    BY <1>1, <1>4, <2>1, <2>2 DEF ChunkSent, Sending, shellVars
  <2> QED BY <1>2, <2>3 DEF Calm, Phase
<1>5. CASE Received
  <2>1. daemon' = "line" /\ k2d' = <<>>
    BY <1>1, <1>f, <1>5, <1>t DEF Received
  <2>2. AllDone'
    BY <1>1, <1>5, <2>1 DEF Received, AllDone, Quiet, shellVars
  <2> QED BY <1>2, <2>2 DEF Calm, Phase
<1>6. CASE AskedAgain
  <2>1. k2d' = <<"g", "nl">> /\ daemon' = "line"
    <3>1. Tail(<<"ack", "g", "nl">>) = <<"g", "nl">>
      OBVIOUS
    <3>2. daemon' = "line"
      BY <1>f, <1>6 DEF AskedAgain
    <3> QED BY <1>1, <1>6, <3>1, <3>2 DEF AskedAgain
  <2>2. Asked'
    BY <1>1, <1>6, <2>1 DEF AskedAgain, Asked, Quiet, shellVars
  <2> QED BY <1>2, <2>2 DEF Calm, Phase
<1> QED BY <1>1, <1>3, <1>4, <1>5, <1>6
        DEF Calm, Phase, AwaitsAck, AllDone, Asked, Generating, SizeSent, Sending, RestSent

LEMMA SendChunk_Calm == ASSUME RecvInv, Calm, SendChunk PROVE Calm'
<1> DEFINE n == NextChunk
           first == SubSeq(elf, 1, n)
           rest == SubSeq(elf, n + 1, Len(elf))
<1>1. Sending /\ k2d' = k2d /\ rbuf' = rbuf /\ built' = built /\ gens' = gens
      /\ UNCHANGED shellVars /\ fifo' = fifo
  BY DEF SendChunk, Calm, Phase, AllDone, Asked, Generating, SizeSent, SizeTaken, Sending,
         ChunkSent, RestSent, Received, AskedAgain
<1>2. elf \in Seq(Byte) /\ elf # <<>> /\ Len(elf) \in Nat /\ Len(elf) > 0
      /\ elf_buf \in Seq(Byte)
  BY <1>1, Strs, EmptySeq DEF Sending, Strings
<1>3. n \in 1 .. Len(elf) /\ n <= Chunk /\ (n < Len(elf) => n = Chunk)
  BY <1>2, Bounds DEF NextChunk
<1>4. /\ first \in Seq(Byte) /\ Len(first) = n
      /\ rest \in Seq(Byte) /\ Len(rest) = Len(elf) - n
      /\ first \o rest = elf
  <2> HIDE DEF n
  <2>1. \A j \in 1 .. Len(elf) : elf[j] \in Byte
    BY <1>2
  <2>2. first \in Seq(Byte) /\ Len(first) = n
    BY <1>3, <2>1, SubSeqProperties
  <2>3. rest \in Seq(Byte) /\ Len(rest) = Len(elf) - n
    BY <1>2, <1>3, <2>1, SubSeqProperties
  <2>4. SubSeq(elf, 1, n) \o SubSeq(elf, n + 1, Len(elf)) = SubSeq(elf, 1, Len(elf))
    BY <1>2, <1>3, ConcatAdjacentSubSeq
  <2>5. SubSeq(elf, 1, Len(elf)) = elf
    BY <1>2, SubSeqFull
  <2> QED BY <2>2, <2>3, <2>4, <2>5
<1>5. Wire' = first /\ elf' = rest
  <2>1. fifo = <<>> /\ d2k = <<>>
    BY <1>1, NothingOnTheWay DEF Sending
  <2>2. d2k' = d2k \o first /\ elf' = rest
    BY DEF SendChunk
  <2> HIDE DEF first
  <2>3. <<>> \o (<<>> \o first) = first
    BY <1>4, ConcatEmptySeq
  <2> QED BY <1>1, <2>1, <2>2, <2>3 DEF Wire
<1>6. (elf_buf \o Wire') \o elf' = built /\ remaining = Len(Wire') + Len(elf')
  <2> HIDE DEF n, first, rest
  <2>1. (elf_buf \o first) \o rest = elf_buf \o (first \o rest)
    <3>1. elf_buf \in Seq(Byte) /\ first \in Seq(Byte) /\ rest \in Seq(Byte)
      BY <1>2, <1>4
    <3> QED BY <3>1, ConcatAssociative
  <2>2. elf_buf \o elf = built /\ remaining = Len(elf)
    BY <1>1 DEF Sending
  <2>3. n \in Nat
    BY <1>2, <1>3
  <2>4. Len(first) + Len(rest) = Len(elf)
    BY <1>2, <1>4, <2>3
  <2>5. (elf_buf \o first) \o rest = built
    BY <1>4, <2>1, <2>2
  <2>6. remaining = Len(first) + Len(rest)
    BY <2>2, <2>4
  <2> QED BY <1>5, <2>5, <2>6
<1>7. Wire' # <<>> /\ Len(Wire') = n /\ ack_counter = 0
  <2> HIDE DEF n, first, rest
  <2>1. Len(first) # 0
    BY <1>2, <1>3, <1>4
  <2>2. first # <<>>
    BY <2>1, EmptySeq
  <2> QED BY <1>1, <1>4, <1>5, <2>2 DEF Sending
<1>8. daemon' # "line" /\ Kept'
  BY <1>1 DEF SendChunk, Calm, Kept, Sending, shellVars
<1>9. CASE n < Len(elf)
  <2>1. daemon' = "chunk ack"
    BY <1>9 DEF SendChunk
  <2>2. elf' # <<>>
    <3> HIDE DEF n, rest
    <3>1. Len(rest) > 0
      BY <1>2, <1>3, <1>4, <1>9
    <3> QED BY <1>5, <3>1, EmptySeq
  <2>3. ack_counter' + Len(Wire') = Chunk
    <3> HIDE DEF n
    <3> QED BY <1>1, <1>3, <1>7, <1>9, Bounds DEF shellVars
  <2>4. ChunkSent'
    BY <1>1, <1>6, <1>7, <2>1, <2>2, <2>3 DEF ChunkSent, Sending, shellVars
  <2> QED BY <1>8, <2>4 DEF Calm, Phase
<1>10. CASE ~(n < Len(elf))
  <2>1. daemon' = "final ack"
    BY <1>10 DEF SendChunk
  <2>2. elf' = <<>>
    <3> HIDE DEF n, rest
    <3>1. Len(rest) = 0
      BY <1>2, <1>3, <1>4, <1>10
    <3> QED BY <1>4, <1>5, <3>1, EmptySeq
  <2>3. elf_buf' \o Wire' = built' /\ remaining' = Len(Wire')
    <3> HIDE DEF n, first, rest
    <3>1. elf_buf \o first \in Seq(Byte)
      BY <1>2, <1>4, ConcatProperties
    <3>2. (elf_buf \o first) \o <<>> = elf_buf \o first
      BY <3>1, ConcatEmptySeq
    <3>3. Len(<<>>) = 0 /\ Len(first) \in Nat
      BY <1>4
    <3>4. elf_buf \o Wire' = built
      BY <1>5, <1>6, <2>2, <3>2
    <3>5. remaining = Len(Wire')
      BY <1>5, <1>6, <2>2, <3>3
    <3> QED BY <1>1, <3>4, <3>5 DEF shellVars
  <2>4. ack_counter' + Len(Wire') <= Chunk
    <3> HIDE DEF n
    <3> QED BY <1>1, <1>3, <1>7, Bounds DEF shellVars
  <2>5. RestSent'
    BY <1>1, <1>7, <2>1, <2>2, <2>3, <2>4 DEF RestSent, Sending, shellVars
  <2> QED BY <1>8, <2>5 DEF Calm, Phase
<1> QED BY <1>9, <1>10

LEMMA Next_Calm == ASSUME CalmInv, [Next]_vars PROVE CalmInv'
<1>1. RecvInv'
  BY Next_RecvInv DEF CalmInv
<1>2. trouble' = trouble
  BY DEF Next, vars
<1>3. ASSUME trouble = {} PROVE Calm'
  <2>1. Calm /\ RecvInv
    BY <1>3 DEF CalmInv
  <2>2. CASE UNCHANGED vars
    <3>1. Wire' = Wire
      BY <2>2 DEF vars, Wire
    <3> QED BY <2>1, <2>2, <3>1
            DEF Calm, Phase, Kept, Quiet, SizeOnWire, SizeSplit, AllDone, Asked, Generating,
                SizeSent, SizeTaken, Sending, ChunkSent, RestSent, Received, AskedAgain, vars, shellVars,
                daemonVars
  <2>3. CASE Next
    <3>1. ~Overrun /\ ~GenerateFails /\ ~ReadTimeout
      BY <1>3 DEF Overrun, GenerateFails, ReadTimeout
    <3> QED BY <1>3, <2>1, <2>3, <3>1, Gen_Calm, SizeByte_Calm, SizeEnd_Calm,
               DataByte_Calm, LastByte_Calm, Deliver_Calm, ReadLine_Calm,
               Generate_Calm, ReadAck_Calm, SendChunk_Calm DEF Next, Shell, Daemon
  <2> QED BY <2>2, <2>3
<1> QED BY <1>1, <1>2, <1>3 DEF CalmInv

LEMMA CalmCorrect == Spec => []CalmInv
BY Init_Calm, Next_Calm, PTL DEF Spec

-----------------------------------------------------------------------------

\* Each side waits for the other: at most one chunk, or the size line, is on
\* its way to the shell, whatever the chunk and the binary.
THEOREM AckPacingCorrect == Spec => []AckPacing
<1>1. CalmInv => AckPacing
  <2> SUFFICES ASSUME CalmInv, trouble = {}
               PROVE  Len(fifo) + Len(d2k) <=
                        IF daemon = "size ack" /\ elf_state = "AwaitingSize"
                        THEN Len(Decimal[Len(built)]) + 1 ELSE Chunk
    BY DEF AckPacing
  <2>1. Calm /\ RecvInv /\ Chunk \in Nat \ {0}
    BY Bounds DEF CalmInv
  <2>2. Len(Wire) = Len(fifo) + Len(d2k) /\ Len(Wire) \in Nat
    <3>1. fifo \in Seq(Byte) /\ d2k \in Seq(Byte)
      BY <2>1, Strs DEF Strings
    <3> QED BY <2>1, <3>1, ConcatProperties, WireType DEF Wire
  <2>3. ASSUME Wire = <<>> PROVE Len(Wire) = 0
    BY <2>3, EmptySeq
  <2>4. CASE SizeSent
    <3>1. PICK read \in Seq(Digits), rest \in Seq(Digits) : SizeSplit(read, rest)
      BY <2>4 DEF SizeSent, SizeOnWire
    <3>2. Len(read) + Len(rest) = Len(Decimal[Len(built)])
      BY <3>1, ConcatProperties DEF SizeSplit
    <3>3. Len(Wire) = Len(rest) + 1
      BY <3>1 DEF SizeSplit
    <3>4. Len(rest) \in Nat /\ Len(read) \in Nat
      OBVIOUS
    <3>5. Len(Wire) <= Len(Decimal[Len(built)]) + 1
      BY <3>2, <3>3, <3>4
    <3> QED BY <2>2, <2>4, <3>5 DEF SizeSent
  <2>5. ASSUME ChunkSent \/ RestSent, Wire # <<>>
        PROVE  Len(Wire) <= Chunk /\ elf_state # "AwaitingSize"
    <3>1. ack_counter \in Nat
      BY <2>1, TypeParts DEF RecvInv, Scalars, Numbers
    <3>2. ack_counter + Len(Wire) <= Chunk
      <4>1. CASE ChunkSent
        <5>1. ack_counter + Len(Wire) = Chunk
          BY <2>5, <4>1 DEF ChunkSent
        <5> QED BY <2>1, <5>1
      <4>2. CASE RestSent
        BY <4>2 DEF RestSent
      <4> QED BY <2>5, <4>1, <4>2
    <3>3. Len(Wire) <= Chunk
      BY <2>1, <2>2, <3>1, <3>2
    <3> QED BY <2>5, <3>3 DEF ChunkSent, RestSent
  <2>6. CASE Wire = <<>> /\ ~SizeSent
    <3>1. ~(daemon = "size ack" /\ elf_state = "AwaitingSize")
      BY <2>1, <2>6
         DEF Calm, Phase, AllDone, Asked, Generating, SizeTaken, Sending, ChunkSent,
             RestSent, Received, AskedAgain
    <3>2. Len(fifo) + Len(d2k) = 0
      BY <2>2, <2>3, <2>6
    <3>3. 0 <= Chunk
      BY <2>1
    <3> QED BY <3>1, <3>2, <3>3
  <2> QED BY <2>1, <2>2, <2>4, <2>5, <2>6
          DEF Calm, Phase, Quiet, AllDone, Asked, Generating, SizeTaken, Sending,
              Received, AskedAgain
<1> QED BY <1>1, CalmCorrect, PTL

\* When both sides are done nothing is left of the `gen`.
THEOREM StreamCleanCorrect == Spec => []StreamClean
<1>1. CalmInv => StreamClean
  BY NothingOnTheWay
     DEF CalmInv, StreamClean, Calm, Phase, Quiet, AllDone, Asked, Generating, SizeSent,
         SizeTaken, Sending, ChunkSent, RestSent, Received, AskedAgain
<1> QED BY <1>1, CalmCorrect, PTL

\* When nothing goes wrong, what a `gen` ends with is the binary that was built
\* for it: no byte of it is lost, doubled or out of place at any chunk boundary.
THEOREM GenDeliversWhenCalm == Spec => [](trouble = {} => GenDelivers)
<1>1. CalmInv => (trouble = {} => GenDelivers)
  BY SizeLine DEF CalmInv, Calm, Kept, GenDelivers
<1> QED BY <1>1, CalmCorrect, PTL

-----------------------------------------------------------------------------

(***************************************************************************)
(* The service that `gen` is: each step is one of the service's own, or    *)
(* none at all.                                                            *)
(***************************************************************************)

\* The binary is built where the daemon's choice of it is, and delivered with its
\* last byte; nothing else moves the request.
LEMMA ServiceStep ==
  ASSUME CalmInv, CalmInv', [Next]_vars, trouble = {}
  PROVE  Service!Next \/ UNCHANGED <<GenState, built, last_elf>>
<1>1. RecvInv /\ Phase /\ Kept /\ trouble' = {} /\ Phase' /\ Kept'
  BY DEF CalmInv, Calm, Next, vars
<1>2. CASE Gen
  <2>1. elf_state = "Idle" /\ elf_state' = "AwaitingSize" /\ daemon' = daemon
    BY <1>2 DEF Gen, daemonVars
  <2>2. daemon # "size ack"
    BY <1>1, <2>1 DEF Phase, AllDone, Asked, Generating, SizeSent, SizeTaken, Sending, ChunkSent,
                      RestSent, Received, AskedAgain
  <2>3. GenState = "idle" /\ GenState' = "asked"
    BY <2>1, <2>2 DEF GenState
  <2>. QED BY <1>2, <2>3 DEF Gen, daemonVars, Service!Next, Service!Ask
<1>3. CASE SizeByte
  BY <1>3 DEF SizeByte, daemonVars, GenState
<1>4. CASE SizeEnd
  <2>1. elf_state = "AwaitingSize" /\ elf_state' # "AwaitingSize" /\ daemon' = daemon
        /\ built' = built /\ last_elf' = last_elf
    BY <1>4 DEF SizeEnd, Receive, daemonVars
  <2>2. SizeSent
    <3>1. Wire # <<>>
      <4>1. UNCHANGED d2k /\ Receive("AwaitingSize")
        BY <1>4 DEF SizeEnd
      <4>. QED BY <1>1, <4>1, Taken
    <3>. QED BY <1>1, <2>1, <3>1 DEF Phase, AllDone, Asked, Generating, SizeSent, SizeTaken,
                 Sending, ChunkSent, RestSent, Received, AskedAgain, Quiet
  <2>3. daemon = "size ack"
    BY <2>2 DEF SizeSent
  <2>4. elf_state' # "Idle"
    BY <1>1, <2>1, <2>3 DEF Phase, AllDone, Asked, Generating, SizeSent, SizeTaken, Sending,
                            ChunkSent, RestSent, Received, AskedAgain
  <2>. QED BY <2>1, <2>3, <2>4 DEF GenState
<1>5. CASE DataByte
  BY <1>5 DEF DataByte, Receive, daemonVars, GenState
<1>6. CASE LastByte
  <2>1. elf_state = "AwaitingData" /\ elf_state' = "Idle" /\ gens' = gens /\ built' = built
    BY <1>6 DEF LastByte, Receive, daemonVars
  <2>2. last_elf' = built
    BY <1>1, <2>1 DEF Kept
  <2>3. GenState = "built" /\ GenState' = "idle"
    BY <2>1 DEF GenState
  <2>. QED BY <2>1, <2>2, <2>3 DEF Service!Next, Service!Deliver
<1>7. CASE Deliver
  BY <1>7 DEF Deliver, shellVars, daemonVars, GenState
<1>8. CASE ReadLine
  <2>1. daemon = "line" /\ daemon' \in {"generate", "line"} /\ elf_state' = elf_state
        /\ built' = built /\ last_elf' = last_elf
    BY <1>8 DEF ReadLine, shellVars
  <2>. QED BY <2>1 DEF GenState
<1>9. CASE Generate
  <2>1. daemon = "generate" /\ daemon' = "size ack" /\ elf_state' = elf_state
        /\ built' \in Elves /\ last_elf' = last_elf
    BY <1>9 DEF Generate, shellVars
  <2>2. elf_state = "AwaitingSize"
    BY <1>1, <2>1 DEF Phase, AllDone, Asked, Generating, SizeSent, SizeTaken, Sending, ChunkSent,
                      RestSent, Received, AskedAgain
  <2>3. GenState = "asked" /\ GenState' = "built"
    BY <2>1, <2>2 DEF GenState
  <2>. QED BY <2>1, <2>3 DEF Service!Next, Service!Build
<1>10. CASE ReadAck
  <2>1. daemon' # "size ack" /\ elf_state' = elf_state /\ built' = built /\ last_elf' = last_elf
        /\ k2d # <<>>
    BY <1>10 DEF ReadAck, shellVars
  <2>2. daemon = "size ack" => elf_state = "AwaitingData"
    BY <1>1, <2>1 DEF Phase, AllDone, Asked, Generating, SizeSent, SizeTaken, Sending, ChunkSent,
                      RestSent, Received, AskedAgain
  <2>. QED BY <2>1, <2>2 DEF GenState
<1>11. CASE SendChunk
  BY <1>11 DEF SendChunk, shellVars, GenState
<1>12. CASE UNCHANGED vars
  BY <1>12 DEF vars, shellVars, daemonVars, GenState
<1>13. CASE Overrun \/ GenerateFails \/ ReadTimeout
  BY <1>13 DEF Overrun, GenerateFails, ReadTimeout
<1>. QED
  BY <1>2, <1>3, <1>4, <1>5, <1>6, <1>7, <1>8, <1>9, <1>10, <1>11, <1>12, <1>13
     DEF Next, Shell, Daemon

\* When nothing goes wrong, every `gen` is answered by one binary that was
\* built after it and for it, and the shell's last binary changes only then:
\* the stream of bytes, chunks and ACKs implements GenService.
THEOREM ServiceImplemented == Spec => GenRefined
<1>1. Init => Service!Init
  BY DEF Init, Service!Init, GenState
<1>2. CalmInv /\ CalmInv' /\ [Next]_vars =>
        [trouble = {} => Service!Next]_<<GenState, built, last_elf>>
  BY ServiceStep
<1>. QED BY <1>1, <1>2, CalmCorrect, PTL DEF Spec, GenRefined
=============================================================================
