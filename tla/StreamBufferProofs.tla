------------------------- MODULE StreamBufferProofs -------------------------
(***************************************************************************)
(* What holds of the streams of a job for any number of clients and lines  *)
(* and any size of the buffer: lines come in order and once, and none is   *)
(* skipped until the buffer drops some.                                    *)
(***************************************************************************)
EXTENDS StreamBuffer, SequenceTheorems, TLAPS

\* A stream that is not in the middle of a batch reads on after the last event
\* its client has seen, and has sent nothing of the next batch.
IndexOK(r) ==
  stream[r].step \in {"get", "check", "end", "wait"} =>
    stream[r].index = lastId[r] + 1 /\ stream[r].sent = 0

\* A batch is part of what has been appended, it starts no later than the
\* buffer does now, and the client has had what is sent of it and nothing after.
BatchOK(r) ==
  stream[r].step = "send" =>
    /\ stream[r].sent < stream[r].size
    /\ stream[r].first + stream[r].size <= written
    /\ stream[r].first <= dropped + stream[r].index
    /\ lastId[r] = stream[r].index + stream[r].sent - 1
    /\ \A i \in 1..Len(got[r]) : got[r][i] < stream[r].first + stream[r].sent

\* Positions move towards older lines only: the client has had no line after
\* the one its last event would name now.
SeenOK(r) ==
  /\ lastId[r] >= -1
  /\ \A i \in 1..Len(got[r]) : got[r][i] <= dropped + lastId[r]

\* Until the buffer drops a line, positions are the numbers of lines.
PositionsOK(r) ==
  dropped = 0 =>
    /\ got[r] = [i \in 1..Len(got[r]) |-> i - 1]
    /\ Len(got[r]) = lastId[r] + 1
    /\ stream[r].step = "send" => stream[r].first = stream[r].index

Ordered(r) == \A i, j \in 1..Len(got[r]) : i < j => got[r][i] < got[r][j]

ReaderOK(r) == IndexOK(r) /\ BatchOK(r) /\ SeenOK(r) /\ PositionsOK(r) /\ Ordered(r)

StreamInv == TypeOK /\ \A r \in Readers : ReaderOK(r)

-----------------------------------------------------------------------------
\* The invariant holds before anything is written.
LEMMA InitStreamInv == Init => StreamInv
  <1> SUFFICES ASSUME Init PROVE StreamInv
    OBVIOUS
  <1> USE BufferAssumption DEF Init, Off
  <1>1. TypeOK
    <2>1. <<>> \in Seq(0..MaxLines - 1)
      BY EmptySeq
    <2>2. got \in [Readers -> Seq(0..MaxLines - 1)]
      BY <2>1
    <2>3. Off \in Stream
      BY DEF Stream, Steps
    <2>4. stream \in [Readers -> Stream]
      BY <2>3
    <2>5. lastId \in [Readers -> Int]
      OBVIOUS
    <2>6. written \in 0..MaxLines /\ dropped \in 0..written
      <3>1. written = 0 /\ dropped = 0 /\ MaxLines \in Nat
        OBVIOUS
      <3>2. QED
        BY ONLY <3>1
    <2>7. over \in BOOLEAN /\ task \in {"running", "recorded", "ended"}
      OBVIOUS
    <2>8. stream \in [Readers -> Stream]
      BY <2>4
    <2>9. QED
      BY ONLY <2>2, <2>5, <2>6, <2>7, <2>8 DEF TypeOK
  <1>2. ASSUME NEW r \in Readers PROVE ReaderOK(r)
    BY DEF ReaderOK, IndexOK, BatchOK, SeenOK, PositionsOK, Ordered
  <1>3. QED
    BY <1>1, <1>2 DEF StreamInv

\* The types of what belongs to one client, spelled out for the provers.
LEMMA ReaderTypes ==
  ASSUME TypeOK, NEW r \in Readers
  PROVE  /\ stream[r].step \in Steps
         /\ stream[r].index \in Nat /\ stream[r].first \in Nat
         /\ stream[r].size \in Nat /\ stream[r].sent \in Nat
         /\ lastId[r] \in Int /\ written \in Nat /\ dropped \in Nat
         /\ written <= MaxLines /\ dropped <= written
         /\ got[r] \in Seq(0..MaxLines - 1)
         /\ Len(got[r]) \in Nat
         /\ \A i \in 1..Len(got[r]) : got[r][i] \in Int
  <1>1. got[r] \in Seq(0..MaxLines - 1)
    BY DEF TypeOK
  <1>2. \A i \in 1..Len(got[r]) : got[r][i] \in Int
    BY <1>1, ElementOfSeq, BufferAssumption
  <1>3. Len(got[r]) \in Nat
    BY <1>1, LenProperties
  <1>4. QED
    BY <1>1, <1>2, <1>3, BufferAssumption DEF TypeOK, Stream

\* What a client has received stays in order when later lines are appended to
\* the buffer or older ones dropped, and when another client's stream moves.
LEMMA BufferMoves ==
  ASSUME StreamInv, NEW r \in Readers,
         written' \in Nat, dropped' \in Nat, written <= written', dropped <= dropped',
         stream'[r] = stream[r], got'[r] = got[r], lastId'[r] = lastId[r]
  PROVE  ReaderOK(r)'
  <1>1. ReaderOK(r) /\ TypeOK
    BY DEF StreamInv
  <1>2. IndexOK(r)' /\ Ordered(r)'
    BY <1>1 DEF ReaderOK, IndexOK, Ordered
  <1>3. BatchOK(r)'
    <2>1. SUFFICES ASSUME stream[r].step = "send" PROVE BatchOK(r)'
      BY DEF BatchOK
    <2>2. /\ stream[r].sent < stream[r].size
          /\ stream[r].first + stream[r].size <= written
          /\ stream[r].first <= dropped + stream[r].index
          /\ lastId[r] = stream[r].index + stream[r].sent - 1
      BY <1>1, <2>1 DEF ReaderOK, BatchOK
    <2>3. \A i \in 1..Len(got[r]) : got[r][i] < stream[r].first + stream[r].sent
      BY <1>1, <2>1 DEF ReaderOK, BatchOK
    <2>4. /\ stream[r].first + stream[r].size <= written'
          /\ stream[r].first <= dropped' + stream[r].index
      <3>1. /\ stream[r].first + stream[r].size \in Int /\ stream[r].first \in Int
            /\ stream[r].index \in Int /\ written \in Int /\ dropped \in Int
        BY <1>1, ReaderTypes
      <3>2. stream[r].first + stream[r].size <= written'
        BY <2>2, <3>1
      <3>3. stream[r].first <= dropped' + stream[r].index
        BY <2>2, <3>1
      <3>4. QED
        BY <3>2, <3>3
    <2>5. QED
      BY <2>2, <2>3, <2>4 DEF BatchOK
  <1>4. SeenOK(r)'
    <2>1. ASSUME NEW i \in 1..Len(got[r])
          PROVE  got[r][i] <= dropped' + lastId[r]
      <3>1. got[r][i] <= dropped + lastId[r] /\ got[r][i] \in Int
        BY <1>1, ReaderTypes DEF ReaderOK, SeenOK
      <3>2. QED
        BY <1>1, <3>1, ReaderTypes
    <2>2. QED
      BY <1>1, <2>1 DEF ReaderOK, SeenOK
  <1>5. PositionsOK(r)'
    <2>1. dropped' = 0 => dropped = 0
      BY <1>1, ReaderTypes
    <2>2. QED
      BY <1>1, <2>1 DEF ReaderOK, PositionsOK
  <1>6. QED
    BY <1>2, <1>3, <1>4, <1>5 DEF ReaderOK

\* A stream that starts over, or is between two batches, keeps what its client
\* has received.
LEMMA StreamMoves ==
  ASSUME StreamInv, NEW r \in Readers,
         written' = written, dropped' \in Nat, dropped <= dropped', UNCHANGED clientVars,
         stream'[r].step # "send",
         stream'[r].step \in {"get", "check", "end", "wait"} =>
           stream'[r].index = lastId[r] + 1 /\ stream'[r].sent = 0
  PROVE  ReaderOK(r)'
  <1>1. ReaderOK(r) /\ TypeOK
    BY DEF StreamInv
  <1>2. IndexOK(r)' /\ BatchOK(r)' /\ Ordered(r)'
    BY <1>1 DEF clientVars, ReaderOK, IndexOK, BatchOK, Ordered
  <1>3. SeenOK(r)'
    <2>1. ASSUME NEW i \in 1..Len(got[r])
          PROVE  got[r][i] <= dropped' + lastId[r]
      <3>1. got[r][i] <= dropped + lastId[r] /\ got[r][i] \in Int
        BY <1>1, ReaderTypes DEF ReaderOK, SeenOK
      <3>2. QED
        BY <1>1, <3>1, ReaderTypes
    <2>2. QED
      BY <1>1, <2>1 DEF ReaderOK, SeenOK, clientVars
  <1>4. PositionsOK(r)'
    <2>1. dropped' = 0 => dropped = 0
      BY <1>1, ReaderTypes
    <2>2. QED
      BY <1>1, <2>1 DEF ReaderOK, PositionsOK, clientVars
  <1>5. QED
    BY <1>2, <1>3, <1>4 DEF ReaderOK

-----------------------------------------------------------------------------
\* Appending a line leaves between nothing and everything dropped.
LEMMA AppendTypes ==
  ASSUME TypeOK, AppendLine
  PROVE  /\ written' \in 0..MaxLines /\ dropped' \in 0..written'
         /\ written <= written' /\ dropped <= dropped'
         /\ written' \in Nat /\ dropped' \in Nat
  BY BufferAssumption DEF TypeOK, AppendLine

\* The three steps of the task.
LEMMA TaskStep ==
  ASSUME StreamInv, JobTask
  PROVE  StreamInv'
  <1>1. TypeOK
    BY DEF StreamInv
  <1>2. UNCHANGED <<stream, clientVars>>
    BY DEF JobTask, TaskPrints, TaskRecords, TaskEnds
  <1>3. /\ written' \in 0..MaxLines /\ dropped' \in 0..written'
        /\ written <= written' /\ dropped <= dropped'
        /\ written' \in Nat /\ dropped' \in Nat
    <2>1. CASE TaskPrints
      BY <1>1, <2>1, AppendTypes DEF TaskPrints
    <2>2. CASE TaskEnds
      BY <1>1, <2>2, AppendTypes DEF TaskEnds
    <2>3. CASE TaskRecords
      BY <1>1, <2>3, BufferAssumption DEF TaskRecords, TypeOK, bufferVars
    <2>4. QED
      BY <2>1, <2>2, <2>3 DEF JobTask
  <1>4. over' \in BOOLEAN /\ task' \in {"running", "recorded", "ended"}
    BY <1>1 DEF TypeOK, JobTask, TaskPrints, TaskRecords, TaskEnds
  <1>5. TypeOK'
    BY <1>1, <1>2, <1>3, <1>4 DEF TypeOK, clientVars
  <1>6. ASSUME NEW r \in Readers PROVE ReaderOK(r)'
    BY <1>2, <1>3, BufferMoves DEF clientVars
  <1>7. QED
    BY <1>5, <1>6 DEF StreamInv

\* A client that moves its stream within Stream, and nothing else, keeps the
\* types.
LEMMA StreamTypes ==
  ASSUME TypeOK, NEW r \in Readers, NEW s \in Stream,
         stream' = [stream EXCEPT ![r] = s],
         UNCHANGED <<bufferVars, over, task, clientVars>>
  PROVE  TypeOK'
  BY DEF TypeOK, bufferVars, clientVars

\* One client's stream moves, to anywhere but the middle of a batch.
LEMMA BetweenBatches ==
  ASSUME StreamInv, NEW r \in Readers, NEW s \in Stream,
         stream' = [stream EXCEPT ![r] = s],
         UNCHANGED <<bufferVars, over, task, clientVars>>,
         s.step # "send",
         s.step \in {"get", "check", "end", "wait"} => s.index = lastId[r] + 1 /\ s.sent = 0
  PROVE  StreamInv'
  <1>1. TypeOK /\ ReaderOK(r)
    BY DEF StreamInv
  <1>2. TypeOK'
    BY <1>1, StreamTypes
  <1>3. stream'[r] = s
    BY <1>1 DEF TypeOK
  <1>4. written' = written /\ dropped' = dropped /\ dropped \in Nat /\ written \in Nat
    BY <1>1, ReaderTypes DEF bufferVars
  <1>5. dropped <= dropped' /\ written <= written'
    BY <1>4
  <1>6. ReaderOK(r)'
    BY <1>3, <1>4, <1>5, StreamMoves
  <1>7. ASSUME NEW q \in Readers, q # r PROVE ReaderOK(q)'
    <2>1. stream'[q] = stream[q]
      BY <1>1, <1>7 DEF TypeOK
    <2>2. QED
      BY <1>4, <1>5, <2>1, BufferMoves DEF clientVars
  <1>8. QED
    BY <1>2, <1>6, <1>7 DEF StreamInv

\* A stream stays one when its fields change one at a time.
LEMMA StreamFields ==
  ASSUME NEW s \in Stream
  PROVE  /\ \A t \in Steps : [s EXCEPT !.step = t] \in Stream
         /\ \A n \in Nat : /\ [s EXCEPT !.index = n] \in Stream
                          /\ [s EXCEPT !.first = n] \in Stream
                          /\ [s EXCEPT !.size = n] \in Stream
                          /\ [s EXCEPT !.sent = n] \in Stream
  BY DEF Stream, Steps

\* Off is a stream, and so is one that starts to read at a position.
LEMMA StreamFrom ==
  ASSUME NEW n \in Nat
  PROVE  /\ Off \in Stream
         /\ [Off EXCEPT !.step = "get", !.index = n] \in Stream
  <1> DEFINE a == [Off EXCEPT !.step = "get"]
             b == [a EXCEPT !.index = n]
  <1>1. Off \in Stream
    BY DEF Off, Stream, Steps
  <1>2. a \in Stream
    BY <1>1, StreamFields DEF Steps
  <1> HIDE DEF a
  <1>3. b \in Stream
    BY <1>2, StreamFields
  <1>4. [Off EXCEPT !.step = "get", !.index = n] = b
    BY DEF a
  <1>5. QED
    BY <1>1, <1>3, <1>4

\* A new connection reads on after the last event its client has seen.
LEMMA ConnectStep ==
  ASSUME StreamInv, NEW r \in Readers, Connect(r)
  PROVE  StreamInv'
  <1> DEFINE s == [Off EXCEPT !.step = "get", !.index = lastId[r] + 1]
  <1>1. lastId[r] \in Int /\ lastId[r] >= -1
    BY ReaderTypes DEF StreamInv, ReaderOK, SeenOK
  <1>2. s \in Stream /\ s.step = "get" /\ s.index = lastId[r] + 1 /\ s.sent = 0
    <2>1. lastId[r] + 1 \in Nat
      BY <1>1
    <2>2. s \in Stream
      BY <2>1, StreamFrom
    <2>3. s.step = "get" /\ s.index = lastId[r] + 1 /\ s.sent = 0
      BY DEF Off
    <2>4. QED
      BY <2>2, <2>3
  <1>3. stream' = [stream EXCEPT ![r] = s] /\ UNCHANGED <<bufferVars, over, task, clientVars>>
    BY DEF Connect
  <1> HIDE DEF s
  <1>4. QED
    BY <1>2, <1>3, BetweenBatches

\* A stream that only changes its step, and not to "send".
LEMMA StepOnly ==
  ASSUME StreamInv, NEW r \in Readers, NEW t \in {"get", "check", "end", "wait"},
         stream[r].step \in {"get", "check", "end", "wait"},
         stream' = [stream EXCEPT ![r].step = t],
         UNCHANGED <<bufferVars, over, task, clientVars>>
  PROVE  StreamInv'
  <1> DEFINE s == [stream[r] EXCEPT !.step = t]
  <1>1. TypeOK /\ IndexOK(r)
    BY DEF StreamInv, ReaderOK
  <1>2. s \in Stream /\ s.step = t /\ s.index = stream[r].index /\ s.sent = stream[r].sent
    BY <1>1 DEF TypeOK, Stream, Steps
  <1>3. s.index = lastId[r] + 1 /\ s.sent = 0
    BY <1>1, <1>2 DEF IndexOK
  <1>4. stream' = [stream EXCEPT ![r] = s]
    BY <1>1 DEF TypeOK
  <1> HIDE DEF s
  <1>5. QED
    BY <1>2, <1>3, <1>4, BetweenBatches

\* The stream ends, or its connection breaks.
LEMMA StreamStops ==
  ASSUME StreamInv, NEW r \in Readers, Finish(r) \/ Disconnect(r)
  PROVE  StreamInv'
  <1>1. CASE Disconnect(r)
    <2>1. Off \in Stream /\ Off.step = "off"
      BY DEF Off, Stream, Steps
    <2>2. stream' = [stream EXCEPT ![r] = Off]
      BY <1>1 DEF Disconnect
    <2>3. QED
      BY <1>1, <2>1, <2>2, BetweenBatches DEF Disconnect
  <1>2. CASE Finish(r)
    <2> DEFINE s == [Off EXCEPT !.step = "complete"]
    <2>1. s \in Stream /\ s.step = "complete"
      BY DEF Off, Stream, Steps
    <2>2. stream' = [stream EXCEPT ![r] = s]
      BY <1>2 DEF Finish
    <2> HIDE DEF s
    <2>3. QED
      BY <1>2, <2>1, <2>2, BetweenBatches DEF Finish
  <1>3. QED
    BY <1>1, <1>2

\* A batch is read at the stream's position: it ends where the buffer does, and
\* the client has had nothing after the line before it.
LEMMA GetStep ==
  ASSUME StreamInv, NEW r \in Readers, Get(r)
  PROVE  StreamInv'
  <1>1. TypeOK /\ ReaderOK(r)
    BY DEF StreamInv
  <1>2. stream[r].step = "get" /\ UNCHANGED <<bufferVars, over, task, clientVars>>
    BY DEF Get
  <1>3. CASE stream' = [stream EXCEPT ![r].step = "check"]
    BY <1>2, <1>3, StepOnly
  <1>4. CASE /\ Buffered(r) > 0
             /\ stream' = [stream EXCEPT ![r].step = "send", ![r].size = Buffered(r),
                                         ![r].first = dropped + stream[r].index]
    <2>1. /\ stream[r].index \in Nat /\ stream[r].sent \in Nat /\ lastId[r] \in Int
          /\ written \in Nat /\ dropped \in Nat /\ dropped <= written
          /\ \A i \in 1..Len(got[r]) : got[r][i] \in Int
      BY <1>1, ReaderTypes
    <2>2. /\ Buffered(r) = written - dropped - stream[r].index
          /\ Buffered(r) \in Nat /\ Buffered(r) > 0
      BY <1>4, <2>1 DEF Buffered
    <2>3. stream[r].index = lastId[r] + 1 /\ stream[r].sent = 0
      BY <1>1, <1>2 DEF ReaderOK, IndexOK
    <2> DEFINE s == [stream[r] EXCEPT !.step = "send", !.size = Buffered(r),
                                      !.first = dropped + stream[r].index]
    <2>4. stream' = [stream EXCEPT ![r] = s]
      BY <1>1, <1>4 DEF TypeOK
    <2>5. /\ s.step = "send" /\ s.index = stream[r].index /\ s.sent = stream[r].sent
          /\ s.first = dropped + stream[r].index /\ s.size = Buffered(r)
      BY <1>1 DEF TypeOK, Stream
    <2>6. s \in Stream
      <3> DEFINE a == [stream[r] EXCEPT !.step = "send"]
                 b == [a EXCEPT !.size = Buffered(r)]
                 c == [b EXCEPT !.first = dropped + stream[r].index]
      <3>1. a \in Stream
        BY <1>1, StreamFields DEF TypeOK, Steps
      <3> HIDE DEF a
      <3>2. b \in Stream
        BY <2>2, <3>1, StreamFields
      <3> HIDE DEF b
      <3>3. dropped + stream[r].index \in Nat
        BY <2>1
      <3>4. c \in Stream
        BY <3>2, <3>3, StreamFields
      <3>5. s = c
        BY DEF a, b
      <3>6. QED
        BY <3>4, <3>5
    <2>7. TypeOK'
      BY <1>1, <1>2, <2>4, <2>6, StreamTypes
    <2>8. /\ stream'[r].step = "send" /\ stream'[r].index = stream[r].index
          /\ stream'[r].sent = 0 /\ stream'[r].first = dropped + stream[r].index
          /\ stream'[r].size = written - dropped - stream[r].index /\ stream'[r].size > 0
      BY <1>1, <2>2, <2>3, <2>4, <2>5 DEF TypeOK
    <2> HIDE DEF s
    <2>9. UNCHANGED <<written, dropped, got, lastId>>
      BY <1>2 DEF bufferVars, clientVars
    <2>10. \A i \in 1..Len(got[r]) : got[r][i] <= dropped + lastId[r]
      BY <1>1 DEF ReaderOK, SeenOK
    <2>11. BatchOK(r)'
      <3>1. ASSUME NEW i \in 1..Len(got[r])
            PROVE  got[r][i] < dropped + stream[r].index + 0
        <4>1. got[r][i] \in Int /\ got[r][i] <= dropped + lastId[r]
          BY <2>1, <2>10
        <4>2. QED
          BY <2>1, <2>3, <4>1
      <3>2. /\ 0 < written - dropped - stream[r].index
            /\ dropped + stream[r].index + (written - dropped - stream[r].index) <= written
            /\ dropped + stream[r].index <= dropped + stream[r].index
            /\ lastId[r] = stream[r].index + 0 - 1
        BY <2>1, <2>2, <2>3
      <3>3. QED
        BY <2>8, <2>9, <3>1, <3>2 DEF BatchOK
    <2>12. IndexOK(r)' /\ SeenOK(r)' /\ Ordered(r)'
      BY <1>1, <2>8, <2>9 DEF ReaderOK, IndexOK, SeenOK, Ordered
    <2>13. PositionsOK(r)'
      <3>1. dropped = 0 => dropped + stream[r].index = stream[r].index
        BY <2>1
      <3>2. QED
        BY <1>1, <2>8, <2>9, <3>1 DEF ReaderOK, PositionsOK
    <2>14. ASSUME NEW q \in Readers, q # r PROVE ReaderOK(q)'
      <3>1. stream'[q] = stream[q]
        BY <1>1, <2>4, <2>14 DEF TypeOK
      <3>2. QED
        BY <2>1, <2>9, <3>1, BufferMoves
    <2>15. QED
      BY <2>7, <2>11, <2>12, <2>13, <2>14 DEF StreamInv, ReaderOK
  <1>5. QED
    BY <1>3, <1>4 DEF Get

-----------------------------------------------------------------------------
\* One more line is received: the next of the batch, later than all before it.
LEMMA Received ==
  ASSUME StreamInv, NEW r \in Readers, Send(r)
  PROVE  /\ got'[r] = Append(got[r], stream[r].first + stream[r].sent)
         /\ Len(got'[r]) = Len(got[r]) + 1
         /\ \A i \in 1..Len(got[r]) : got'[r][i] = got[r][i]
         /\ got'[r][Len(got[r]) + 1] = stream[r].first + stream[r].sent
         /\ lastId'[r] = stream[r].index + stream[r].sent
         /\ stream[r].first + stream[r].sent \in 0..MaxLines - 1
         /\ got' \in [Readers -> Seq(0..MaxLines - 1)]
         /\ lastId' \in [Readers -> Int]
  <1>1. TypeOK /\ BatchOK(r) /\ stream[r].step = "send"
    BY DEF StreamInv, ReaderOK, Send
  <1>2. /\ got' = [got EXCEPT ![r] = Append(got[r], stream[r].first + stream[r].sent)]
        /\ lastId' = [lastId EXCEPT ![r] = stream[r].index + stream[r].sent]
        /\ got \in [Readers -> Seq(0..MaxLines - 1)]
        /\ lastId \in [Readers -> Int]
    BY <1>1 DEF Send, TypeOK
  <1>3. stream[r].first + stream[r].sent \in 0..MaxLines - 1
    <2>1. stream[r].sent < stream[r].size /\ stream[r].first + stream[r].size <= written
      BY <1>1 DEF BatchOK
    <2>2. QED
      BY <1>1, <2>1, ReaderTypes, BufferAssumption
  <1>4. got[r] \in Seq(0..MaxLines - 1)
    BY <1>2
  <1>5. /\ Append(got[r], stream[r].first + stream[r].sent) \in Seq(0..MaxLines - 1)
        /\ Len(Append(got[r], stream[r].first + stream[r].sent)) = Len(got[r]) + 1
        /\ \A i \in 1..Len(got[r]) :
             Append(got[r], stream[r].first + stream[r].sent)[i] = got[r][i]
        /\ Append(got[r], stream[r].first + stream[r].sent)[Len(got[r]) + 1]
             = stream[r].first + stream[r].sent
    BY <1>3, <1>4, AppendProperties
  <1>6. got'[r] = Append(got[r], stream[r].first + stream[r].sent)
    BY <1>2
  <1>7. got' \in [Readers -> Seq(0..MaxLines - 1)]
    BY <1>2, <1>5
  <1>8. stream[r].index + stream[r].sent \in Int
    BY <1>1, ReaderTypes
  <1>9. lastId'[r] = stream[r].index + stream[r].sent /\ lastId' \in [Readers -> Int]
    BY <1>2, <1>8
  <1>10. QED
    BY <1>3, <1>5, <1>6, <1>7, <1>9

\* The stream of the client after an event: on to the next line of the batch,
\* or between two batches.
LEMMA SentStream ==
  ASSUME StreamInv, NEW r \in Readers, Send(r)
  PROVE  /\ stream' \in [Readers -> Stream]
         /\ \A q \in Readers : q # r => stream'[q] = stream[q]
         /\ \/ /\ stream[r].sent + 1 < stream[r].size
               /\ stream'[r].step = "send" /\ stream'[r].sent = stream[r].sent + 1
               /\ stream'[r].index = stream[r].index /\ stream'[r].first = stream[r].first
               /\ stream'[r].size = stream[r].size
            \/ /\ stream[r].sent + 1 = stream[r].size
               /\ stream'[r].step = "get" /\ stream'[r].sent = 0
               /\ stream'[r].index = stream[r].index + stream[r].size
  <1>1. TypeOK /\ BatchOK(r) /\ stream[r].step = "send"
    BY DEF StreamInv, ReaderOK, Send
  <1>2. stream \in [Readers -> Stream] /\ stream[r] \in Stream
    BY <1>1 DEF TypeOK
  <1>3. /\ stream[r].sent \in Nat /\ stream[r].size \in Nat /\ stream[r].index \in Nat
        /\ stream[r].sent < stream[r].size
    BY <1>1, ReaderTypes DEF BatchOK
  <1>4. CASE stream[r].sent + 1 < stream[r].size
    <2> DEFINE s == [stream[r] EXCEPT !.sent = stream[r].sent + 1]
    <2>1. stream' = [stream EXCEPT ![r] = s]
      <3>1. stream' = [stream EXCEPT ![r] =
              IF stream[r].sent + 1 < stream[r].size THEN s
              ELSE [Off EXCEPT !.step = "get", !.index = stream[r].index + stream[r].size]]
        BY DEF Send
      <3>2. QED
        BY <1>4, <3>1
    <2>2. s \in Stream
      <3>1. stream[r].sent + 1 \in Nat
        BY <1>3
      <3>2. QED
        BY <1>2, <3>1, StreamFields
    <2>3. /\ s.step = "send" /\ s.sent = stream[r].sent + 1 /\ s.index = stream[r].index
          /\ s.first = stream[r].first /\ s.size = stream[r].size
      BY <1>1, <1>2 DEF Stream
    <2> HIDE DEF s
    <2>4. QED
      BY <1>2, <1>4, <2>1, <2>2, <2>3
  <1>5. CASE ~(stream[r].sent + 1 < stream[r].size)
    <2> DEFINE s == [Off EXCEPT !.step = "get", !.index = stream[r].index + stream[r].size]
    <2>1. stream' = [stream EXCEPT ![r] = s]
      BY <1>2, <1>5 DEF Send
    <2>2. s \in Stream
      <3>1. stream[r].index + stream[r].size \in Nat
        BY <1>3
      <3>2. QED
        BY <3>1, StreamFrom
    <2>3. s.step = "get" /\ s.sent = 0 /\ s.index = stream[r].index + stream[r].size
      BY DEF Off
    <2>4. stream[r].sent + 1 = stream[r].size
      BY <1>3, <1>5
    <2> HIDE DEF s
    <2>5. QED
      BY <1>2, <2>1, <2>2, <2>3, <2>4
  <1>6. QED
    BY <1>4, <1>5

\* What one client has received stays ordered and, while nothing is dropped,
\* complete when the next line of a batch reaches it.
LEMMA SendStep ==
  ASSUME StreamInv, NEW r \in Readers, Send(r)
  PROVE  StreamInv'
  <1>1. TypeOK /\ ReaderOK(r) /\ stream[r].step = "send"
    BY DEF StreamInv, Send
  <1>2. UNCHANGED <<written, dropped, over, task>>
    BY DEF Send, bufferVars
  <1>3. /\ stream[r].index \in Nat /\ stream[r].first \in Nat
        /\ stream[r].size \in Nat /\ stream[r].sent \in Nat
        /\ lastId[r] \in Int /\ written \in Nat /\ dropped \in Nat
        /\ Len(got[r]) \in Nat
        /\ \A i \in 1..Len(got[r]) : got[r][i] \in Int
    BY <1>1, ReaderTypes
  <1>4. /\ stream[r].sent < stream[r].size
        /\ stream[r].first + stream[r].size <= written
        /\ stream[r].first <= dropped + stream[r].index
        /\ lastId[r] = stream[r].index + stream[r].sent - 1
        /\ \A i \in 1..Len(got[r]) : got[r][i] < stream[r].first + stream[r].sent
    BY <1>1 DEF ReaderOK, BatchOK
  <1>5. TypeOK'
    BY <1>1, <1>2, Received, SentStream DEF TypeOK
  <1>6. /\ Len(got'[r]) = Len(got[r]) + 1
        /\ \A i \in 1..Len(got[r]) : got'[r][i] = got[r][i]
        /\ got'[r][Len(got[r]) + 1] = stream[r].first + stream[r].sent
        /\ lastId'[r] = stream[r].index + stream[r].sent
    BY Received
  \* Every line received so far is older than the new one, or is the new one.
  <1>7. ASSUME NEW i \in 1..Len(got'[r])
        PROVE  /\ got'[r][i] \in Int
               /\ got'[r][i] <= stream[r].first + stream[r].sent
               /\ i <= Len(got[r]) => got'[r][i] < stream[r].first + stream[r].sent
    <2>1. CASE i = Len(got[r]) + 1
      <3>1. ~(i <= Len(got[r])) /\ stream[r].first + stream[r].sent \in Int
        BY <1>3, <2>1
      <3>2. QED
        BY <1>6, <2>1, <3>1
    <2>2. CASE i \in 1..Len(got[r])
      <3>1. got[r][i] \in Int /\ got[r][i] < stream[r].first + stream[r].sent
        BY <1>3, <1>4, <2>2
      <3>2. got'[r][i] = got[r][i]
        BY <1>6, <2>2
      <3>3. stream[r].first + stream[r].sent \in Int
        BY <1>3
      <3>4. QED
        BY ONLY <3>1, <3>2, <3>3
    <2>3. QED
      BY <1>3, <1>6, <2>1, <2>2
  <1>8. Ordered(r)'
    <2>1. SUFFICES ASSUME NEW i \in 1..Len(got'[r]), NEW j \in 1..Len(got'[r]), i < j
                   PROVE  got'[r][i] < got'[r][j]
      BY DEF Ordered
    <2>2. i \in 1..Len(got[r])
      BY <1>3, <1>6, <2>1
    <2>3. CASE j = Len(got[r]) + 1
      BY <1>6, <1>7, <2>2, <2>3
    <2>4. CASE j \in 1..Len(got[r])
      BY <1>1, <1>6, <2>1, <2>2, <2>4 DEF ReaderOK, Ordered
    <2>5. QED
      BY <1>3, <1>6, <2>3, <2>4
  <1>9. SeenOK(r)'
    <2>1. lastId'[r] >= -1
      BY <1>3, <1>6
    <2>2. ASSUME NEW i \in 1..Len(got'[r])
          PROVE  got'[r][i] <= dropped' + lastId'[r]
      <3>1. got'[r][i] \in Int /\ got'[r][i] <= stream[r].first + stream[r].sent
        BY <1>7
      <3>2. stream[r].first + stream[r].sent <= dropped + (stream[r].index + stream[r].sent)
        <4>1. stream[r].first <= dropped + stream[r].index
          BY <1>4
        <4>2. QED
          BY <1>3, <4>1
      <3>3. got'[r][i] <= dropped + (stream[r].index + stream[r].sent)
        <4>1. /\ stream[r].first + stream[r].sent \in Int
              /\ dropped + (stream[r].index + stream[r].sent) \in Int
          BY <1>3
        <4>2. QED
          BY ONLY <3>1, <3>2, <4>1
      <3>4. QED
        BY <1>2, <1>6, <3>3
    <2>3. QED
      BY <2>1, <2>2 DEF SeenOK
  <1>10. IndexOK(r)'
    <2>1. SUFFICES ASSUME stream'[r].step \in {"get", "check", "end", "wait"}
                   PROVE  IndexOK(r)'
      BY DEF IndexOK
    <2>2. /\ stream[r].sent + 1 = stream[r].size /\ stream'[r].sent = 0
          /\ stream'[r].index = stream[r].index + stream[r].size
      BY <2>1, SentStream
    <2>3. stream'[r].index = (stream[r].index + stream[r].sent) + 1
      BY <1>3, <2>2
    <2>4. QED
      BY <1>6, <2>2, <2>3 DEF IndexOK
  <1>11. BatchOK(r)'
    <2>1. SUFFICES ASSUME stream'[r].step = "send" PROVE BatchOK(r)'
      BY DEF BatchOK
    <2>2. /\ stream[r].sent + 1 < stream[r].size
          /\ stream'[r].sent = stream[r].sent + 1
          /\ stream'[r].index = stream[r].index /\ stream'[r].first = stream[r].first
          /\ stream'[r].size = stream[r].size
      BY <2>1, SentStream
    <2>3. ASSUME NEW i \in 1..Len(got'[r])
          PROVE  got'[r][i] < stream'[r].first + stream'[r].sent
      <3>1. got'[r][i] \in Int /\ got'[r][i] <= stream[r].first + stream[r].sent
        BY <1>7
      <3>2. /\ stream[r].first \in Int /\ stream[r].sent \in Int
            /\ stream'[r].first = stream[r].first /\ stream'[r].sent = stream[r].sent + 1
        BY <1>3, <2>2
      <3>3. QED
        BY ONLY <3>1, <3>2
    <2>4. lastId'[r] = stream'[r].index + stream'[r].sent - 1
      BY <1>3, <1>6, <2>2
    <2>5. QED
      BY <1>2, <1>4, <2>2, <2>3, <2>4 DEF BatchOK
  <1>12. PositionsOK(r)'
    <2>1. SUFFICES ASSUME dropped = 0 PROVE PositionsOK(r)'
      BY <1>2 DEF PositionsOK
    <2>2. /\ got[r] = [i \in 1..Len(got[r]) |-> i - 1]
          /\ Len(got[r]) = lastId[r] + 1
          /\ stream[r].first = stream[r].index
      BY <1>1, <2>1 DEF ReaderOK, PositionsOK
    <2>3. stream[r].index + stream[r].sent = Len(got[r])
      <3>1. lastId[r] = stream[r].index + stream[r].sent - 1
        BY <1>4
      <3>2. QED
        BY <1>3, <2>2, <3>1
    <2>4. Len(got'[r]) = lastId'[r] + 1
      BY <1>6, <2>3
    <2>5. ASSUME NEW i \in 1..Len(got'[r]) PROVE got'[r][i] = i - 1
      <3>1. CASE i = Len(got[r]) + 1
        <4>1. got'[r][i] = Len(got[r])
          BY <1>6, <2>2, <2>3, <3>1
        <4>2. QED
          BY <1>3, <3>1, <4>1
      <3>2. CASE i \in 1..Len(got[r])
        <4>1. got[r][i] = i - 1
          BY <2>2, <3>2
        <4>2. QED
          BY <1>6, <3>2, <4>1
      <3>3. QED
        BY <1>3, <1>6, <3>1, <3>2
    <2>6. got'[r] = [i \in 1..Len(got'[r]) |-> i - 1]
      <3>1. got'[r] \in Seq(0..MaxLines - 1)
        BY Received
      <3>2. got'[r] = [i \in 1..Len(got'[r]) |-> got'[r][i]]
        BY <3>1, LenProperties
      <3>3. QED
        BY <2>5, <3>2
    <2>7. stream'[r].step = "send" => stream'[r].first = stream'[r].index
      BY <2>2, SentStream
    <2>8. QED
      BY <2>4, <2>6, <2>7 DEF PositionsOK
  <1>13. ASSUME NEW q \in Readers, q # r PROVE ReaderOK(q)'
    <2>1. got'[q] = got[q] /\ lastId'[q] = lastId[q]
      BY <1>1, <1>13 DEF TypeOK, Send
    <2>2. stream'[q] = stream[q]
      BY <1>13, SentStream
    <2>3. /\ written' \in Nat /\ dropped' \in Nat
          /\ written <= written' /\ dropped <= dropped'
      BY <1>2, <1>3
    <2>4. QED
      BY <2>1, <2>2, <2>3, BufferMoves
  <1>14. QED
    BY <1>5, <1>8, <1>9, <1>10, <1>11, <1>12, <1>13 DEF StreamInv, ReaderOK

-----------------------------------------------------------------------------
\* A restart drops the buffer and every connection.
LEMMA RestartStep ==
  ASSUME StreamInv, Restart
  PROVE  StreamInv'
  <1>1. TypeOK
    BY DEF StreamInv
  <1>2. Off \in Stream
    BY DEF Off, Stream, Steps
  <1>3. /\ stream' = [r \in Readers |-> IF stream[r].step = "complete" THEN stream[r] ELSE Off]
        /\ dropped' = written /\ written' = written /\ over' = over /\ task' = "ended"
        /\ UNCHANGED clientVars
    BY DEF Restart
  <1>4. TypeOK'
    <2>1. stream' \in [Readers -> Stream]
      BY <1>1, <1>2, <1>3 DEF TypeOK
    <2>2. written' \in 0..MaxLines /\ dropped' \in 0..written'
      BY <1>1, <1>3, BufferAssumption DEF TypeOK
    <2>3. QED
      BY <1>1, <1>3, <2>1, <2>2 DEF TypeOK, clientVars
  <1>5. ASSUME NEW r \in Readers PROVE ReaderOK(r)'
    <2>1. stream'[r].step \in {"off", "complete"}
      <3>1. stream'[r] = IF stream[r].step = "complete" THEN stream[r] ELSE Off
        BY <1>3
      <3>2. QED
        BY <3>1 DEF Off
    <2>2. dropped' \in Nat /\ dropped <= dropped'
      BY <1>1, <1>3, ReaderTypes
    <2>3. QED
      BY <1>3, <2>1, <2>2, StreamMoves
  <1>6. QED
    BY <1>4, <1>5 DEF StreamInv

\* Cancelling the job, and a step that changes nothing, touch no stream.
LEMMA QuietStep ==
  ASSUME StreamInv, Cancel \/ UNCHANGED vars
  PROVE  StreamInv'
  <1>1. TypeOK
    BY DEF StreamInv
  <1>2. /\ UNCHANGED <<written, dropped, task, stream, got, lastId>>
        /\ over' \in BOOLEAN
    BY <1>1 DEF Cancel, vars, bufferVars, clientVars, TypeOK
  <1>3. TypeOK'
    BY <1>1, <1>2 DEF TypeOK
  <1>4. ASSUME NEW r \in Readers PROVE ReaderOK(r)'
    <2>1. /\ written' \in Nat /\ dropped' \in Nat
          /\ written <= written' /\ dropped <= dropped'
      BY <1>1, <1>2, ReaderTypes
    <2>2. QED
      BY <1>2, <2>1, BufferMoves
  <1>5. QED
    BY <1>3, <1>4 DEF StreamInv

\* The invariant holds after every step.
LEMMA NextStreamInv == StreamInv /\ [Next]_vars => StreamInv'
  <1> SUFFICES ASSUME StreamInv, [Next]_vars PROVE StreamInv'
    OBVIOUS
  <1>1. CASE JobTask
    BY <1>1, TaskStep
  <1>2. CASE Cancel \/ UNCHANGED vars
    BY <1>2, QuietStep
  <1>3. CASE Restart
    BY <1>3, RestartStep
  <1>4. ASSUME NEW r \in Readers, Connect(r) PROVE StreamInv'
    BY <1>4, ConnectStep
  <1>5. ASSUME NEW r \in Readers, Disconnect(r) PROVE StreamInv'
    BY <1>5, StreamStops
  <1>6. ASSUME NEW r \in Readers, Streams(r) PROVE StreamInv'
    <2>1. CASE Get(r)
      BY <2>1, GetStep
    <2>2. CASE Send(r)
      BY <2>2, SendStep
    <2>3. CASE CheckComplete(r)
      <3>1. PICK t \in {"end", "wait"} : stream' = [stream EXCEPT ![r].step = t]
        BY <2>3 DEF CheckComplete
      <3>2. QED
        BY <2>3, <3>1, StepOnly DEF CheckComplete
    <2>4. CASE Finish(r)
      BY <2>4, StreamStops
    <2>5. CASE Wake(r)
      BY <2>5, StepOnly DEF Wake
    <2>6. QED
      BY <1>6, <2>1, <2>2, <2>3, <2>4, <2>5 DEF Streams
  <1>7. QED
    BY <1>1, <1>2, <1>3, <1>4, <1>5, <1>6 DEF Next

\* The streams' state always has its type.
THEOREM StreamTypeCorrect == Spec => []TypeOK
  <1>1. StreamInv => TypeOK
    BY DEF StreamInv
  <1>2. QED
    BY InitStreamInv, NextStreamInv, <1>1, PTL DEF Spec

\* stream_job_output: whatever the buffer drops and however often a client
\* connects again, it receives no line twice and none before an earlier one.
THEOREM InOrderOnceAlways == Spec => []InOrderOnce
  <1>1. StreamInv => InOrderOnce
    BY DEF StreamInv, ReaderOK, Ordered, InOrderOnce
  <1>2. QED
    BY InitStreamInv, NextStreamInv, <1>1, PTL DEF Spec

\* stream_job: while the buffer has dropped nothing, what a client has received
\* over all its connections is a prefix of what the task has written.
THEOREM NothingSkippedAlways == Spec => []NothingSkipped
  <1>1. StreamInv => NothingSkipped
    BY DEF StreamInv, ReaderOK, PositionsOK, NothingSkipped
  <1>2. QED
    BY InitStreamInv, NextStreamInv, <1>1, PTL DEF Spec
=============================================================================
