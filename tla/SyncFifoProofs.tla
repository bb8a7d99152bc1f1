--------------------------- MODULE SyncFifoProofs ---------------------------
(***************************************************************************)
(* sync_fifo implements the bounded queue, for every depth and every word. *)
(***************************************************************************)
EXTENDS SyncFifo, TLAPS

\* Pointers stay in their width and the occupancy never passes the depth, for any
\* strobes (sync_fifo.sv:60-72).
THEOREM FifoTypes == Spec => []FifoTypeOK
<1>1. Init => FifoTypeOK
  BY DepthAssumption DEF Init, FifoTypeOK, Slot, Pointer, count
<1>2. FifoTypeOK /\ [Next]_fifoVars => FifoTypeOK'
  <2> SUFFICES ASSUME FifoTypeOK, [Next]_fifoVars PROVE FifoTypeOK'
    OBVIOUS
  <2> USE DepthAssumption DEF FifoTypeOK, Pointer
  <2>1. ASSUME NEW wr_en \in BOOLEAN, NEW rd_en \in BOOLEAN, NEW wr_data \in Word,
               Edge(wr_en, wr_data, rd_en)
        PROVE  FifoTypeOK'
    <3>1. /\ wr_ptr' = IF wr_en /\ ~full THEN Succ(wr_ptr) ELSE wr_ptr
          /\ rd_ptr' = IF rd_en /\ ~empty THEN Succ(rd_ptr) ELSE rd_ptr
      BY <2>1 DEF Edge
    <3>2. mem' \in [Slot -> Word]
      BY <2>1 DEF Edge, Slot, Index
    <3>3. wr_ptr' \in Pointer /\ rd_ptr' \in Pointer
      BY <3>1 DEF Succ
    <3>4. count' <= DEPTH
      BY <3>1, <3>3 DEF Succ, count, full, empty
    <3> QED
      BY <3>2, <3>3, <3>4
  <2>2. CASE Clear
    BY <2>2 DEF Clear, count
  <2>3. CASE UNCHANGED fifoVars
    BY <2>3 DEF fifoVars, count
  <2> QED
    BY <2>1, <2>2, <2>3 DEF Next
<1> QED
  BY <1>1, <1>2, PTL DEF Spec

\* The contents are a sequence, as long as the occupancy says.
ContentsOK ==
  /\ count \in 0 .. DEPTH
  /\ Contents \in Seq(Word)
  /\ Len(Contents) = count
  /\ \A i \in 1 .. count : Place(i) \in Slot /\ Contents[i] = mem[Place(i)]

LEMMA ContentsSeq == FifoTypeOK => ContentsOK
<1> SUFFICES ASSUME FifoTypeOK PROVE ContentsOK
  OBVIOUS
<1> USE DepthAssumption DEF FifoTypeOK, Pointer
<1>1. count \in 0 .. DEPTH
  BY DEF count
<1>2. \A i \in 1 .. count : Place(i) \in Slot
  BY <1>1 DEF Place, Index, Slot
<1>3. \A i \in 1 .. count : mem[Place(i)] \in Word
  BY <1>2
<1>4. Contents \in [1 .. count -> Word]
  BY <1>3 DEF Contents
<1> QED
  BY <1>1, <1>2, <1>4 DEF Contents, ContentsOK

\* What one edge does to the contents: the word written goes last, the word read
\* leaves from the front, the words between keep their order.
LEMMA EdgeOnQueue ==
  ASSUME FifoTypeOK, FifoTypeOK',
         NEW wr_en \in BOOLEAN, NEW rd_en \in BOOLEAN, NEW wr_data \in Word,
         Edge(wr_en, wr_data, rd_en)
  PROVE  Queue!Edge(wr_en, wr_data, rd_en)
<1> USE DepthAssumption
<1> DEFINE wr == wr_en /\ count < DEPTH
           rd == rd_en /\ count > 0
           P  == IF rd THEN Tail(Contents) ELSE Contents
           Q  == IF wr THEN Append(P, wr_data) ELSE P
           out == IF rd THEN 1 ELSE 0
<1>1. /\ wr_ptr \in Pointer /\ rd_ptr \in Pointer /\ mem \in [Slot -> Word]
      /\ count \in 0 .. DEPTH
      /\ Contents \in Seq(Word) /\ Len(Contents) = count
      /\ \A i \in 1 .. count : Place(i) \in Slot /\ Contents[i] = mem[Place(i)]
  BY ContentsSeq DEF FifoTypeOK, ContentsOK
<1>2. /\ count' \in 0 .. DEPTH
      /\ Contents' \in Seq(Word) /\ Len(Contents') = count'
      /\ \A i \in 1 .. count' : Contents'[i] = mem'[Place(i)']
  <2>1. ContentsOK'
    BY ContentsSeq, PTL
  <2> QED
    BY <2>1 DEF ContentsOK
<1>3. /\ wr_ptr' = IF wr THEN Succ(wr_ptr) ELSE wr_ptr
      /\ rd_ptr' = IF rd THEN Succ(rd_ptr) ELSE rd_ptr
      /\ mem' = IF wr THEN [mem EXCEPT ![Index(wr_ptr)] = wr_data] ELSE mem
  BY <1>1 DEF Edge, full, empty
<1>4. count' = (IF wr THEN count + 1 ELSE count) - out
  BY <1>1, <1>3 DEF count, Succ, Pointer
<1>5. \A i \in 1 .. count - out : Place(i)' = Place(i + out)
  BY <1>1, <1>3 DEF Place, Succ, Pointer
<1>6. wr => /\ \A i \in 1 .. count : Place(i) # Index(wr_ptr)
            /\ Index(wr_ptr) \in Slot
  BY <1>1 DEF Place, Index, Slot, Pointer, count
<1>7. wr => \A i \in Nat : i = count - out + 1 => Place(i)' = Index(wr_ptr)
  BY <1>1, <1>3 DEF Place, Index, Succ, Pointer, count
<1>8. /\ P \in Seq(Word) /\ Len(P) = count - out
      /\ \A i \in 1 .. count - out : P[i] = Contents[i + out]
  <2>1. CASE rd
    BY <1>1, <2>1
  <2>2. CASE ~rd
    BY <1>1, <2>2
  <2> QED
    BY <2>1, <2>2
<1>9. /\ Q \in Seq(Word) /\ Len(Q) = count'
      /\ \A i \in 1 .. count - out : Q[i] = P[i]
      /\ wr => Q[count - out + 1] = wr_data
  <2>1. CASE wr
    BY <1>1, <1>4, <1>8, <2>1
  <2>2. CASE ~wr
    BY <1>1, <1>4, <1>8, <2>2
  <2> QED
    BY <2>1, <2>2
<1>10. \A i \in 1 .. count' : Contents'[i] = Q[i]
  <2> SUFFICES ASSUME NEW i \in 1 .. count' PROVE mem'[Place(i)'] = Q[i]
    BY <1>2
  <2>1. CASE i <= count - out
    <3>1. i \in 1 .. count - out /\ i + out \in 1 .. count
      BY <1>1, <1>2, <2>1
    <3>2. Q[i] = mem[Place(i + out)]
      BY <1>1, <1>8, <1>9, <3>1
    <3>3. mem'[Place(i + out)] = mem[Place(i + out)]
      BY <1>1, <1>3, <1>6, <3>1
    <3> QED
      BY <1>5, <3>1, <3>2, <3>3
  <2>2. CASE i > count - out
    <3>1. wr /\ i = count - out + 1
      BY <1>1, <1>4, <2>2
    <3>2. mem'[Index(wr_ptr)] = wr_data
      BY <1>1, <1>3, <1>6, <3>1
    <3>3. Place(i)' = Index(wr_ptr)
      BY <1>2, <1>7, <3>1
    <3> QED
      BY <1>9, <3>1, <3>2, <3>3
  <2>3. i <= count - out \/ i > count - out
    BY <1>1, <1>2
  <2> QED
    BY <2>1, <2>2, <2>3, Zenon
<1>11. Contents' = Q
  BY <1>2, <1>9, <1>10
<1>12. Q = IF wr_en /\ Len(Contents) < DEPTH THEN Append(Queue!Popped(rd_en), wr_data)
                                              ELSE Queue!Popped(rd_en)
  <2>1. rd <=> rd_en /\ Contents # <<>>
    BY <1>1
  <2> QED
    BY <1>1, <2>1 DEF Queue!Popped
<1> QED
  BY <1>11, <1>12 DEF Queue!Edge

\* sync_fifo is a bounded queue: no word lost, repeated or reordered, for every
\* depth and width.
THEOREM ImplementsQueue == Spec => QueueSpec
<1>1. Init => Queue!Init
  <2> SUFFICES ASSUME Init PROVE Contents = <<>>
    BY DEF Queue!Init
  <2>1. FifoTypeOK /\ count = 0
    BY DepthAssumption DEF Init, FifoTypeOK, Slot, Pointer, count
  <2> QED
    BY <2>1, ContentsSeq DEF ContentsOK
<1>2. FifoTypeOK /\ FifoTypeOK' /\ [Next]_fifoVars => [Queue!Next]_Contents
  <2> SUFFICES ASSUME FifoTypeOK, FifoTypeOK', [Next]_fifoVars
               PROVE  [Queue!Next]_Contents
    OBVIOUS
  <2>1. ASSUME NEW wr_en \in BOOLEAN, NEW rd_en \in BOOLEAN, NEW wr_data \in Word,
               Edge(wr_en, wr_data, rd_en)
        PROVE  Queue!Next
    BY <2>1, EdgeOnQueue DEF Queue!Next
  <2>2. ASSUME Clear PROVE Queue!Next
    <3>1. count' = 0
      BY <2>2 DEF Clear, count
    <3>2. ContentsOK'
      BY ContentsSeq, PTL
    <3>3. Contents' = <<>>
      BY <3>1, <3>2 DEF ContentsOK
    <3> QED
      BY <3>3 DEF Queue!Next, Queue!Clear
  <2>3. CASE UNCHANGED fifoVars
    <3>1. Contents' = Contents
      BY <2>3 DEF fifoVars, Contents, count, Place, Index
    <3> QED
      BY <3>1
  <2> QED
    BY <2>1, <2>2, <2>3 DEF Next
<1> QED
  BY <1>1, <1>2, FifoTypes, PTL DEF Spec, QueueSpec, Queue!Spec

\* It is the same queue operation under the same strobes: writes are refused exactly
\* when DEPTH words are held, reads exactly when none is.
THEOREM StrobesAgree == Spec => SameStrobes
<1>1. FifoTypeOK /\ FifoTypeOK' =>
        \A wr_en, rd_en \in BOOLEAN, wr_data \in Word :
          Edge(wr_en, wr_data, rd_en) => Queue!Edge(wr_en, wr_data, rd_en)
  BY EdgeOnQueue
<1> QED
  BY <1>1, FifoTypes, PTL DEF SameStrobes
=============================================================================
