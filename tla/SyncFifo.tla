------------------------------ MODULE SyncFifo ------------------------------
(***************************************************************************)
(* modules/uart-spi: the synchronous FIFO on both sides of the UART and    *)
(* the SPI master.  Pointers carry one bit more than an index, so that     *)
(* full and empty differ; DEPTH being a power of two, they wrap at twice   *)
(* DEPTH.                                                                  *)
(***************************************************************************)
EXTENDS Integers, Sequences

CONSTANTS DEPTH, Word

ASSUME DepthAssumption == DEPTH \in Nat \ {0}

VARIABLES mem, wr_ptr, rd_ptr

fifoVars == <<mem, wr_ptr, rd_ptr>>

Slot    == 0 .. DEPTH - 1
Pointer == 0 .. 2 * DEPTH - 1

Succ(ptr)  == IF ptr = 2 * DEPTH - 1 THEN 0 ELSE ptr + 1
Index(ptr) == IF ptr < DEPTH THEN ptr ELSE ptr - DEPTH

\* wr_ptr - rd_ptr, in the width of a pointer.
count == IF wr_ptr >= rd_ptr THEN wr_ptr - rd_ptr ELSE wr_ptr + 2 * DEPTH - rd_ptr

\* Bug variants: full one word too late; one too early.
fullLate  == count > DEPTH
fullEarly == count >= DEPTH - 1

full  == count = DEPTH
empty == count = 0

Edge(wr_en, wr_data, rd_en) ==
  /\ IF wr_en /\ ~full
       THEN /\ mem' = [mem EXCEPT ![Index(wr_ptr)] = wr_data]
            /\ wr_ptr' = Succ(wr_ptr)
       ELSE UNCHANGED <<mem, wr_ptr>>
  /\ rd_ptr' = IF rd_en /\ ~empty THEN Succ(rd_ptr) ELSE rd_ptr

Clear == wr_ptr' = 0 /\ rd_ptr' = 0 /\ UNCHANGED mem

\* The array has no reset.
Init == mem \in [Slot -> Word] /\ wr_ptr = 0 /\ rd_ptr = 0

Next == \/ \E wr_en, rd_en \in BOOLEAN, wr_data \in Word : Edge(wr_en, wr_data, rd_en)
        \/ Clear

Spec == Init /\ [][Next]_fifoVars

-----------------------------------------------------------------------------
(* Properties.                                                             *)

\* Types; the pointers are never more than DEPTH apart.
FifoTypeOK == /\ mem \in [Slot -> Word]
              /\ wr_ptr \in Pointer
              /\ rd_ptr \in Pointer
              /\ count <= DEPTH

\* The slot the i-th oldest word is in.
Place(i) == Index(IF rd_ptr + i <= 2 * DEPTH THEN rd_ptr + i - 1
                                             ELSE rd_ptr + i - 1 - 2 * DEPTH)

\* What is held, oldest first: rd_data, the word at rd_ptr, is its head.
Contents == [i \in 1 .. count |-> mem[Place(i)]]

Queue == INSTANCE BoundedQueue WITH queue <- Contents

\* The pointers of sync_fifo.sv:60-72 implement a bounded queue: no word held is
\* lost, repeated or reordered, whatever the distance the pointers have wrapped.
QueueSpec == Queue!Spec

\* And they do under the same strobes: a write is refused exactly when DEPTH words
\* are held, a read exactly when none is, also when both come together.
SameStrobes ==
  [][\A wr_en, rd_en \in BOOLEAN, wr_data \in Word :
       Edge(wr_en, wr_data, rd_en) => Queue!Edge(wr_en, wr_data, rd_en)]_fifoVars
=============================================================================
