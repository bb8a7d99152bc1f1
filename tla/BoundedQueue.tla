---------------------------- MODULE BoundedQueue ----------------------------
(***************************************************************************)
(* What sync_fifo promises: a queue of at most DEPTH words, one push and   *)
(* one pop per clock edge.  Room is judged before the edge, so a push into *)
(* a full queue is dropped even as a pop makes room for it.                *)
(***************************************************************************)
EXTENDS Naturals, Sequences

CONSTANTS DEPTH, Word

VARIABLE queue

Popped(rd_en) == IF rd_en /\ queue # <<>> THEN Tail(queue) ELSE queue

Edge(wr_en, wr_data, rd_en) ==
  queue' = IF wr_en /\ Len(queue) < DEPTH THEN Append(Popped(rd_en), wr_data)
                                          ELSE Popped(rd_en)

Clear == queue' = <<>>

Init == queue = <<>>

Next == \/ \E wr_en, rd_en \in BOOLEAN, wr_data \in Word : Edge(wr_en, wr_data, rd_en)
        \/ Clear

Spec == Init /\ [][Next]_queue
=============================================================================
