----------------------------- MODULE ClintUpdate ----------------------------
(***************************************************************************)
(* The 64-bit deadline moved through the 32-bit bus: software that makes   *)
(* the three stores of socgen/firmware.py (docs/traps.md gives the same),  *)
(* for any old and new deadline, with any amount of time and any other     *)
(* access between them.                                                    *)
(***************************************************************************)
EXTENDS Clint, Sequences

VARIABLES
  todo,       \* the stores of the update still to come
  old, new    \* the deadline before and after the update

updateVars == <<clintVars, todo, old, new>>

Store(addr, wdata) == [addr |-> addr, wdata |-> wdata]

\* Bug variant: the new halves, low one first, and nothing parked.
StoresLowFirst(d) == <<Store("MTIMECMP_LO", d.lo), Store("MTIMECMP_HI", d.hi)>>

\* Park the low half at its maximum, then high, then low.
Stores(d) == <<Store("MTIMECMP_LO", Ones),
               Store("MTIMECMP_HI", d.hi),
               Store("MTIMECMP_LO", d.lo)>>

UpdateInit ==
  /\ ClintInit
  /\ todo = <<>>
  /\ old = NoDeadline
  /\ new = NoDeadline

\* Software settles on another deadline; the bus does something else.
Decide(d, addr) ==
  /\ todo = <<>>
  /\ todo' = Stores(d)
  /\ old' = new
  /\ new' = d
  /\ Edge(addr)
  /\ NoWrite

StoreNext ==
  /\ todo # <<>>
  /\ Edge(Head(todo).addr)
  /\ Write(Head(todo).addr, Head(todo).wdata)
  /\ todo' = Tail(todo)
  /\ UNCHANGED <<old, new>>

\* Any other access: a read, or a store to a register that is no deadline.
Access(addr) ==
  /\ Edge(addr)
  /\ \/ NoWrite
     \/ addr \notin {"MTIMECMP_LO", "MTIMECMP_HI"} /\ \E w \in {0, 1} : Write(addr, w)
  /\ UNCHANGED <<todo, old, new>>

Reset ==
  /\ ClintReset
  /\ todo' = <<>>
  /\ old' = NoDeadline
  /\ new' = NoDeadline

Running == \/ \E d \in Pair, addr \in Register : Decide(d, addr)
           \/ StoreNext
           \/ \E addr \in Register : Access(addr)

UpdateNext == Running \/ Reset

\* The clock does not stop.
UpdateSpec == UpdateInit /\ [][UpdateNext]_updateVars /\ WF_updateVars(Running)

-----------------------------------------------------------------------------
(* Properties.                                                             *)

\* The intermediate pairs of an update are never an earlier deadline than both
\* the old and the new one, however much time passes between the stores: mtip
\* is high only if one of the two has really passed (clint.sv:71-79 under the
\* order of firmware.py:138-148).
NoSpuriousTimer ==
  Mtip => mtime >= Value(old) \/ mtime >= Value(new)

\* Between updates the interrupt says exactly whether the deadline asked for
\* has passed: no update is half done, no tick early or late.
ArmedExactly == todo = <<>> => (Mtip <=> mtime >= Value(new))

\* Whatever the deadline, if it is left alone mtip is raised (clint.sv:107).  The
\* deadline reset leaves means none was set.
DeadlineRaised ==
  \A d \in Pair \ {NoDeadline} : <>[](todo = <<>> /\ new = d) => []<>Mtip

\* What makes it so: where an update stands, and the pair it leaves.
Stage(stores, pair) == todo = stores /\ mtimecmp = pair

UpdateInv ==
  /\ old \in Pair /\ new \in Pair /\ mtime \in Nat
  /\ \/ Stage(Stores(new), old)
     \/ Stage(Tail(Stores(new)), [lo |-> Ones, hi |-> old.hi])
     \/ Stage(Tail(Tail(Stores(new))), [lo |-> Ones, hi |-> new.hi])
     \/ Stage(<<>>, new)
=============================================================================
