----------------------------- MODULE SocBusProofs ---------------------------
(***************************************************************************)
(* The read mux answers each load with its own word, for every size of the *)
(* pages, every access pattern and every word stored.                      *)
(***************************************************************************)
EXTENDS SocBus, TLAPS

\* What the bus has in flight has the shape of an access, and the array is page 0
\* of what software has stored.
BusTypeOK ==
  /\ acc \in Access /\ last.addr \in Address
  /\ stored \in [Page -> [Off -> Data]] /\ ram = stored[0]

\* The registered select is that of the access before, and the registered read
\* ports hold the words of that access.
ReadInFlight ==
  /\ sel_q = Select(last.addr)
  /\ sel_q = "aes"   => aes_rdata = last.word
  /\ sel_q = "clint" => clint_rdata = last.word
  /\ sel_q = "none"  => last.word = Zero
  /\ InArray(last.addr) => sel_q = "ram" /\ ram_rdata = last.word

BusInv == BusTypeOK /\ ReadInFlight

LEMMA Sizes ==
  0 \in Off /\ 0 \in Page /\ Zero \in Data /\ Bubble \in Access
  <1>1. 0 \in Off /\ 0 \in Page
    BY SocBusAssumption DEF Off, Page
  <1>2. Zero \in Data
    <2>1. 0 \in 0 .. Values - 1
      BY SocBusAssumption
    <2> QED BY <2>1 DEF Zero, Data
  <1> QED BY <1>1, <1>2 DEF Bubble, Access, Address

LEMMA Decoded ==
  ASSUME NEW a \in Address
  PROVE  /\ a.page \in Page /\ a.off \in Off
         /\ Select(a) \in {"uart", "aes", "clint", "ram", "none"}
         /\ Select(a) = "ram" <=> a.nibble = 0
         /\ InArray(a) <=> a.nibble = 0 /\ a.page = 0
  BY DEF Address, Select, InArray

\* A store that reaches the array reaches page 0 of the window and no other.
LEMMA ArrayStep ==
  ASSUME BusTypeOK, Edge
  PROVE  stored' \in [Page -> [Off -> Data]] /\ ram' = stored'[0]
  <1>1. /\ acc.addr.page \in Page /\ acc.addr.off \in Off /\ acc.data \in Data
        /\ Select(acc.addr) = "ram" <=> acc.addr.nibble = 0
        /\ InArray(acc.addr) <=> acc.addr.nibble = 0 /\ acc.addr.page = 0
    BY Decoded DEF BusTypeOK, Access
  <1>2. stored \in [Page -> [Off -> Data]] /\ ram = stored[0]
    BY DEF BusTypeOK
  <1>3. CASE acc.we /\ Select(acc.addr) = "ram"
    <2>1. stored' = [stored EXCEPT ![acc.addr.page][acc.addr.off] = acc.data]
      BY <1>3 DEF Edge
    <2>2. stored' \in [Page -> [Off -> Data]]
      BY <1>1, <1>2, <2>1
    <2>3. CASE acc.addr.page = 0
      BY <1>1, <1>2, <1>3, <2>1, <2>3, Sizes DEF Edge, RamNext
    <2>4. CASE acc.addr.page # 0
      BY <1>1, <1>2, <1>3, <2>1, <2>4, Sizes DEF Edge, RamNext
    <2> QED BY <2>2, <2>3, <2>4
  <1>4. CASE ~(acc.we /\ Select(acc.addr) = "ram")
    BY <1>2, <1>4 DEF Edge, RamNext
  <1> QED BY <1>3, <1>4

\* One edge later the access is the last one and its word is at its port.
LEMMA ReadStep ==
  ASSUME BusTypeOK, Edge
  PROVE  ReadInFlight'
  <1>1. /\ last' = [addr |-> acc.addr, word |-> Meant(acc.addr)]
        /\ sel_q' = Select(acc.addr)
        /\ aes_rdata' = Named("aes", acc.addr)
        /\ clint_rdata' = Named("clint", acc.addr)
        /\ ram_rdata' = RamRead(acc.addr)
    BY DEF Edge
  <1>2. acc.addr \in Address
    BY DEF BusTypeOK, Access
  <1>3. last'.addr = acc.addr /\ last'.word = Meant(acc.addr)
    BY <1>1
  <1>4. InArray(acc.addr) => Select(acc.addr) = "ram" /\ RamRead(acc.addr) = Meant(acc.addr)
    BY <1>2, Decoded DEF RamRead, Meant, InArray, BusTypeOK
  <1>5. /\ Select(acc.addr) = "aes" => Meant(acc.addr) = Named("aes", acc.addr)
        /\ Select(acc.addr) = "clint" => Meant(acc.addr) = Named("clint", acc.addr)
        /\ Select(acc.addr) = "none" => Meant(acc.addr) = Zero
    BY DEF Meant
  <1> QED BY <1>1, <1>3, <1>4, <1>5 DEF ReadInFlight, Select, InArray

LEMMA BusInvariant == Spec => []BusInv
  <1>1. Init => BusInv
    <2> SUFFICES ASSUME Init PROVE BusInv
      OBVIOUS
    <2>1. Bubble.addr \in Address /\ Bubble.addr.nibble = 0 /\ Bubble.addr.page = 0
      BY Sizes DEF Bubble, Address
    <2>2. stored \in [Page -> [Off -> Data]] /\ ram = stored[0]
      BY Sizes DEF Init
    <2>3. BusTypeOK
      BY <2>1, <2>2, Sizes DEF Init, BusTypeOK
    <2>4. ReadInFlight
      BY <2>1 DEF Init, ReadInFlight, Select, InArray
    <2> QED BY <2>3, <2>4 DEF BusInv
  <1>2. BusInv /\ [Next]_vars => BusInv'
    <2> SUFFICES ASSUME BusInv, [Next]_vars PROVE BusInv'
      OBVIOUS
    <2>1. CASE Edge
      <3>1. acc' \in Access /\ last'.addr \in Address
        BY <2>1 DEF Edge, BusInv, BusTypeOK, Access
      <3> QED BY <2>1, <3>1, ArrayStep, ReadStep DEF BusInv, BusTypeOK
    <2>2. CASE UNCHANGED vars
      BY <2>2 DEF vars, BusInv, BusTypeOK, ReadInFlight, Select, InArray
    <2> QED BY <2>1, <2>2 DEF Next
  <1> QED BY <1>1, <1>2, PTL DEF Spec

\* RAM, AES and CLINT answer a load with the word its own address names, whatever
\* is on the bus when the answer is taken (soc_top.sv:168-192).
THEOREM OwnWord == Spec => []LoadsOwnWord
  <1>1. BusInv => LoadsOwnWord
    BY DEF BusInv, ReadInFlight, LoadsOwnWord, Answered, DmemRdata
  <1> QED BY <1>1, BusInvariant, PTL
=============================================================================
