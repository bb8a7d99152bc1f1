-------------------------------- MODULE C8Flow ------------------------------
(***************************************************************************)
(* From source text to executed instruction: a C8 source is assembled, the *)
(* image is burnt into the ROM, and the core runs it from power-on.        *)
(***************************************************************************)
EXTENDS C8Cpu, C8Asm, FiniteSets

CONSTANT Sources   \* sequences of lines

\* The patterns of the tokeniser bound the number in a token of each class.
IsToken(t) ==
  /\ t.kind \in {"reg", "mem", "cc"} => t.val \in 0 .. 7
  /\ t.kind = "mem" => t.off \in Int
  /\ t.kind = "fn" => t.val \in 0 .. 2
  /\ t.kind = "int" => t.val \in Int

ASSUME SourcesAssumption ==
  \A s \in Sources :
    /\ Len(s) \in Nat /\ DOMAIN s = 1 .. Len(s)
    /\ \A i \in DOMAIN s : \A k \in 1 .. Len(s[i].args) : IsToken(s[i].args[k])

VARIABLES
  src,      \* history: the source in the ROM
  returns   \* history: where the calls that have not returned return to

flowVars == <<cpuVars, src, returns>>

\* The assembler writes no file for a source it refuses.
FlowInit ==
  /\ src \in Sources
  /\ \E image \in {Assemble(src)} : image.ok /\ imem = ToHex(image.words)
  /\ Init
  /\ returns = <<>>

Track ==
  /\ UNCHANGED src
  /\ returns' = CASE Op(insn) = CALL -> <<(pc + 1) % 256>> \o returns
                  [] Op(insn) = RET /\ returns # <<>> -> Tail(returns)
                  [] OTHER -> returns

FlowPowerOn == PowerOn /\ UNCHANGED <<src, returns>>
FlowExecute == Execute /\ Track
FlowNext == FlowPowerOn \/ FlowExecute
FlowSpec == FlowInit /\ [][FlowNext]_flowVars

-----------------------------------------------------------------------------
(* What the source says, read without the assembler's passes.              *)

HoldsWord(ln) == ln.mnem # "" /\ ln.mnem # ".ORG"

\* The last .org up to line i, or 0.
Origin(i) == LET orgs == {j \in 1 .. i : src[j].mnem = ".ORG"}
             IN IF orgs = {} THEN 0 ELSE CHOOSE j \in orgs : \A k \in orgs : k <= j

\* The address behind line i: the last .org plus the words since, and the
\* address of a word or a label: the one the lines before it have reached.
Reached(i) ==
  LET o == Origin(i)
  IN (IF o = 0 THEN 0 ELSE src[o].args[1].val)
       + Cardinality({j \in (o + 1) .. i : HoldsWord(src[j])})
AddressOf(i) == Reached(i - 1)

IsLabel(tok) == tok # None /\ \E i \in DOMAIN src : src[i].label = tok
LineOf(tok)  == CHOOSE i \in DOMAIN src : src[i].label = tok
Value(tok)   == IF IsLabel(tok) THEN AddressOf(LineOf(tok)) ELSE tok.val

\* The first word behind a label, if there is one before the next .org.
IsFirstBehind(i, tok) ==
  /\ i \in DOMAIN src /\ i >= LineOf(tok) /\ HoldsWord(src[i])
  /\ \A j \in LineOf(tok) .. (i - 1) : src[j].mnem = ""

\* The line whose word is executed: the last that claims the address.
Here == LET claims == {i \in DOMAIN src : HoldsWord(src[i]) /\ AddressOf(i) = pc}
        IN IF claims = {} THEN 0 ELSE CHOOSE i \in claims : \A j \in claims : j <= i

Cell(tok)  == (RdData(tok.val) + tok.off) % 256

Results(f, a, b) ==
  CASE f = "ADD" -> (a + b) % 256
    [] f = "SUB" -> (a - b) % 256
    [] f = "AND" -> BitAnd(a, b)
    [] f = "OR"  -> (a + b) - BitAnd(a, b)
    [] f = "XOR" -> (a + b) - 2 * BitAnd(a, b)

\* What one line does to the registers and to the memory.
Put(r, v) == regs' = IF r = 0 THEN regs ELSE [regs EXCEPT ![r] = v]
Does(ln) ==
  LET a == ln.args  m == ln.mnem
      v(i) == RdData(a[i].val)
  IN CASE m \in {"ADD", "SUB", "AND", "OR", "XOR"} ->
            Put(a[1].val, Results(m, v(2), v(3))) /\ UNCHANGED dmem
       [] m = "SHF" ->
            Put(a[1].val, <<(2 * v(2)) % 256, v(2) \div 2,
                            v(2) \div 2 + 128 * (v(2) % 2)>>[a[3].val + 1])
            /\ UNCHANGED dmem
       [] m = "LDI" -> Put(a[1].val, Value(a[2])) /\ UNCHANGED dmem
       [] m = "LD"  -> Put(a[1].val, dmem[Cell(a[2])]) /\ UNCHANGED dmem
       [] m = "ST"  -> dmem' = [dmem EXCEPT ![Cell(a[1])] = v(2)] /\ UNCHANGED regs
       [] m = "CALL" -> UNCHANGED regs
       [] OTHER -> UNCHANGED <<regs, dmem>>

-----------------------------------------------------------------------------
(* Properties                                                              *)

\* An executed word does to registers and memory what its source line says:
\* the registers, offsets and immediates the assembler packs (c8asm.py
\* _second_pass) are the ones the core unpacks (cpu.v), data words excepted.
ExecutesItsLine ==
  [][(FlowExecute /\ Here # 0 /\ src[Here].mnem # ".WORD") => Does(src[Here])]_flowVars

\* A jump, a call and a taken branch to a label go on at the first word behind
\* the label: the offset counts from the branch itself, in both directions, on
\* either side of a .org and across the wrap at 256 (c8asm.py:269-273, cpu.v).
ReachesLabels ==
  [][LET ln  == src[Here]
         tok == ln.args[Len(ln.args)]
     IN FlowExecute /\ Here # 0 /\ ln.mnem \in {"JMP", "CALL", "BR"}
        /\ (ln.mnem = "BR" => branch_taken) /\ IsLabel(tok)
        => \A i \in DOMAIN src :
             IsFirstBehind(i, tok) /\ AddressOf(i) \in Byte => pc' = AddressOf(i)]_flowVars

\* A return goes behind the call that is still open, at any depth, as long as
\* the program keeps its stores out of the stack (CALL and RET share the data
\* memory; sp counts down from 255).
CallsReturn ==
  [][(FlowExecute /\ Op(insn) = RET /\ returns # <<>>) => pc' = Head(returns)]_flowVars
=============================================================================
