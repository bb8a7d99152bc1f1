-------------------------------- MODULE C8Asm -------------------------------
(***************************************************************************)
(* modules/cpu8/asm/c8asm.py: the two-pass assembler.  A source line is a  *)
(* record of what the tokeniser finds in it; a token is its class (which   *)
(* of the assembler's patterns its text matches) and its value, so one     *)
(* token may name a label whatever its class.  AsmError is an outcome      *)
(* without an image.  (An IndexError on a directive without its operand    *)
(* ends the program with exit status 1 and no file too.)  A blank line is  *)
(* a line without label and mnemonic, which neither pass does anything on. *)
(***************************************************************************)
EXTENDS C8Word, Sequences

\* Tokens; a memory operand is a register and an offset.
RegT(r)    == [kind |-> "reg", val |-> r, off |-> 0]
IntT(n)    == [kind |-> "int", val |-> n, off |-> 0]
NameT(x)   == [kind |-> "name", val |-> x, off |-> 0]
MemT(r, n) == [kind |-> "mem", val |-> r, off |-> n]
None       == [kind |-> "none", val |-> 0, off |-> 0]

\* Conditions and shifts are names that a table decodes.
CcT(c)  == [kind |-> "cc", val |-> c, off |-> 0]
FnT(f)  == [kind |-> "fn", val |-> f, off |-> 0]

\* A line: its label or None, its mnemonic or "", its operands.
Line(label, mnem, args) == [label |-> label, mnem |-> mnem, args |-> args]

OPCODES ==
  [NOP |-> NOP, ADD |-> ADD, SUB |-> SUB, AND |-> AND, OR |-> OR, XOR |-> XOR,
   SHF |-> SHF, CMP |-> CMP, LDI |-> LDI, LD |-> LD, ST |-> ST, BR |-> BR,
   JMP |-> JMP, CALL |-> CALL, RET |-> RET, HLT |-> HLT]

\* Bug variant: the two sources change places.
encode_rSwapped(op, rd, rs1, rs2, fn) == op * 4096 + rd * 512 + rs2 * 64 + rs1 * 8 + fn

encode_r(op, rd, rs1, rs2, fn) == op * 4096 + rd * 512 + rs1 * 64 + rs2 * 8 + fn
encode_i(op, rd, imm9) == op * 4096 + rd * 512 + (imm9 % 512)
encode_j(op, addr8)    == op * 4096 + (addr8 % 256)
encode_b(op, cc, off9) == op * 4096 + cc * 512 + (off9 % 512)
encode_m(op, r, base, off) == op * 4096 + r * 512 + base * 64 + (off % 64)

-----------------------------------------------------------------------------
(* First pass: the address of every line and the label table.              *)

\* The state of the pass behind a line; addr is the address of that line.
Start == [ok |-> TRUE, pc |-> 0, addr |-> 0, labels |-> [tok \in {} |-> 0]]

\* Bug variant: data takes no address.
EmitsCode(ln) == ln.mnem \notin {"", ".ORG", ".WORD"}

Emits(ln) == ln.mnem \notin {"", ".ORG"}

\* A label takes the address reached so far, before a .org on its own line.
WithLabel(s, tok) ==
  [t \in DOMAIN s.labels \cup ({tok} \ {None}) |-> IF t = tok THEN s.pc ELSE s.labels[t]]

FirstStep(s, ln) ==
  LET org  == ln.mnem = ".ORG"
      good == /\ ln.label \notin DOMAIN s.labels
              /\ org => Len(ln.args) > 0 /\ ln.args[1].kind = "int"
      at   == IF org THEN ln.args[1].val ELSE s.pc
  IN IF ~s.ok \/ ~good THEN [s EXCEPT !.ok = FALSE]
     ELSE [ok |-> TRUE, addr |-> at, labels |-> WithLabel(s, ln.label),
           pc |-> IF Emits(ln) THEN at + 1 ELSE at]

FirstPass(lines) ==
  LET pass[i \in 0 .. Len(lines)] ==
        IF i = 0 THEN Start ELSE FirstStep(pass[i - 1], lines[i])
  IN pass

-----------------------------------------------------------------------------
(* Second pass: one instruction word per line, or an AsmError.             *)

Kinds(ln, kinds) ==
  Len(ln.args) = Len(kinds) /\ \A i \in DOMAIN kinds : ln.args[i].kind \in kinds[i]

\* _resolve: the label table first, whatever the token looks like.
Resolves(tok, labels) == tok \in DOMAIN labels \/ tok.kind = "int"
Resolve(tok, labels)  == IF tok \in DOMAIN labels THEN labels[tok] ELSE tok.val

InByte(n) == n >= 0 /\ n <= 255
InImm6(n) == n >= -32 /\ n <= 31
InImm9(n) == n >= -256 /\ n <= 255

R == {"reg"}

\* What makes a line's operands acceptable, past their number and class.
Acceptable(ln, addr, labels) ==
  LET a == ln.args  m == ln.mnem
  IN CASE m = ".WORD" -> Len(a) > 0 /\ a[1].kind = "int"
       [] m \in {"NOP", "HLT", "RET"} -> TRUE
       [] m \in {"ADD", "SUB", "AND", "OR", "XOR"} -> Kinds(ln, <<R, R, R>>)
       [] m = "CMP" -> Kinds(ln, <<R, R>>)
       [] m = "SHF" -> Kinds(ln, <<R, R, {"fn"}>>)
       [] m = "LDI" -> /\ Len(a) = 2 /\ a[1].kind = "reg"
                       /\ Resolves(a[2], labels) /\ InByte(Resolve(a[2], labels))
       [] m = "LD"  -> Kinds(ln, <<R, {"mem"}>>) /\ InImm6(a[2].off)
       [] m = "ST"  -> Kinds(ln, <<{"mem"}, R>>) /\ InImm6(a[1].off)
       [] m = "BR"  -> /\ Len(a) = 2 /\ a[1].kind = "cc"
                       /\ Resolves(a[2], labels)
                       /\ InImm9(Resolve(a[2], labels) - addr)
       [] m \in {"JMP", "CALL"} -> /\ Len(a) = 1 /\ Resolves(a[1], labels)
                                   /\ InByte(Resolve(a[1], labels))
       [] OTHER -> FALSE

Word(ln, addr, labels) ==
  LET a == ln.args  m == ln.mnem
  IN CASE m = ".WORD" -> a[1].val % 65536
       [] m \in {"NOP", "HLT", "RET"} -> OPCODES[m] * 4096
       [] m \in {"ADD", "SUB", "AND", "OR", "XOR"} ->
            encode_r(OPCODES[m], a[1].val, a[2].val, a[3].val, 0)
       [] m = "CMP" -> encode_r(CMP, 0, a[1].val, a[2].val, 0)
       [] m = "SHF" -> encode_r(SHF, a[1].val, a[2].val, 0, a[3].val)
       [] m = "LDI" -> encode_i(LDI, a[1].val, Resolve(a[2], labels))
       [] m = "LD"  -> encode_m(LD, a[1].val, a[2].val, a[2].off)
       [] m = "ST"  -> encode_m(ST, a[2].val, a[1].val, a[1].off)
       [] m = "BR"  -> encode_b(BR, a[1].val, Resolve(a[2], labels) - addr)
       [] OTHER -> encode_j(OPCODES[m], Resolve(a[1], labels))

-----------------------------------------------------------------------------
(* assemble() and to_hex().                                                *)

Emitting(lines) == {i \in DOMAIN lines : Emits(lines[i])}

\* No AsmError in either pass, nor behind them.
Assembles(lines, pass) ==
  LET end == pass[Len(lines)]
  IN end.ok /\ \A i \in Emitting(lines) :
                  Acceptable(lines[i], pass[i].addr, end.labels) /\ pass[i].addr <= 255

\* A later line wins an address two lines claim.
Claims(lines, pass, a) == {i \in Emitting(lines) : pass[i].addr = a}
Winner(lines, pass, a) ==
  CHOOSE i \in Claims(lines, pass, a) : \A j \in Claims(lines, pass, a) : j <= i

Assemble(lines) ==
  LET pass == FirstPass(lines)
      word(i) == Word(lines[i], pass[i].addr, pass[Len(lines)].labels)
  IN IF ~Assembles(lines, pass) THEN [ok |-> FALSE]
     ELSE [ok |-> TRUE,
           words |-> [a \in {pass[i].addr : i \in Emitting(lines)} |->
                        word(Winner(lines, pass, a))]]

\* Every one of the 256 lines of the hex file; what no line fills is a NOP.
ToHex(words) == [a \in Byte |-> IF a \in DOMAIN words THEN words[a] ELSE 0]
=============================================================================
