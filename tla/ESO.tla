---------------------------------- MODULE ESO ----------------------------------
(*****************************************************************************)
(* The language ESO: its instructions, their size in memory and what they do *)
(* to the registers (src/so-ensamblador/sintax, src/CPU/funciones).          *)
(*                                                                           *)
(* An instruction is a record [op, r1, r2, n]: the code, its registers and   *)
(* its number; those it does not take are "A", "A" and 0.                    *)
(*****************************************************************************)
EXTENDS Integers, SequencesExt

CONSTANT BITS  \* bits of a byte (8 in the code); a register has four bytes

ASSUME BitsAssumption == BITS \in Nat \ {0}

OCTETO  == 2 ^ BITS
PALABRA == OCTETO ^ 4
Palabras == -(PALABRA \div 2) .. (PALABRA \div 2) - 1

\* A result in two's complement.
Entero(n) == ((n + PALABRA \div 2) % PALABRA) - (PALABRA \div 2)

\* The first n bytes of v, the lowest first.
Octetos(v, n) == [k \in 1 .. n |-> ((v % PALABRA) \div (OCTETO ^ (k - 1))) % OCTETO]

\* v with its first bytes replaced by bs.
ConOctetos(v, bs) ==
  LET todos == bs \o SubSeq(Octetos(v, 4), Len(bs) + 1, 4) IN
  Entero(todos[1] + OCTETO * (todos[2] + OCTETO * (todos[3] + OCTETO * todos[4])))

-------------------------------------------------------------------------------
(* Syntax *)

Aritmeticas == {"ADDR", "SUBR", "MULR", "MODR", "DIVR", "COMP", "CGEQ", "CLEQ"}
Protegidas  == {"MALC", "FREE", "INNN", "INNC", "OUTN", "OUTC", "CREA", "JOIN", "BLOK",
                "WAKE"}

Codigos ==
  Aritmeticas \cup Protegidas \cup
  {"LOAD", "SETM", "GETM", "MOVR", "INCR", "DECR", "GOTO", "JMPZ", "JPNZ", "INTE", "FLCL",
   "SHIF", "NOPP", "PUSH", "TAKE", "XXXX"}

\* createRule: the parameters, a register "R" or a number "N", in the order they have
\* in memory after the four bytes of the code.
Regla(op) ==
  CASE op = "LOAD"                            -> <<"R", "N">>
    [] op = "SETM"                            -> <<"N", "R", "R">>
    [] op \in Aritmeticas \cup {"GETM", "MOVR"} -> <<"R", "R">>
    [] op \in {"INCR", "DECR", "GOTO"}        -> <<"R">>
    [] op \in {"JMPZ", "JPNZ", "INTE"}        -> <<"N">>
    [] op \in {"SHIF", "PUSH", "TAKE"}        -> <<"N", "R">>
    [] op \in Protegidas \cup {"FLCL", "NOPP", "XXXX"} -> <<>>

\* Where the k-th parameter of the code op is, after the code: a register takes a byte
\* and a number four.
Lugar(op, k) == 4 + (k - 1) + 3 * Cardinality({j \in 1 .. k - 1 : Regla(op)[j] = "N"})

\* Bytes of the whole instruction.
Tamanio(op) == Lugar(op, Len(Regla(op)) + 1)

\* A program in its segment: its bytes, and its instructions by address.
EnMemoria(prog) ==
  FoldLeft(LAMBDA c, i : [bytes |-> c.bytes + Tamanio(i.op), en |-> c.en @@ c.bytes :> i],
           [bytes |-> 0, en |-> <<>>], prog)

-------------------------------------------------------------------------------
(* Semantics of the instructions that only change registers *)

\* The remainder of C, with the sign of the dividend.
Resto(a, b) == LET abs(x) == IF x < 0 THEN -x ELSE x IN
               IF a < 0 THEN -(abs(a) % abs(b)) ELSE a % abs(b)

Cierto(b) == IF b THEN 1 ELSE 0

\* The value for register A.  DIVR gives the remainder.
Calcula(op, a, b) ==
  CASE op = "ADDR" -> Entero(a + b)
    [] op = "SUBR" -> Entero(a - b)
    [] op = "MULR" -> Entero(a * b)
    [] op \in {"MODR", "DIVR"} -> Resto(a, b)
    [] op = "COMP" -> Cierto(a = b)
    [] op = "CGEQ" -> Cierto(a >= b)
    [] op = "CLEQ" -> Cierto(a <= b)

\* Mutant: the register keeps the bits that fall out.
DesplazaSinFin(v, n) ==
  LET veces == n % (4 * BITS) IN
  IF n < 0 THEN v * (2 ^ veces) ELSE v \div (2 ^ veces)

\* SHIF: to the right with the sign, and to the left for a negative n, whose shift the
\* processor takes modulo the bits of the register.
Desplaza(v, n) ==
  LET veces == n % (4 * BITS) IN
  IF n < 0 THEN Entero(v * (2 ^ veces)) ELSE v \div (2 ^ veces)

SoloRegistros == Aritmeticas \cup {"LOAD", "MOVR", "INCR", "DECR", "SHIF", "NOPP"}

\* The registers r after the instruction i, other than a division by zero.
Registros(i, r) ==
  CASE i.op = "LOAD" -> [r EXCEPT ![i.r1] = i.n]
    [] i.op = "MOVR" -> [r EXCEPT ![i.r1] = r[i.r2]]
    [] i.op = "INCR" -> [r EXCEPT ![i.r1] = Entero(@ + 1)]
    [] i.op = "DECR" -> [r EXCEPT ![i.r1] = Entero(@ - 1)]
    [] i.op = "SHIF" -> [r EXCEPT ![i.r1] = Desplaza(@, i.n)]
    [] i.op = "NOPP" -> r
    [] i.op \in Aritmeticas -> [r EXCEPT !["A"] = Calcula(i.op, r[i.r1], r[i.r2])]

-------------------------------------------------------------------------------
(* Memory of a process: its bytes by address *)

\* The n bytes from dir on exist; of none, the address does.
Tiene(bytes, dir, n) == dir .. dir + (IF n = 0 THEN 0 ELSE n - 1) \subseteq DOMAIN bytes

Lee(bytes, dir, n) == [k \in 1 .. n |-> bytes[dir + k - 1]]

Escribe(bytes, dir, bs) ==
  [d \in DOMAIN bytes |-> IF d - dir + 1 \in DOMAIN bs THEN bs[d - dir + 1] ELSE bytes[d]]
================================================================================
