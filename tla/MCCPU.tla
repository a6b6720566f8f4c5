---------------------------------- MODULE MCCPU ----------------------------------
(*****************************************************************************)
(* Constants of CPU for TLC: the library of system calls and some programs.  *)
(*****************************************************************************)
EXTENDS CPURefina

Ins(op, n, r1, r2) == [op |-> op, r1 |-> r1, r2 |-> r2, n |-> n]
Sin(op)            == Ins(op, 0, "A", "A")
Reg2(op, r1, r2)   == Ins(op, 0, r1, r2)
Reg(op, r)         == Ins(op, 0, r, "A")
Num(op, n)         == Ins(op, n, "A", "A")
Load(r, n)         == Ins("LOAD", n, r, "A")
Con(op, n, r)      == Ins(op, n, r, "A")
Nopp(n)            == [k \in 1 .. n |-> Sin("NOPP")]

\* systemCalls.txt: the labels of WAIT and SIGNAL are at 236 and 304.
Lib == EnMemoria(
  Nopp(3) \o <<Sin("MALC")>> \o Nopp(2) \o <<Sin("XXXX")>>
  \o Nopp(2) \o <<Sin("FREE"), Sin("NOPP"), Sin("XXXX")>>
  \o Nopp(2) \o <<Sin("INNN"), Sin("XXXX")>>
  \o <<Sin("NOPP"), Sin("INNC"), Sin("XXXX")>>
  \o Nopp(4) \o <<Sin("OUTN")>> \o Nopp(2) \o <<Sin("XXXX")>>
  \o <<Sin("OUTC")>> \o Nopp(4) \o <<Sin("XXXX")>>
  \o Nopp(3) \o <<Sin("CREA")>> \o Nopp(3) \o <<Sin("XXXX")>>
  \o <<Sin("NOPP"), Sin("JOIN"), Sin("XXXX")>>
  \o <<Reg2("ADDR", "B", "S"), Reg2("MOVR", "B", "A"), Reg2("GETM", "D", "B"),
       Load("A", 0), Reg2("CLEQ", "D", "A"), Reg("DECR", "D"), Ins("SETM", 1, "B", "D"),
       Num("JPNZ", 236), Sin("XXXX"), Sin("BLOK"), Sin("XXXX")>>
  \o <<Reg2("ADDR", "B", "S"), Reg2("MOVR", "B", "A"), Reg2("GETM", "D", "B"),
       Load("A", -1), Reg2("CLEQ", "D", "A"), Reg("INCR", "D"), Ins("SETM", 1, "B", "D"),
       Num("JPNZ", 304), Sin("XXXX"), Sin("WAKE"), Sin("XXXX")>>
  \o <<Reg2("ADDR", "B", "S"), Ins("SETM", 1, "A", "D"), Sin("XXXX")>>)

\* syscallLibraryPointers.txt
MALLOC == 0        FREE_ == 28       INN == 48    INC == 64    OUTNUM == 76   OUTCAR == 108
CREATE_THREAD == 132   JOIN_THREAD == 164   WAIT == 176   SIGNAL == 244   SETSEM == 312
Inte(dir) == Num("INTE", dir)

ASSUME PunterosAssumption ==
  /\ \A dir \in {MALLOC, FREE_, INN, INC, OUTNUM, OUTCAR, CREATE_THREAD, JOIN_THREAD, WAIT,
                 SIGNAL, SETSEM, 236, 304} : dir \in DOMAIN Lib.en
  /\ Lib.bytes = 332

-------------------------------------------------------------------------------
\* arithmetics.txt, with the comparisons and shifts; overflows its registers.
Aritmetica ==
  <<Load("A", 7), Load("B", 900), Reg2("MULR", "A", "B"), Load("B", 5),
    Reg2("ADDR", "A", "B"), Reg("DECR", "A"), Load("B", -2), Reg2("DIVR", "A", "B"),
    Load("C", 31000), Reg2("ADDR", "C", "C"), Reg2("MODR", "A", "B"), Reg2("SUBR", "A", "C"),
    Reg("INCR", "A"), Con("SHIF", 3, "A"), Con("SHIF", -4, "C"), Reg2("COMP", "A", "C"),
    Reg2("CGEQ", "A", "C"), Reg2("CLEQ", "C", "B"), Sin("XXXX")>>

\* stack.txt and flow.txt: a loop of two rounds.
Pila ==
  <<Load("A", 5000), Con("PUSH", 1, "A"), Con("PUSH", 4, "A"), Con("TAKE", 4, "B"),
    Load("A", 0), Con("TAKE", 1, "A"), Load("A", 2), Reg("DECR", "A"), Num("JPNZ", 63),
    Num("JMPZ", 84), Load("C", 98), Reg("GOTO", "C"), Sin("XXXX")>>

\* Ask for memory, read a string into it and show its first byte; ask for a number and
\* show it; free the memory.
Llamadas ==
  <<Load("A", 2), Inte(MALLOC), Reg2("MOVR", "D", "A"), Load("B", 2), Inte(INC),
    Reg2("GETM", "E", "D"), Ins("SETM", 1, "D", "B"), Inte(OUTCAR), Inte(INN), Inte(OUTNUM),
    Inte(FREE_), Sin("XXXX")>>

\* Set a semaphore of the Kernel's stack to 1, wait for it and signal it.
Semaforo ==
  <<Load("D", 1), Inte(SETSEM), Load("B", 0), Inte(WAIT), Load("B", 0), Inte(SIGNAL),
    Sin("XXXX")>>

\* A thread that pushes two bytes, starts another one at dir, waits for it and takes them;
\* that one pushes one more, where its own cursor is, and starts a third one.
HilosCon(dir) ==
  <<Load("C", 300), Con("PUSH", 2, "C"), Load("B", dir), Inte(CREATE_THREAD),
    Inte(JOIN_THREAD), Con("TAKE", 2, "D"), Sin("XXXX"),
    Con("PUSH", 1, "C"), Con("TAKE", 2, "E"), Load("B", dir + 35), Inte(CREATE_THREAD),
    Sin("XXXX")>>
Hilos == HilosCon(EnMemoria(SubSeq(HilosCon(0), 1, 7)).bytes)

\* It starts a thread that loops for ever and takes from under its stack.
Ultimo == <<Load("B", 34), Inte(CREATE_THREAD), Con("TAKE", 4, "A"), Sin("XXXX"),
            Sin("NOPP"), Reg("GOTO", "B")>>

\* One instruction that ends or stops its thread, after one that prepares it.
Mal(n, i)    == <<Load("B", n), i, Load("A", 1), Sin("XXXX")>>
Protegida    == Mal(1, Sin("MALC"))
SinRegistroF == Mal(1, Reg("INCR", "F"))
ModuloCero   == Mal(0, Reg2("MODR", "A", "B"))
DivisionCero == Mal(0, Reg2("DIVR", "A", "B"))
Desconocida  == Mal(1, Sin("FLCL"))
FueraDePila  == Mal(1032, Ins("SETM", 1, "B", "A"))
NoLee        == Mal(1032, Reg2("GETM", "A", "B"))
SinFinal     == <<Reg("INCR", "A")>>
SinTamanio   == <<Load("A", -1), Inte(MALLOC), Sin("XXXX")>>
Desborda(n)  == <<Load("A", 1031), Load("B", 2), Inte(n), Sin("XXXX")>>

MCEspacios == 0 .. 2

\* Two processes with system calls, threads or loops, and each way to end or stop one.
MCCargas ==
  {0 :> Lib @@ 1 :> EnMemoria(c[1]) @@ 2 :> EnMemoria(c[2]) : c \in
    {<<Aritmetica, Pila>>, <<Llamadas, Semaforo>>, <<Hilos, Semaforo>>, <<Hilos, Llamadas>>,
     <<Ultimo, DivisionCero>>, <<Ultimo, SinRegistroF>>, <<Semaforo, SinFinal>>}
    \cup {<<p, Pila>> : p \in {Protegida, ModuloCero, Desconocida, FueraDePila, NoLee,
                               SinTamanio, Desborda(INC), Desborda(OUTCAR)}}}

\* The MSP has room for everything, or not for the number of process 1's first LOAD, or
\* not for the start of its first stack, or not for the second one's.
MCSinMarco ==
  {[p \in MCEspacios |-> IF p = 1 THEN dirs ELSE {}] : dirs \in {{}, {6}, {1024}, {2048}}}

MCNumeros == {-3}
MCCadenas == {<<>>, <<5, 9>>}
================================================================================
