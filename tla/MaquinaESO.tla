------------------------------- MODULE MaquinaESO --------------------------------
(*****************************************************************************)
(* What the CPU and the Kernel promise to a program in ESO: each thread      *)
(* executes its program instruction by instruction as if it were alone, and  *)
(* a system call is a subroutine of process 0 that the thread itself         *)
(* executes, in the memory of process 0 and with its own registers, of which *)
(* A to E come back.  There are no TCBs, turns, quanta or kernel thread.    *)
(*****************************************************************************)
EXTENDS ESO

CONSTANTS PIDs, TAMANIO_STACK, SEG, BasuraLoad, Numeros, Cadenas

VARIABLES
  hilo,     \* by TID: its activations, the current one first
  memoria, salida, sinMarco, programa, parada

vars == <<hilo, memoria, salida, sinMarco, programa, parada>>

Visibles == {"A", "B", "C", "D", "E", "S"}
Ceros    == [x \in Visibles |-> 0]

-------------------------------------------------------------------------------
Activo(t) == ~ parada /\ hilo[t] # <<>>
Marco(t)  == Head(hilo[t])
Pid(t)    == Last(hilo[t]).espacio
Esp(t)    == Marco(t).espacio
EnKM(t)   == Len(hilo[t]) = 2
Prog(t)   == programa[Esp(t)].en
Paso(t)   == Prog(t)[Marco(t).pc]
R(t)      == Marco(t).r

\* Bytes from desde on of the current instruction that the MSP cannot give.
Inaccesibles(t, desde, n) ==
  Marco(t).pc + desde .. Marco(t).pc + desde + n - 1 \cap sinMarco[Esp(t)]

\* The current instruction exists, may be executed and can be read, a LOAD except for
\* its number.
Ejecutable(t) ==
  /\ Marco(t).pc \in DOMAIN Prog(t)
  /\ Paso(t).op # "FLCL" /\ (Paso(t).op \in Protegidas => EnKM(t))
  /\ Inaccesibles(t, 0, IF Paso(t).op = "LOAD" THEN 5 ELSE Tamanio(Paso(t).op)) = {}

Hace(t, ops) == Activo(t) /\ Ejecutable(t) /\ Paso(t).op \in ops

Accede(p, dir, n) ==
  Tiene(memoria[p], dir, n) /\ dir .. dir + n - 1 \cap sinMarco[p] = {}

\* The thread goes on at pc with the registers r.
Va(t, pc, r) ==
  hilo' = [hilo EXCEPT ![t] = <<[@[1] EXCEPT !.pc = pc, !.r = r]>> \o Tail(@)]
Sigue(t, r) == Va(t, Marco(t).pc + Tamanio(Paso(t).op), r)

\* The current activation ends with the registers r: a system call returns A to E.
Acabado(m, r) ==
  IF Len(m) = 1 THEN <<>>
  ELSE <<[m[2] EXCEPT !.r = [r EXCEPT !["S"] = m[2].r["S"]]]>>
Acaba(t, r) == hilo' = [hilo EXCEPT ![t] = Acabado(@, r)]

-------------------------------------------------------------------------------
\* An error ends the activation.
Error(t) ==
  /\ Activo(t) /\ ~ Ejecutable(t)
  /\ Acaba(t, R(t))
  /\ UNCHANGED <<memoria, salida, parada>>

\* The register F and a remainder by zero stop the machine.
Parada(t) ==
  /\ Activo(t) /\ Ejecutable(t)
  /\ \/ "F" \in {Paso(t).r1, Paso(t).r2}
     \/ Paso(t).op = "MODR" /\ R(t)[Paso(t).r2] = 0
  /\ parada' = TRUE
  /\ UNCHANGED <<hilo, memoria, salida>>

Calculo(t) ==
  /\ Hace(t, SoloRegistros)
  /\ "F" \notin {Paso(t).r1, Paso(t).r2}
  /\ Paso(t).op \in {"MODR", "DIVR"} => R(t)[Paso(t).r2] # 0
  /\ Sigue(t, Registros(IF Paso(t).op = "LOAD" /\ Inaccesibles(t, 5, 4) # {}
                        THEN [Paso(t) EXCEPT !.n = BasuraLoad] ELSE Paso(t), R(t)))
  /\ UNCHANGED <<memoria, salida, parada>>

\* A division by zero loses the thread, and its process goes on as thread 0, with the
\* registers at zero, from its byte 6.
DivisionPorCero(t) ==
  /\ Hace(t, {"DIVR"}) /\ R(t)[Paso(t).r2] = 0
  /\ hilo' = [hilo EXCEPT ![t] = <<>>,
       ![0] = <<[espacio |-> Pid(t), r |-> Ceros, pc |-> 6]>>]
  /\ UNCHANGED <<memoria, salida, parada>>

Salto(t) ==
  LET i == Paso(t) IN
  /\ Hace(t, {"GOTO", "JMPZ", "JPNZ"})
  /\ \/ i.op = "GOTO" /\ Va(t, R(t)[i.r1], R(t))
     \/ /\ i.op # "GOTO" /\ (R(t)["A"] = 0) = (i.op = "JMPZ")
        /\ Va(t, i.n, R(t))
     \/ i.op # "GOTO" /\ (R(t)["A"] = 0) # (i.op = "JMPZ") /\ Sigue(t, R(t))
  /\ UNCHANGED <<memoria, salida, parada>>

Llamada(t) ==
  /\ Hace(t, {"INTE"})
  /\ hilo' = [hilo EXCEPT ![t] =
                <<[espacio |-> 0, r |-> R(t), pc |-> Paso(t).n],
                  [Marco(t) EXCEPT !.pc = @ + Tamanio("INTE")]>>]
  /\ UNCHANGED <<memoria, salida, parada>>

Fin(t) ==
  /\ Hace(t, {"XXXX"})
  /\ Acaba(t, R(t))
  /\ UNCHANGED <<memoria, salida, parada>>

\* SETM and PUSH: n bytes of v to dir, and the registers are r.
Guarda(t, dir, v, n, r) ==
  /\ IF Accede(Esp(t), dir, n)
     THEN /\ memoria' = [memoria EXCEPT ![Esp(t)] = Escribe(@, dir, Octetos(v, n))]
          /\ Sigue(t, r)
     ELSE Acaba(t, R(t)) /\ UNCHANGED memoria
  /\ UNCHANGED <<salida, parada>>

\* GETM and TAKE: n bytes from dir to the register x.
Carga(t, dir, n, x, r) ==
  /\ IF Accede(Esp(t), dir, n)
     THEN Sigue(t, [r EXCEPT ![x] = ConOctetos(@, Lee(memoria[Esp(t)], dir, n))])
     ELSE Acaba(t, R(t))
  /\ UNCHANGED <<memoria, salida, parada>>

Memoria(t) ==
  LET i == Paso(t) IN
  \/ Hace(t, {"SETM"}) /\ Guarda(t, R(t)[i.r1], R(t)[i.r2], i.n, R(t))
  \/ /\ Hace(t, {"PUSH"})
     /\ Guarda(t, R(t)["S"], R(t)[i.r1], i.n, [R(t) EXCEPT !["S"] = Entero(@ + i.n)])
  \/ Hace(t, {"GETM"}) /\ Carga(t, R(t)[i.r2], 1, i.r1, R(t))
  \/ /\ Hace(t, {"TAKE"})
     /\ Carga(t, Entero(R(t)["S"] - i.n), i.n, i.r1,
              [R(t) EXCEPT !["S"] = Entero(@ - i.n)])

-------------------------------------------------------------------------------
(* System calls, on the memory of the caller *)

\* A new segment of n bytes of process p.
Proximo(p) == SEG * (Cardinality({d \div SEG : d \in DOMAIN memoria[p]}) + 1)
ConSegmento(p, n) ==
  LET base == Proximo(p) IN
  [d \in DOMAIN memoria[p] \cup (base .. base + n - 1) |->
     IF d \in DOMAIN memoria[p] THEN memoria[p][d] ELSE 0]

Reserva(t) ==
  LET p == Pid(t) IN
  /\ Hace(t, {"MALC"})
  /\ IF R(t)["A"] \in 1 .. SEG
     THEN /\ memoria' = [memoria EXCEPT ![p] = ConSegmento(p, R(t)["A"])]
          /\ Sigue(t, [R(t) EXCEPT !["A"] = Proximo(p)])
     ELSE Acaba(t, R(t)) /\ UNCHANGED memoria
  /\ UNCHANGED <<salida, parada>>

\* FREE frees nothing.
Libera(t) ==
  /\ Hace(t, {"FREE"})
  /\ Sigue(t, [R(t) EXCEPT !["A"] = 0])
  /\ UNCHANGED <<memoria, salida, parada>>

LeeNumero(t) ==
  /\ Hace(t, {"INNN"})
  /\ \E v \in Numeros : Sigue(t, [R(t) EXCEPT !["A"] = v])
  /\ UNCHANGED <<memoria, salida, parada>>

LeeCadena(t) ==
  LET p == Pid(t) IN
  /\ Hace(t, {"INNC"})
  /\ \E c \in {c \in Cadenas : Len(c) <= R(t)["B"]} :
       IF Accede(p, R(t)["A"], Len(c))
       THEN /\ memoria' = [memoria EXCEPT ![p] = Escribe(@, R(t)["A"], c)]
            /\ Sigue(t, R(t))
       ELSE Acaba(t, R(t)) /\ UNCHANGED memoria
  /\ UNCHANGED <<salida, parada>>

Imprime(t, dato) ==
  /\ salida' = [pid |-> Pid(t), tid |-> t, dato |-> dato]
  /\ Sigue(t, R(t))

Escritura(t) ==
  LET p == Pid(t)
      a == R(t)["A"]
      b == R(t)["B"]
  IN
  /\ \/ Hace(t, {"OUTN"}) /\ Imprime(t, <<a>>)
     \/ /\ Hace(t, {"OUTC"})
        /\ IF Accede(p, a, b) THEN Imprime(t, Lee(memoria[p], a, b))
           ELSE Acaba(t, R(t)) /\ UNCHANGED salida
  /\ UNCHANGED <<memoria, parada>>

Espera(t) ==
  /\ Hace(t, {"JOIN", "BLOK", "WAKE"})
  /\ Sigue(t, R(t))
  /\ UNCHANGED <<memoria, salida, parada>>

\* A new thread at B, with the registers and the cursor of the one that calls; its stack
\* begins with a copy of the first stack of the process up to that cursor, when it can be
\* read: a call of another thread than the first copies what lies between them.
Crea(t) ==
  LET p     == Pid(t)
      nuevo == Cardinality(DOMAIN hilo)
      base  == Proximo(p)
      n     == R(t)["S"] - SEG
      r     == [R(t) EXCEPT !["A"] = nuevo]
      leida == n >= 0 /\ Accede(p, SEG, n)
      con   == ConSegmento(p, TAMANIO_STACK)
      suyo  == IF ~ leida THEN <<>>
               ELSE <<[espacio |-> p, r |-> R(t), pc |-> R(t)["B"]]>>
      mio   == IF leida THEN [hilo[t] EXCEPT ![1] = [@ EXCEPT !.r = r, !.pc = @ + Tamanio("CREA")]]
               ELSE Acabado(hilo[t], r)
  IN
  /\ Hace(t, {"CREA"})
  /\ hilo' = [u \in DOMAIN hilo \cup {nuevo} |->
                IF u = nuevo THEN suyo ELSE IF u = t THEN mio ELSE hilo[u]]
  /\ memoria' = [memoria EXCEPT ![p] =
                   IF leida /\ base .. base + n - 1 \cap sinMarco[p] = {}
                   THEN Escribe(con, base, Lee(memoria[p], SEG, n)) ELSE con]
  /\ UNCHANGED <<salida, parada>>

-------------------------------------------------------------------------------
\* The threads of a process end once its first one has.
Termina(t) ==
  /\ hilo[t] # <<>> /\ t # Pid(t) /\ hilo[Pid(t)] = <<>>
  /\ hilo' = [hilo EXCEPT ![t] = <<>>]
  /\ UNCHANGED <<memoria, salida, parada>>

\* A thread of process p, at the start of its program.
Inicial(p) == <<[espacio |-> p, pc |-> 0, r |-> [Ceros EXCEPT !["S"] = SEG]]>>

Init ==
  /\ hilo = [t \in PIDs \cup {0} |-> IF t = 0 THEN <<>> ELSE Inicial(t)]
  /\ memoria = [p \in PIDs \cup {0} |-> [d \in SEG .. SEG + TAMANIO_STACK - 1 |-> 0]]
  /\ salida = <<>> /\ parada = FALSE

Next ==
  /\ UNCHANGED <<sinMarco, programa>>
  /\ \E t \in DOMAIN hilo :
       \/ Error(t) \/ Parada(t) \/ Calculo(t) \/ DivisionPorCero(t) \/ Salto(t)
       \/ Llamada(t) \/ Fin(t) \/ Memoria(t) \/ Reserva(t) \/ Libera(t) \/ LeeNumero(t)
       \/ LeeCadena(t) \/ Escritura(t) \/ Espera(t) \/ Crea(t) \/ Termina(t)

Spec == Init /\ [][Next]_vars
================================================================================
