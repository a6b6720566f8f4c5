----------------------------------- MODULE CPU -----------------------------------
(*****************************************************************************)
(* A CPU (src/CPU) and what it needs of the Kernel and the MSP: it takes the *)
(* TCB of a thread, or of the kernel thread with the identity of the thread  *)
(* that makes a system call, executes its instructions one by one out of the *)
(* memory of the MSP and gives the TCB back.                                 *)
(*                                                                           *)
(* One action per kind of instruction: the whole iteration of main's loop,   *)
(* with its requests to the MSP.  The Kernel chooses any ready thread or any *)
(* pending call; the order and the races of its queues are in Kernel.tla.    *)
(*****************************************************************************)
EXTENDS ESO

CONSTANTS
  NumProcesos,    \* user processes; the first thread of process p has TID p
  Cargas,         \* the programs they may have, by process; process 0's is the library of
                  \* system calls
  QUANTUM,
  TAMANIO_STACK,
  SEG,            \* bound: a segment takes SEG addresses (2^20 in the code)
  SinMarco,       \* sets of addresses, by process, that the MSP may be unable to load
  BasuraLoad,     \* the first bytes of the text of an error of the MSP, as a number
  Numeros,        \* what the user may type at a console: numbers
  Cadenas         \* and strings, sequences of bytes

PIDs     == 1 .. NumProcesos
Espacios == 0 .. NumProcesos

VARIABLES
  cpu,       \* registers and identity of the thread it executes, quantum, state
  mensajes,  \* TCBs on their way to the Kernel
  libre,     \* the Kernel has the CPU as free
  hilos,     \* the threads in the Kernel: state, TCB and the call they make
  tcb_km,    \* the kernel thread's TCB
  memoria,   \* in the MSP, by process: its stacks and the segments of MALC
  sinMarco,  \* addresses by process that the MSP cannot load: they give memoria llena
  programa,  \* the code segments, by process
  salida     \* the last thing printed at a console

externas == <<memoria, salida>>
fijas    == <<sinMarco, programa>>
kernel   == <<libre, hilos, tcb_km>>
vars     == <<cpu, mensajes, kernel, externas, fijas>>

PIDkm  == 0
Nombres == {"A", "B", "C", "D", "E", "M", "P", "X", "S"}
Ceros   == [x \in Nombres |-> 0]
TCB(pid, tid, km, r) == [pid |-> pid, tid |-> tid, km |-> km, r |-> r]

\* A segment of n bytes, number s of its process.
Segmento(s, n) == [d \in s * SEG .. s * SEG + n - 1 |-> 0]
Unir(f, g)     == [d \in DOMAIN f \cup DOMAIN g |-> IF d \in DOMAIN g THEN g[d] ELSE f[d]]

\* The code is segment 0 and the stack segment 1, of the processes and of the Kernel.
EnPila(base) == [Ceros EXCEPT !["X"] = base, !["S"] = base]

Init ==
  /\ cpu = [estado |-> "espera", pid |-> 0, tid |-> 0, km |-> FALSE, r |-> Ceros,
            quantumActual |-> 0]
  /\ mensajes = <<>> /\ libre = TRUE
  /\ hilos = [t \in Espacios |->
                [estado |-> IF t = 0 THEN "fin" ELSE "listo", dir |-> 0,
                 tcb |-> TCB(t, t, FALSE, IF t = 0 THEN Ceros ELSE EnPila(SEG))]]
  /\ tcb_km = TCB(0, 0, TRUE, EnPila(SEG))
  /\ memoria = [p \in Espacios |-> Segmento(1, TAMANIO_STACK)]
  /\ sinMarco \in SinMarco
  /\ programa \in Cargas
  /\ salida = <<>>

-------------------------------------------------------------------------------
(* Requests to the MSP *)

\* The process of a request: 0 in kernel mode, except in INNC, OUTC and CREA.
Espacio == IF cpu.km THEN PIDkm ELSE cpu.pid

\* procesarRespuesta gives no error for n bytes of code from P + desde on.
LeeCodigo(desde, n) ==
  LET dirs == cpu.r["P"] + desde .. cpu.r["P"] + desde + n - 1 IN
  /\ dirs \subseteq 0 .. programa[Espacio].bytes - 1
  /\ dirs \cap sinMarco[Espacio] = {}

\* solicitarMemoria and escribirMemoria of process p succeed.
Accede(p, dir, n) ==
  /\ Tiene(memoria[p], dir, n)
  /\ dir .. dir + n - 1 \cap sinMarco[p] = {}

\* The instruction that P points at; its operation is none when there is none there.
Instruccion ==
  LET codigo == programa[Espacio].en IN
  IF cpu.r["P"] \in DOMAIN codigo THEN codigo[cpu.r["P"]]
  ELSE [op |-> "ninguna", r1 |-> "A", r2 |-> "A", n |-> 0]

-------------------------------------------------------------------------------
(* The end of an iteration, and of a turn *)

Mensaje(op, s, dir) == [op |-> op, tcb |-> TCB(s.pid, s.tid, s.km, s.r), dir |-> dir]

\* limpiarRegistros
Limpia(c) == [c EXCEPT !.tid = 0, !.km = FALSE, !.r = Ceros]

\* devolverTCBactual of c with operation op, and the loop ends.
Devuelve(previos, c, op, dir) ==
  /\ mensajes' = mensajes \o previos \o <<Mensaje(op, c, dir)>>
  /\ cpu' = [Limpia(c) EXCEPT !.estado = "espera", !.quantumActual = 0]

abortar(c, op) == Devuelve(<<>>, c, op, 0)

\* Mutant: the instructions are not counted.
SinContarQuantum(previos, c) ==
  /\ cpu' = c
  /\ mensajes' = mensajes \o previos

\* The instruction has left the thread as c: one less of its quantum, which is ignored
\* in kernel mode.
FinIteracion(previos, c) ==
  IF c.quantumActual + 1 = QUANTUM /\ ~ c.km
  THEN Devuelve(previos, [c EXCEPT !.quantumActual = @ + 1], "finaliza_quantum", 0)
  ELSE /\ cpu' = [c EXCEPT !.quantumActual = @ + 1]
       /\ mensajes' = mensajes \o previos

-------------------------------------------------------------------------------
(* interpretarYEjecutarInstruccion *)

\* The packed structures of t_parametros.h.
sizeof(op) ==
  CASE op = "LOAD"                                   -> 5
    [] op = "SETM"                                   -> 6
    [] op \in Aritmeticas \cup {"GETM", "MOVR"}      -> 2
    [] op \in {"INCR", "DECR", "GOTO"}               -> 1
    [] op \in {"JMPZ", "JPNZ", "INTE"}               -> 4
    [] op \in {"SHIF", "PUSH", "TAKE"}               -> 5
    [] OTHER                                         -> 0

\* LOAD asks for its number apart, and does not look at the reply.
LeeParametros(op) == LeeCodigo(4, IF op = "LOAD" THEN 1 ELSE sizeof(op))

\* devolverRegistro of every register is not NULL: F is one for the assembler.
ConRegistros(i) == i.r1 \in Nombres /\ i.r2 \in Nombres

Conocida(i) == i.op \in Codigos \ {"FLCL"} /\ (i.op \in Protegidas => cpu.km)

\* The CPU executes an instruction of ops, whose parameters it has.
Ejecuta(ops) ==
  LET i == Instruccion IN
  /\ cpu.estado = "activa"
  /\ i.op \in ops /\ LeeCodigo(0, 4) /\ Conocida(i)
  /\ LeeParametros(i.op) /\ ConRegistros(i)

\* The registers are r and P goes on after the parameters.
Avanza(r) ==
  FinIteracion(<<>>, [cpu EXCEPT !.r = [r EXCEPT !["P"] = @ + sizeof(Instruccion.op) + 4]])

Salta(dir) == FinIteracion(<<>>, [cpu EXCEPT !.r["P"] = dir])

\* finalizarEjecucion is -1 with the registers r.
Falla(r) == abortar([cpu EXCEPT !.r = r], "ejecucion_erronea")

\* The instruction cannot be fetched, is unknown or protected, or its parameters fail.
FallaInstruccion ==
  LET i == Instruccion IN
  /\ cpu.estado = "activa"
  /\ \/ ~ LeeCodigo(0, 4)
     \/ ~ Conocida(i)
     \/ ~ LeeParametros(i.op)
  /\ Falla(cpu.r)
  /\ UNCHANGED <<kernel, externas, fijas>>

\* SIGSEGV for the register F, and SIGFPE in MODR: the process ends.
CaeCPU ==
  LET i == Instruccion IN
  /\ cpu.estado = "activa"
  /\ LeeCodigo(0, 4) /\ Conocida(i) /\ LeeParametros(i.op)
  /\ \/ ~ ConRegistros(i)
     \/ i.op = "MODR" /\ i.r2 \in Nombres /\ cpu.r[i.r2] = 0
  /\ cpu' = [cpu EXCEPT !.estado = "caida"]
  /\ UNCHANGED <<mensajes, kernel, externas, fijas>>

\* Instructions that only change registers.
DeRegistros ==
  LET i == Instruccion IN
  /\ Ejecuta(SoloRegistros \ {"LOAD"})
  /\ i.op \in {"MODR", "DIVR"} => cpu.r[i.r2] # 0
  /\ Avanza(Registros(i, cpu.r))
  /\ UNCHANGED <<kernel, externas, fijas>>

LOAD ==
  LET i == Instruccion IN
  /\ Ejecuta({"LOAD"})
  /\ Avanza(Registros([i EXCEPT !.n = IF LeeCodigo(5, 4) THEN @ ELSE BasuraLoad], cpu.r))
  /\ UNCHANGED <<kernel, externas, fijas>>

\* A division by zero gives the TCB back as desconexion, clears the registers and goes
\* on from there: P is 6.
DIVRPorCero ==
  LET i == Instruccion
      c == [Limpia(cpu) EXCEPT !.r["P"] = sizeof("DIVR") + 4]
  IN
  /\ Ejecuta({"DIVR"}) /\ cpu.r[i.r2] = 0
  /\ FinIteracion(<<Mensaje("desconexion", cpu, 0)>>, c)
  /\ UNCHANGED <<kernel, externas, fijas>>

Saltos ==
  LET i == Instruccion IN
  /\ Ejecuta({"GOTO", "JMPZ", "JPNZ"})
  /\ IF i.op = "GOTO" THEN Salta(cpu.r[i.r1])
     ELSE IF (cpu.r["A"] = 0) = (i.op = "JMPZ") THEN Salta(i.n)
     ELSE Avanza(cpu.r)
  /\ UNCHANGED <<kernel, externas, fijas>>

\* KERNEL_ejecutarRutinaKernel sends the TCB, past the instruction, and ends the turn.
INTE ==
  /\ Ejecuta({"INTE"})
  /\ Devuelve(<<>>, [cpu EXCEPT !.r["P"] = @ + 8], "interrupcion", Instruccion.n)
  /\ UNCHANGED <<kernel, externas, fijas>>

SETM ==
  LET i   == Instruccion
      dir == cpu.r[i.r1]
  IN
  /\ Ejecuta({"SETM"})
  /\ IF Accede(Espacio, dir, i.n)
     THEN /\ memoria' = [memoria EXCEPT ![Espacio] =
                            Escribe(@, dir, Octetos(cpu.r[i.r2], i.n))]
          /\ Avanza(cpu.r)
     ELSE Falla(cpu.r) /\ UNCHANGED memoria
  /\ UNCHANGED <<kernel, salida, fijas>>

\* GETM reads one byte, into the first of the register.
GETM ==
  LET i   == Instruccion
      dir == cpu.r[i.r2]
  IN
  /\ Ejecuta({"GETM"})
  /\ IF Accede(Espacio, dir, 1)
     THEN Avanza([cpu.r EXCEPT ![i.r1] = ConOctetos(@, Lee(memoria[Espacio], dir, 1))])
     ELSE Falla(cpu.r)
  /\ UNCHANGED <<kernel, externas, fijas>>

PUSH ==
  LET i == Instruccion
      s == cpu.r["S"]
  IN
  /\ Ejecuta({"PUSH"})
  /\ IF Accede(Espacio, s, i.n)
     THEN /\ memoria' = [memoria EXCEPT ![Espacio] =
                            Escribe(@, s, Octetos(cpu.r[i.r1], i.n))]
          /\ Avanza([cpu.r EXCEPT !["S"] = Entero(@ + i.n)])
     ELSE Falla(cpu.r) /\ UNCHANGED memoria
  /\ UNCHANGED <<kernel, salida, fijas>>

\* TAKE: the cursor moves before the request.
Desapila ==
  LET i == Instruccion
      s == Entero(cpu.r["S"] - i.n)
      r == [cpu.r EXCEPT !["S"] = s]
  IN
  /\ Ejecuta({"TAKE"})
  /\ IF Accede(Espacio, s, i.n)
     THEN Avanza([r EXCEPT ![i.r1] = ConOctetos(@, Lee(memoria[Espacio], s, i.n))])
     ELSE Falla(r)
  /\ UNCHANGED <<kernel, externas, fijas>>

XXXX ==
  /\ Ejecuta({"XXXX"})
  /\ abortar([cpu EXCEPT !.r["P"] = @ + 4], "finaliza_ejecucion")
  /\ UNCHANGED <<kernel, externas, fijas>>

-------------------------------------------------------------------------------
(* Protected instructions *)

\* The number of the next segment of process p; code is segment 0.
ProximoSID(p) == Cardinality({d \div SEG : d \in DOMAIN memoria[p]}) + 1

\* A segment of A bytes for the process of the caller.
MALC ==
  LET base == ProximoSID(cpu.pid) * SEG
      n    == cpu.r["A"]
  IN
  /\ Ejecuta({"MALC"})
  /\ IF n \in 1 .. SEG
     THEN /\ memoria' = [memoria EXCEPT ![cpu.pid] = Unir(@, Segmento(base \div SEG, n))]
          /\ Avanza([cpu.r EXCEPT !["A"] = base])
     ELSE Falla(cpu.r) /\ UNCHANGED memoria
  /\ UNCHANGED <<kernel, salida, fijas>>

\* A =! M is the assignment of ! M: nothing is destroyed, as X is never 0 here.
FREE ==
  /\ Ejecuta({"FREE"})
  /\ Avanza([cpu.r EXCEPT !["A"] = Cierto(cpu.r["M"] = 0 /\ cpu.r["X"] = 0)])
  /\ UNCHANGED <<kernel, externas, fijas>>

INNN ==
  /\ Ejecuta({"INNN"})
  /\ \E v \in Numeros : Avanza([cpu.r EXCEPT !["A"] = v])
  /\ UNCHANGED <<kernel, externas, fijas>>

INNC ==
  /\ Ejecuta({"INNC"})
  /\ \E c \in {c \in Cadenas : Len(c) <= cpu.r["B"]} :
       IF Accede(cpu.pid, cpu.r["A"], Len(c))
       THEN /\ memoria' = [memoria EXCEPT ![cpu.pid] = Escribe(@, cpu.r["A"], c)]
            /\ Avanza(cpu.r)
       ELSE Falla(cpu.r) /\ UNCHANGED memoria
  /\ UNCHANGED <<kernel, salida, fijas>>

Imprime(dato) == salida' = [pid |-> cpu.pid, tid |-> cpu.tid, dato |-> dato]

OUTN ==
  /\ Ejecuta({"OUTN"})
  /\ Imprime(<<cpu.r["A"]>>) /\ Avanza(cpu.r)
  /\ UNCHANGED <<kernel, memoria, fijas>>

OUTC ==
  LET dir == cpu.r["A"] IN
  /\ Ejecuta({"OUTC"})
  /\ IF Accede(cpu.pid, dir, cpu.r["B"])
     THEN Imprime(Lee(memoria[cpu.pid], dir, cpu.r["B"])) /\ Avanza(cpu.r)
     ELSE Falla(cpu.r) /\ UNCHANGED salida
  /\ UNCHANGED <<kernel, memoria, fijas>>

\* What JOIN, BLOK and WAKE do is in the Kernel's queues (Kernel.tla): for its registers
\* the caller goes on.
AlKernel ==
  /\ Ejecuta({"JOIN", "BLOK", "WAKE"})
  /\ Avanza(cpu.r)
  /\ UNCHANGED <<kernel, externas, fijas>>

\* Kernel's crear_hilo: a TCB with a new stack.  copiarRegistros copies from index -1
\* on, which is S.
HiloNuevo(padre, s, base) ==
  TCB(padre.pid, Cardinality(DOMAIN hilos), FALSE,
      [padre.r EXCEPT !["X"] = base, !["S"] = s["S"], !["A"] = s["A"], !["B"] = s["B"],
                      !["C"] = s["C"], !["D"] = s["D"], !["E"] = s["E"]])

\* KERNEL_CrearHilo: the new thread starts at B, with a copy of the stack, which goes
\* from the X of the kernel thread to S.  The reply to the write is not looked at.
CREA ==
  LET p     == cpu.pid
      base  == ProximoSID(p) * SEG
      nuevo == HiloNuevo(hilos[cpu.tid].tcb, cpu.r, base)
      x     == cpu.r["X"]
      n     == cpu.r["S"] - x
      r     == [cpu.r EXCEPT !["A"] = nuevo.tid]
      leida == n >= 0 /\ Accede(p, x, n)
      con   == Unir(memoria[p], Segmento(base \div SEG, TAMANIO_STACK))
  IN
  /\ Ejecuta({"CREA"})
  /\ hilos' = [t \in DOMAIN hilos \cup {nuevo.tid} |->
                 IF t # nuevo.tid THEN hilos[t]
                 ELSE [estado |-> IF leida THEN "listo" ELSE "fin", dir |-> 0,
                       tcb |-> [nuevo EXCEPT !.r["P"] = cpu.r["B"]]]]
  /\ memoria' = [memoria EXCEPT ![p] =
                   IF leida /\ base .. base + n - 1 \cap sinMarco[p] = {}
                   THEN Escribe(con, base, Lee(memoria[p], x, n)) ELSE con]
  /\ IF leida THEN Avanza(r) ELSE Falla(r)
  /\ UNCHANGED <<libre, tcb_km, salida, fijas>>

UnaInstruccion ==
  \/ FallaInstruccion \/ CaeCPU \/ DeRegistros \/ LOAD \/ DIVRPorCero \/ Saltos \/ INTE
  \/ SETM \/ GETM \/ PUSH \/ Desapila \/ XXXX
  \/ MALC \/ FREE \/ INNN \/ INNC \/ OUTN \/ OUTC \/ AlKernel \/ CREA

-------------------------------------------------------------------------------
(* Turns, and what the Kernel does with the TCB *)

\* recibirTCByQuantum
RecibirTCB(s) ==
  /\ libre' = FALSE
  /\ cpu' = [estado |-> "activa", pid |-> s.pid, tid |-> s.tid, km |-> s.km, r |-> s.r,
             quantumActual |-> 0]
  /\ UNCHANGED <<mensajes, externas, fijas>>

\* dispatcher, with a thread of ready.
Despachar(t) ==
  /\ cpu.estado = "espera" /\ libre /\ hilos[t].estado = "listo"
  /\ RecibirTCB(hilos[t].tcb)
  /\ hilos' = [hilos EXCEPT ![t].estado = "exec"]
  /\ UNCHANGED tcb_km

Programacion == {"A", "B", "C", "D", "E"}

\* The registers of programming of b, in a.
ConRegistrosDe(a, b, cuales) == [x \in Nombres |-> IF x \in cuales THEN b[x] ELSE a[x]]

\* Mutant: index -1 is not copied.
PrestarSinCursor(s, dir) ==
  TCB(s.pid, s.tid, TRUE, [ConRegistrosDe(tcb_km.r, s.r, Programacion) EXCEPT !["P"] = dir])

\* The kernel thread takes the identity of the caller, its registers and, index -1 again,
\* its cursor, to execute the system call at dir.
Prestar(s, dir) ==
  TCB(s.pid, s.tid, TRUE,
      [ConRegistrosDe(tcb_km.r, s.r, Programacion \cup {"S"}) EXCEPT !["P"] = dir])

\* dispatcher, with a system call.
DespacharLlamada(t) ==
  LET k == Prestar(hilos[t].tcb, hilos[t].dir) IN
  /\ cpu.estado = "espera" /\ libre /\ hilos[t].estado = "llamada"
  /\ RecibirTCB(k)
  /\ tcb_km' = k
  /\ hilos' = [hilos EXCEPT ![t].estado = "atendida"]

\* The first thread of process p has ended, and with it the process.
Termino(p) == hilos[p].estado = "fin"

\* The messages after which obtener_CPUAsociada's CPU is free; desconexion has no case.
Libera(op) == op # "desconexion"

\* planificador takes the next message.  The end of a system call gives its registers
\* to the caller.
Recibir ==
  LET m == Head(mensajes)
      s == m.tcb
      listo(r) == [estado |-> "listo", dir |-> 0, tcb |-> r]
  IN
  /\ mensajes # <<>>
  /\ mensajes' = Tail(mensajes)
  /\ libre' = (libre \/ Libera(m.op))
  /\ tcb_km' = IF s.km THEN s ELSE tcb_km
  /\ hilos' =
       CASE m.op = "desconexion" -> hilos
         [] m.op = "interrupcion" ->
              [hilos EXCEPT ![s.tid] = [estado |-> "llamada", dir |-> m.dir, tcb |-> s]]
         [] m.op = "finaliza_quantum" ->
              [hilos EXCEPT ![s.tid] = [listo(s) EXCEPT
                 !.estado = IF Termino(s.pid) THEN "fin" ELSE "listo"]]
         [] s.km -> [hilos EXCEPT ![s.tid] =
                       listo([@.tcb EXCEPT !.r = ConRegistrosDe(@, s.r, Programacion)])]
         [] OTHER -> [hilos EXCEPT ![s.tid].estado = "fin"]
  /\ UNCHANGED <<cpu, externas, fijas>>

\* The threads of a process that has ended are taken out of the queues.
Matar(t) ==
  /\ hilos[t].estado \in {"listo", "llamada"} /\ t # hilos[t].tcb.pid
  /\ Termino(hilos[t].tcb.pid)
  /\ hilos' = [hilos EXCEPT ![t].estado = "fin"]
  /\ UNCHANGED <<cpu, mensajes, libre, tcb_km, externas, fijas>>

Next ==
  \/ UnaInstruccion \/ Recibir
  \/ \E t \in DOMAIN hilos : Despachar(t) \/ DespacharLlamada(t) \/ Matar(t)

Spec == Init /\ [][Next]_vars

\* The CPU goes on with its loop.
FairSpec == Spec /\ WF_vars(UnaInstruccion)

-------------------------------------------------------------------------------
(* Properties *)

EsTCB(s) ==
  /\ DOMAIN s = {"pid", "tid", "km", "r"}
  /\ s.pid \in Espacios /\ s.tid \in DOMAIN hilos /\ s.km \in BOOLEAN
  /\ DOMAIN s.r = Nombres /\ \A x \in Nombres : s.r[x] \in Palabras

\* Type invariant: registers keep to four bytes and memory to one byte an address.
TypeOK ==
  /\ cpu.estado \in {"espera", "activa", "caida"} /\ cpu.quantumActual \in Nat
  /\ EsTCB(TCB(cpu.pid, cpu.tid, cpu.km, cpu.r)) /\ EsTCB(tcb_km)
  /\ libre \in BOOLEAN
  /\ \A k \in DOMAIN mensajes : EsTCB(mensajes[k].tcb) /\ mensajes[k].dir \in Palabras
  /\ \A t \in DOMAIN hilos :
       /\ hilos[t].estado \in {"listo", "exec", "llamada", "atendida", "fin"}
       /\ EsTCB(hilos[t].tcb) /\ hilos[t].dir \in Palabras
  /\ DOMAIN memoria = Espacios
  /\ \A p \in Espacios : \A d \in DOMAIN memoria[p] : memoria[p][d] \in 0 .. OCTETO - 1

\* A turn ends, also that of a thread in a loop or of a system call, which has no quantum.
TurnoTermina == cpu.estado = "activa" ~> cpu.estado # "activa"

\* instruccionesESO.c:371 of CREA: the difference between cursor and base is the same in
\* the new thread.
CursorDelHijo ==
  [][\A t \in DOMAIN hilos' \ DOMAIN hilos :
       hilos'[t].tcb.r["S"] - hilos'[t].tcb.r["X"] = cpu.r["S"] - cpu.r["X"]]_vars
================================================================================
