-------------------------------- MODULE Kernel --------------------------------
(*****************************************************************************)
(* The Kernel (src/Kernel): the threads dispatcher, planificador and loader  *)
(* over the queues of TCBs and the semaphores they share without a lock.     *)
(*                                                                           *)
(* dispatcher has a program counter.  planificador and loader handle one     *)
(* message at a time: the action that receives it leaves in hilo[h].pasos    *)
(* the calls it still has to make, one action each.  The CPUs and the        *)
(* consoles are the environment; a socket is a queue of messages.            *)
(*****************************************************************************)
EXTENDS Integers, Sequences, FiniteSets, SequencesExt

CONSTANTS
  NumCPU,        \* CPUs that may connect, in this order in CPU_list
  NumProgramas,  \* consoles that may connect
  MaxTID,        \* bound: no thread is created once TID reaches it
  Rutinas,       \* the system calls the programs make
  Recursos,      \* the semaphores BLOK and WAKE name
  SeVa,          \* programs whose user may leave before they end
  CotaListas,    \* bound: JOIN and BLOK are called with shorter lists than this
  CotaExec       \* bound: threads go on running with a list exec no longer than this

ASSUME KernelAssumption == NumCPU \in Nat /\ NumProgramas \in Nat /\ MaxTID \in Nat

CPUs    == 1 .. NumCPU
PIDs    == 1 .. NumProgramas
TIDs    == 1 .. MaxTID
Hilos   == {"planificador", "loader"}

\* A system call: the routine P points at and the register it takes.
Llamadas ==
  {ll \in [rutina : Rutinas, valor : TIDs \cup Recursos \cup {0}] :
     CASE ll.rutina = "join"            -> ll.valor \in TIDs
       [] ll.rutina \in {"blok", "wake"} -> ll.valor \in Recursos
       [] OTHER                          -> ll.valor = 0}
Usuario == [rutina |-> "usuario", valor |-> 0]

\* Of a TCB: PID, TID, KM and, for the kernel thread, the call it executes.
TCBs  == [pid : PIDs \cup {0}, tid : TIDs \cup {0}, km : BOOLEAN,
          dir : Llamadas \cup {Usuario}]
Nulo  == [pid |-> 0, tid |-> 0, km |-> FALSE, dir |-> Usuario]
tcbKM == [Nulo EXCEPT !.km = TRUE]
hiloUsuario(p, t) == [Nulo EXCEPT !.pid = p, !.tid = t]

VARIABLES
  ready,          \* ready.prioridad_1
  SYS_CALL,
  exec,
  kms,            \* block.prioridad_0
  bloq,           \* block.prioridad_1: the callers, with the call they made
  hilos_join,
  dic_bloqueados, \* a queue per resource
  e_exit,
  CPU_list, consola_list,
  TID, PID,       \* the last ones given
  llamador,       \* tcb_ejecutandoSysCall
  sem_procesoListo, sem_CPU, sem_kmDisponible,
  disp,           \* the dispatcher: pc, the TCB and the CPU it has taken
  hilo,           \* planificador and loader: calls to make, TCB, an integer, CPU or PID
  turno,          \* the orders of each CPU; it executes the first
  fase,           \* of the system call a CPU executes
  respuesta,      \* replies of crear_hilo on their way to each CPU
  mensajes,       \* from each CPU to the Kernel
  caida           \* the Kernel has dereferenced NULL or called exit

colas     == <<ready, SYS_CALL, exec, kms, bloq, hilos_join, dic_bloqueados, e_exit>>
semaforos == <<sem_procesoListo, sem_CPU, sem_kmDisponible>>
tablas    == <<CPU_list, consola_list, TID, PID, llamador>>
redes     == <<turno, fase, respuesta, mensajes>>
vars      == <<colas, semaforos, tablas, redes, disp, hilo, caida>>

Reposo == [pasos |-> <<>>, tcb |-> Nulo, n |-> 0, id |-> 0]

Init ==
  /\ ready = <<>> /\ SYS_CALL = <<>> /\ exec = <<>> /\ e_exit = <<>>
  /\ kms = <<tcbKM>>
  /\ bloq = <<>> /\ hilos_join = <<>>
  /\ dic_bloqueados = [r \in Recursos |-> <<>>]
  /\ CPU_list = [c \in CPUs |-> [estado |-> "ausente", pid |-> 0, tid |-> 0]]
  /\ consola_list = <<>>
  /\ TID = 0 /\ PID = 0 /\ llamador = Nulo
  /\ sem_procesoListo = 0 /\ sem_CPU = 0 /\ sem_kmDisponible = 1
  /\ disp = [pc |-> "listo1", tcb |-> Nulo, cpu |-> 0]
  /\ hilo = [h \in Hilos |-> Reposo]
  /\ turno = [c \in CPUs |-> <<>>] /\ fase = [c \in CPUs |-> "inicio"]
  /\ respuesta = [c \in CPUs |-> <<>>] /\ mensajes = [c \in CPUs |-> <<>>]
  /\ caida = FALSE

-------------------------------------------------------------------------------
(* boot: connections *)

ConectarCPU(c) ==
  /\ ~ caida /\ CPU_list[c].estado = "ausente"
  /\ \A d \in 1 .. c - 1 : CPU_list[d].estado # "ausente"
  /\ CPU_list' = [CPU_list EXCEPT ![c].estado = "libre"]
  /\ sem_CPU' = sem_CPU + 1
  /\ UNCHANGED <<colas, sem_procesoListo, sem_kmDisponible, consola_list, TID, PID,
                 llamador, redes, disp, hilo, caida>>

\* loader has not released any console yet.
SinLiberar == \A p \in DOMAIN consola_list : consola_list[p].conexion # "liberada"

\* Bound: no console connects once a descriptor has been given back, as accept would
\* give it again and loader take the new console for the old one (EntradaSalida.tla).
ConectarConsola ==
  /\ ~ caida /\ PID < NumProgramas /\ SinLiberar
  /\ PID' = PID + 1
  /\ consola_list' = Append(consola_list, [padre |-> 0, cantidad_hilos |-> 0,
                                   termino |-> FALSE, conexion |-> "nueva"])
  /\ UNCHANGED <<colas, semaforos, CPU_list, TID, llamador, redes, disp, hilo, caida>>

-------------------------------------------------------------------------------
(* What planificador and loader share *)

EnPaso(h, paso) == ~ caida /\ hilo[h].pasos # <<>> /\ Head(hilo[h].pasos) = paso
Libre(h) == ~ caida /\ hilo[h].pasos = <<>>

\* The thread h goes on to its next call, or waits for a message, after the change f.
Sigue(h, f) ==
  hilo' = [hilo EXCEPT ![h] = IF Len(@.pasos) = 1 THEN Reposo
                              ELSE [f EXCEPT !.pasos = Tail(f.pasos)]]

\* list_remove_and_destroy_by_condition of the i-th TCB of exec (of none when i is 0).
\* When it is the one dispatcher has just added and not yet copied, free overwrites
\* its first word, which is the PID.
LiberarDeExec(i) ==
  /\ exec' = IF i = 0 THEN exec ELSE RemoveAt(exec, i)
  /\ disp' = IF disp.pc = "enviar" /\ i # 0 /\ i = Len(exec)
             THEN [disp EXCEPT !.tcb.pid = 0] ELSE disp

\* obtener_TID: the global is loaded, and then stored and returned.
SumarTID(h) ==
  /\ EnPaso(h, "sumar")
  /\ Sigue(h, [hilo[h] EXCEPT !.n = TID + 1])
  /\ UNCHANGED <<colas, semaforos, tablas, redes, disp, caida>>

\* meter_en_ready, which posts sem_procesoListo twice once the TCB is in the queue.
MeterEnReady(h) ==
  /\ EnPaso(h, "encolar")
  /\ ready' = Append(ready, hilo[h].tcb)
  /\ Sigue(h, hilo[h])
  /\ UNCHANGED <<SYS_CALL, exec, kms, bloq, hilos_join, dic_bloqueados, e_exit,
                 semaforos, tablas, redes, disp, caida>>

Avisar(h) ==
  /\ EnPaso(h, "avisar")
  /\ sem_procesoListo' = sem_procesoListo + 1
  /\ Sigue(h, hilo[h])
  /\ UNCHANGED <<colas, sem_CPU, sem_kmDisponible, tablas, redes, disp, caida>>

\* mandar_a_exit of the TCB s; without its console it is exit(-1).
MandarAExit(s) ==
  IF s.pid \in DOMAIN consola_list
  THEN /\ consola_list' = [consola_list EXCEPT ![s.pid].cantidad_hilos = @ - 1]
       /\ e_exit' = Append(e_exit, s)
       /\ UNCHANGED caida
  ELSE caida' = TRUE /\ UNCHANGED <<consola_list, e_exit>>

encola == <<"encolar", "avisar", "avisar">>
libera == <<"libre", "exec", "post">>

-------------------------------------------------------------------------------
(* loader *)

\* codigo_consola: a new program, to which the MSP grants its segments.
RecibirPrograma(p) ==
  /\ Libre("loader")
  /\ p \in DOMAIN consola_list /\ consola_list[p].conexion = "nueva"
  /\ consola_list' = [consola_list EXCEPT ![p].conexion = "cargada"]
  /\ hilo' = [hilo EXCEPT !["loader"] =
                [Reposo EXCEPT !.pasos = <<"sumar", "padre">> \o encola, !.id = p]]
  /\ UNCHANGED <<colas, semaforos, CPU_list, TID, PID, llamador, redes, disp, caida>>

CrearPadre ==
  LET yo == hilo["loader"] IN
  /\ EnPaso("loader", "padre")
  /\ TID' = yo.n
  /\ consola_list' = [consola_list EXCEPT ![yo.id].padre = yo.n,
                                          ![yo.id].cantidad_hilos = 1]
  /\ Sigue("loader", [yo EXCEPT !.tcb = hiloUsuario(yo.id, yo.n)])
  /\ UNCHANGED <<colas, semaforos, CPU_list, PID, llamador, redes, disp, caida>>

\* A console closes its connection: it has been told that the program has ended, or its
\* user left.
CerrarConsola(p) ==
  /\ ~ caida /\ p \in DOMAIN consola_list
  /\ \/ consola_list[p].conexion = "avisada"
     \/ consola_list[p].conexion = "cargada" /\ p \in SeVa
  /\ consola_list' = [consola_list EXCEPT ![p].conexion = "cerrada"]
  /\ UNCHANGED <<colas, semaforos, CPU_list, TID, PID, llamador, redes, disp, hilo, caida>>

\* liberar_recursos: matar_hijos when the program has threads.
RecibirDesconexion(p) ==
  /\ Libre("loader")
  /\ p \in DOMAIN consola_list /\ consola_list[p].conexion = "cerrada"
  /\ consola_list' = [consola_list EXCEPT ![p].conexion = "liberada", ![p].termino = TRUE]
  /\ hilo' = IF consola_list[p].cantidad_hilos > 0
             THEN [hilo EXCEPT !["loader"] =
                     [Reposo EXCEPT !.pasos = <<"contarReady">>, !.id = p]]
             ELSE hilo
  /\ UNCHANGED <<colas, semaforos, CPU_list, TID, PID, llamador, redes, disp, caida>>

Propios(s) == {i \in DOMAIN s : s[i].pid = hilo["loader"].id}
Repetido(paso, n) == [i \in 1 .. n |-> paso]
LoaderPasa(pasos) == hilo' = [hilo EXCEPT !["loader"].pasos = pasos]

\* matar_hijos_en_lista counts, waits twice for sem_procesoListo and then removes as
\* many as it has counted.
ContarReady ==
  /\ EnPaso("loader", "contarReady")
  /\ LoaderPasa(<<"esperar", "esperar">>
                \o Repetido("matarReady", Cardinality(Propios(ready))) \o <<"contarBloq">>)
  /\ UNCHANGED <<colas, semaforos, tablas, redes, disp, caida>>

EsperarListo ==
  /\ EnPaso("loader", "esperar")
  /\ sem_procesoListo > 0
  /\ sem_procesoListo' = sem_procesoListo - 1
  /\ Sigue("loader", hilo["loader"])
  /\ UNCHANGED <<colas, sem_CPU, sem_kmDisponible, tablas, redes, disp, caida>>

\* The removal gives NULL when dispatcher has taken the thread in the meantime.
MatarReady ==
  LET i == SelectInSeq(ready, LAMBDA s : s.pid = hilo["loader"].id) IN
  /\ EnPaso("loader", "matarReady")
  /\ IF i = 0 THEN caida' = TRUE /\ UNCHANGED <<ready, consola_list, e_exit>>
              ELSE ready' = RemoveAt(ready, i) /\ MandarAExit(ready[i])
  /\ Sigue("loader", hilo["loader"])
  /\ UNCHANGED <<SYS_CALL, exec, kms, bloq, hilos_join, dic_bloqueados, semaforos,
                 CPU_list, TID, PID, llamador, redes, disp>>

ContarBloq ==
  LET propios == {i \in DOMAIN bloq : bloq[i].tcb.pid = hilo["loader"].id} IN
  /\ EnPaso("loader", "contarBloq")
  /\ LoaderPasa(Repetido("matarBloq", Cardinality(propios)) \o <<"contarSysCall">>)
  /\ UNCHANGED <<colas, semaforos, tablas, redes, disp, caida>>

MatarBloq ==
  LET i == SelectInSeq(bloq, LAMBDA b : b.tcb.pid = hilo["loader"].id) IN
  /\ EnPaso("loader", "matarBloq")
  /\ IF i = 0 THEN caida' = TRUE /\ UNCHANGED <<bloq, consola_list, e_exit>>
              ELSE bloq' = RemoveAt(bloq, i) /\ MandarAExit(bloq[i].tcb)
  /\ Sigue("loader", hilo["loader"])
  /\ UNCHANGED <<ready, SYS_CALL, exec, kms, hilos_join, dic_bloqueados, semaforos,
                 CPU_list, TID, PID, llamador, redes, disp>>

\* In SYS_CALL and in the resources' queues a TCB to remove is read as a struct_join,
\* whose first word is a pointer.
ContarSysCall ==
  LET propios == {i \in DOMAIN hilos_join : hilos_join[i].llamador.pid = hilo["loader"].id}
  IN
  /\ EnPaso("loader", "contarSysCall")
  /\ caida' = (Propios(SYS_CALL) # {})
  /\ LoaderPasa(Repetido("matarJoin", Cardinality(propios)) \o <<"contarDic">>)
  /\ UNCHANGED <<colas, semaforos, tablas, redes, disp>>

MatarJoin ==
  LET i == SelectInSeq(hilos_join, LAMBDA j : j.llamador.pid = hilo["loader"].id) IN
  /\ EnPaso("loader", "matarJoin")
  /\ IF i = 0 THEN caida' = TRUE /\ UNCHANGED <<hilos_join, consola_list, e_exit>>
              ELSE /\ hilos_join' = RemoveAt(hilos_join, i)
                   /\ MandarAExit(hilos_join[i].llamador)
  /\ Sigue("loader", hilo["loader"])
  /\ UNCHANGED <<ready, SYS_CALL, exec, kms, bloq, dic_bloqueados, semaforos,
                 CPU_list, TID, PID, llamador, redes, disp>>

ContarDic ==
  /\ EnPaso("loader", "contarDic")
  /\ caida' = (\E r \in Recursos : Propios(dic_bloqueados[r]) # {})
  /\ Sigue("loader", hilo["loader"])
  /\ UNCHANGED <<colas, semaforos, tablas, redes, disp>>

\* devolver_entrada_aCPU: what the user of the program typed goes to the CPU that waits
\* for it.  A console that leaves may take its answer with it.
se_produjo_entrada(c) ==
  /\ Libre("loader") /\ fase[c] = "contestada"
  /\ consola_list[Head(turno[c]).pid].conexion # "liberada"
  /\ fase' = [fase EXCEPT ![c] = "final"]
  /\ UNCHANGED <<colas, semaforos, tablas, turno, respuesta, mensajes, disp, hilo, caida>>

-------------------------------------------------------------------------------
(* planificador: one action per message, with the first calls of its handler *)

\* The first message of the CPU c is of operation op; the calls left are pasos.
Recibir(c, op, pasos, s) ==
  /\ Libre("planificador")
  /\ mensajes[c] # <<>> /\ Head(mensajes[c]).op = op
  /\ mensajes' = [mensajes EXCEPT ![c] = Tail(@)]
  /\ hilo' = [hilo EXCEPT !["planificador"] =
                IF pasos = <<>> THEN Reposo
                ELSE [pasos |-> pasos, tcb |-> s, n |-> 0, id |-> c]]
  /\ UNCHANGED <<turno, fase, respuesta>>

Recibido(c) == Head(mensajes[c]).tcb

\* Mutant: the CPU of an aborted thread is not released.
QuantumSinLiberar(c) ==
  LET s == Recibido(c)
      ultimo == SelectInSeq(exec, LAMBDA e : e.pid = PID /\ e.tid = TID /\ ~ e.km)
      pasos == IF s.pid \notin DOMAIN consola_list THEN libera
               ELSE IF consola_list[s.pid].termino THEN <<"sacar", "exit">>
               ELSE encola \o libera
  IN
  /\ Recibir(c, "finaliza_quantum", pasos, s)
  /\ IF "encolar" \in {pasos[i] : i \in DOMAIN pasos} THEN LiberarDeExec(ultimo)
                                                       ELSE UNCHANGED <<exec, disp>>
  /\ UNCHANGED <<ready, SYS_CALL, kms, bloq, hilos_join, dic_bloqueados, e_exit,
                 semaforos, tablas, caida>>

\* finalizo_quantum: a program that has ended does not go on.  The TCB it takes out of
\* exec is the one with the globals PID and TID.
finalizo_quantum(c) ==
  LET s == Recibido(c)
      ultimo == SelectInSeq(exec, LAMBDA e : e.pid = PID /\ e.tid = TID /\ ~ e.km)
      pasos == IF s.pid \notin DOMAIN consola_list THEN libera
               ELSE IF consola_list[s.pid].termino THEN <<"sacar", "exit">> \o libera
               ELSE encola \o libera
  IN
  /\ Recibir(c, "finaliza_quantum", pasos, s)
  /\ IF "encolar" \in {pasos[i] : i \in DOMAIN pasos} THEN LiberarDeExec(ultimo)
                                                       ELSE UNCHANGED <<exec, disp>>
  /\ UNCHANGED <<ready, SYS_CALL, kms, bloq, hilos_join, dic_bloqueados, e_exit,
                 semaforos, tablas, caida>>

\* Mutant: the kernel thread is announced before it is back in its queue.
FinalizaPostPrimero(s) ==
  IF s.km THEN <<"postKM", "finKM">> \o encola ELSE <<"sacar", "exit">>

\* Mutant: the caller is not made ready.
FinalizaSinVolver(s) == IF s.km THEN <<"finKM", "postKM">> ELSE <<"sacar", "exit">>

\* What ends a turn: of the kernel thread, its caller is ready again; of a user thread,
\* it goes to exit.
finaliza(s) == IF s.km THEN <<"finKM">> \o encola \o <<"postKM">> ELSE <<"sacar", "exit">>

finalizo_ejecucion(c) ==
  /\ Recibir(c, "finaliza_ejecucion", finaliza(Recibido(c)) \o libera, Recibido(c))
  /\ UNCHANGED <<colas, semaforos, tablas, disp, caida>>

ejecucion_erronea(c) ==
  /\ Recibir(c, "ejecucion_erronea", libera \o finaliza(Recibido(c)), Recibido(c))
  /\ UNCHANGED <<colas, semaforos, tablas, disp, caida>>

interrumpir(c) ==
  LET m == Head(mensajes[c]) IN
  /\ Recibir(c, "interrupcion", <<"avisar", "avisar">> \o libera, m.tcb)
  /\ bloq' = Append(bloq, [tcb |-> m.tcb, dir |-> m.dir])
  /\ SYS_CALL' = Append(SYS_CALL, m.tcb)
  /\ UNCHANGED <<ready, exec, kms, hilos_join, dic_bloqueados, e_exit, semaforos,
                 tablas, disp, caida>>

\* obtener_tcb_bloqueado finds the caller of the kernel thread, or NULL.
crear_hilo(c) ==
  LET s == Recibido(c)
      i == SelectInSeq(bloq, LAMBDA b : b.tcb.tid = s.tid)
  IN
  /\ Recibir(c, "creacion_hilo", <<"sumar", "responder">>,
             IF i = 0 THEN s ELSE bloq[i].tcb)
  /\ caida' = (i = 0)
  /\ UNCHANGED <<colas, semaforos, tablas, disp>>

ResponderHilo ==
  LET yo == hilo["planificador"] IN
  /\ EnPaso("planificador", "responder")
  /\ TID' = yo.n
  /\ respuesta' = [respuesta EXCEPT ![yo.id] = Append(@, hiloUsuario(yo.tcb.pid, yo.n))]
  /\ Sigue("planificador", yo)
  /\ UNCHANGED <<colas, semaforos, CPU_list, consola_list, PID, llamador, turno, fase,
                 mensajes, disp, caida>>

planificar_hilo_creado(c) ==
  /\ Recibir(c, "planificar_nuevo_hilo", encola \o <<"contar">>, Recibido(c))
  /\ UNCHANGED <<colas, semaforos, tablas, disp, caida>>

\* Mutant: the new thread is not counted.
NoContarHilo ==
  /\ EnPaso("planificador", "contar")
  /\ Sigue("planificador", hilo["planificador"])
  /\ UNCHANGED <<colas, semaforos, tablas, redes, disp, caida>>

ContarHilo ==
  LET yo == hilo["planificador"] IN
  /\ EnPaso("planificador", "contar")
  /\ IF yo.tcb.pid \in DOMAIN consola_list
     THEN /\ consola_list' = [consola_list EXCEPT ![yo.tcb.pid].cantidad_hilos = @ + 1]
          /\ UNCHANGED caida
     ELSE caida' = TRUE /\ UNCHANGED consola_list
  /\ Sigue("planificador", yo)
  /\ UNCHANGED <<colas, semaforos, CPU_list, TID, PID, llamador, redes, disp>>

\* realizar_join: the caller is the thread whose system call was dispatched last.
realizar_join(c) ==
  /\ Recibir(c, "join", <<>>, Nulo)
  /\ hilos_join' = Append(hilos_join, [llamador |-> llamador,
                                       tid |-> Recibido(c).dir.valor])
  /\ UNCHANGED <<ready, SYS_CALL, exec, kms, bloq, dic_bloqueados, e_exit, semaforos,
                 tablas, disp, caida>>

\* realizar_bloqueo of the first TCB of exec with the TID of the sender; loguear
\* dereferences it.
realizar_bloqueo(c) ==
  LET s == Recibido(c)
      i == SelectInSeq(exec, LAMBDA e : e.tid = s.tid)
  IN
  /\ Recibir(c, "bloquear", <<>>, Nulo)
  /\ IF i = 0 THEN caida' = TRUE /\ UNCHANGED <<exec, dic_bloqueados>>
     ELSE /\ exec' = RemoveAt(exec, i)
          /\ dic_bloqueados' = [dic_bloqueados EXCEPT ![s.dir.valor] = Append(@, exec[i])]
          /\ UNCHANGED caida
  /\ UNCHANGED <<ready, SYS_CALL, kms, bloq, hilos_join, e_exit, semaforos, tablas, disp>>

\* realizar_desbloqueo; meter_en_ready sends a kernel TCB back to block.prioridad_0.
realizar_desbloqueo(c) ==
  LET r == Recibido(c).dir.valor
      primero == Head(dic_bloqueados[r])
      alguien == dic_bloqueados[r] # <<>>
  IN
  /\ Recibir(c, "despertar", IF alguien /\ ~ primero.km THEN encola ELSE <<>>,
             IF alguien THEN primero ELSE Nulo)
  /\ dic_bloqueados' = IF alguien THEN [dic_bloqueados EXCEPT ![r] = Tail(@)]
                                  ELSE dic_bloqueados
  /\ kms' = IF alguien /\ primero.km THEN Append(kms, tcbKM) ELSE kms
  /\ UNCHANGED <<ready, SYS_CALL, exec, bloq, hilos_join, e_exit, semaforos, tablas,
                 disp, caida>>

\* INNN and INNC: the console of the program the CPU has, by cpu->PID, is asked, if it is
\* still there.
producir_entrada_estandar(c) ==
  /\ Recibir(c, "entrada_estandar", <<>>, Nulo)
  /\ caida' = (CPU_list[c].pid \notin DOMAIN consola_list)
  /\ UNCHANGED <<colas, semaforos, tablas, disp>>

\* sacar_de_ejecucion up to mandar_a_exit.  Its search of exec compares addresses with
\* PID and TID and finds nothing.  fijarse_joins makes nobody ready, as the entry of
\* the waiting thread finds itself, and removes the first entry for this TID.  The end
\* of the first thread of a program ends the program, and its console is told so.
SacarDeEjecucion ==
  LET s == hilo["planificador"].tcb
      despedida == IF consola_list[s.pid].conexion = "cargada" THEN "avisada"
                   ELSE consola_list[s.pid].conexion
  IN
  /\ EnPaso("planificador", "sacar")
  /\ hilos_join' = RemoveFirstMatch(hilos_join, LAMBDA j : j.tid = s.tid)
  /\ IF s.pid \in DOMAIN consola_list
     THEN /\ consola_list' = IF consola_list[s.pid].padre # s.tid THEN consola_list
                             ELSE [consola_list EXCEPT ![s.pid].termino = TRUE,
                                                       ![s.pid].conexion = despedida]
          /\ UNCHANGED caida
     ELSE caida' = TRUE /\ UNCHANGED consola_list
  /\ Sigue("planificador", hilo["planificador"])
  /\ UNCHANGED <<ready, SYS_CALL, exec, kms, bloq, dic_bloqueados, e_exit, semaforos,
                 CPU_list, TID, PID, llamador, redes, disp>>

Exit ==
  /\ EnPaso("planificador", "exit")
  /\ MandarAExit(hilo["planificador"].tcb)
  /\ Sigue("planificador", hilo["planificador"])
  /\ UNCHANGED <<ready, SYS_CALL, exec, kms, bloq, hilos_join, dic_bloqueados, semaforos,
                 CPU_list, TID, PID, llamador, redes, disp>>

FinKM ==
  LET yo == hilo["planificador"]
      i  == SelectInSeq(bloq, LAMBDA b : b.tcb.tid = yo.tcb.tid)
  IN
  /\ EnPaso("planificador", "finKM")
  /\ kms' = Append(kms, tcbKM)
  /\ IF i = 0 THEN /\ caida' = TRUE /\ UNCHANGED bloq
                   /\ Sigue("planificador", yo)
     ELSE /\ bloq' = RemoveAt(bloq, i)
          /\ Sigue("planificador", [yo EXCEPT !.tcb = bloq[i].tcb])
          /\ UNCHANGED caida
  /\ UNCHANGED <<ready, SYS_CALL, exec, hilos_join, dic_bloqueados, e_exit, semaforos,
                 tablas, redes, disp>>

\* Mutant: nobody is told that the kernel thread is free.
NoPostKM ==
  /\ EnPaso("planificador", "postKM")
  /\ Sigue("planificador", hilo["planificador"])
  /\ UNCHANGED <<colas, semaforos, tablas, redes, disp, caida>>

PostKM ==
  /\ EnPaso("planificador", "postKM")
  /\ sem_kmDisponible' = sem_kmDisponible + 1
  /\ Sigue("planificador", hilo["planificador"])
  /\ UNCHANGED <<colas, sem_procesoListo, sem_CPU, tablas, redes, disp, caida>>

\* Mutant: liberar_cpu leaves the bit as it was.
NoLiberarBit ==
  /\ EnPaso("planificador", "libre")
  /\ Sigue("planificador", hilo["planificador"])
  /\ UNCHANGED <<colas, semaforos, tablas, redes, disp, caida>>

\* liberar_cpu: the bit, the TCB in exec with the TID the CPU has by then, and the PID,
\* with the semaphore.  dispatcher, if it had a token, may have taken the CPU since then.
LiberarBit ==
  LET yo == hilo["planificador"] IN
  /\ EnPaso("planificador", "libre")
  /\ CPU_list' = [CPU_list EXCEPT ![yo.id].estado = "libre"]
  /\ Sigue("planificador", yo)
  /\ UNCHANGED <<colas, semaforos, consola_list, TID, PID, llamador, redes, disp, caida>>

LiberarExec ==
  LET yo == hilo["planificador"] IN
  /\ EnPaso("planificador", "exec")
  /\ LiberarDeExec(SelectInSeq(exec, LAMBDA e : e.tid = CPU_list[yo.id].tid))
  /\ Sigue("planificador", yo)
  /\ UNCHANGED <<ready, SYS_CALL, kms, bloq, hilos_join, dic_bloqueados, e_exit,
                 semaforos, tablas, redes, caida>>

\* Mutant: the CPU is free and its token is never posted.
NoLiberarPost ==
  /\ EnPaso("planificador", "post")
  /\ Sigue("planificador", hilo["planificador"])
  /\ UNCHANGED <<colas, semaforos, tablas, redes, disp, caida>>

LiberarPost ==
  LET yo == hilo["planificador"] IN
  /\ EnPaso("planificador", "post")
  /\ CPU_list' = [CPU_list EXCEPT ![yo.id].pid = 0]
  /\ sem_CPU' = sem_CPU + 1
  /\ Sigue("planificador", yo)
  /\ UNCHANGED <<colas, sem_procesoListo, sem_kmDisponible, consola_list, TID, PID,
                 llamador, redes, disp, caida>>

-------------------------------------------------------------------------------
(* dispatcher *)

EnPC(pc) == ~ caida /\ disp.pc = pc

\* Mutant: sem_procesoListo is decremented without waiting for it.
ProcesoSinEsperar(pc, siguiente) ==
  /\ EnPC(pc)
  /\ sem_procesoListo' = sem_procesoListo - 1
  /\ disp' = [disp EXCEPT !.pc = siguiente]
  /\ UNCHANGED <<colas, sem_CPU, sem_kmDisponible, tablas, redes, hilo, caida>>

EsperarProceso(pc, siguiente) ==
  /\ EnPC(pc)
  /\ sem_procesoListo > 0
  /\ sem_procesoListo' = sem_procesoListo - 1
  /\ disp' = [disp EXCEPT !.pc = siguiente]
  /\ UNCHANGED <<colas, sem_CPU, sem_kmDisponible, tablas, redes, hilo, caida>>

\* Mutant: the second wait for sem_procesoListo is missing.
CPUUnaEspera ==
  /\ EnPC("cpu")
  /\ sem_CPU > 0
  /\ sem_CPU' = sem_CPU - 1
  /\ disp' = [disp EXCEPT !.pc = "elegir"]
  /\ UNCHANGED <<colas, sem_procesoListo, sem_kmDisponible, tablas, redes, hilo, caida>>

EsperarCPU ==
  /\ EnPC("cpu")
  /\ sem_CPU > 0
  /\ sem_CPU' = sem_CPU - 1
  /\ disp' = [disp EXCEPT !.pc = "listo2"]
  /\ UNCHANGED <<colas, sem_procesoListo, sem_kmDisponible, tablas, redes, hilo, caida>>

\* Mutant: queue_peek for queue_pop.
VerReady ==
  /\ EnPC("elegir") /\ SYS_CALL = <<>>
  /\ IF ready = <<>> THEN caida' = TRUE /\ UNCHANGED disp
     ELSE disp' = [disp EXCEPT !.pc = "buscar", !.tcb = Head(ready)] /\ UNCHANGED caida
  /\ UNCHANGED <<colas, semaforos, tablas, redes, hilo>>

\* System calls go first.  No kernel TCB is in ready: meter_en_ready puts it elsewhere.
SacarDeReady ==
  /\ EnPC("elegir") /\ SYS_CALL = <<>>
  /\ IF ready = <<>> THEN caida' = TRUE /\ UNCHANGED <<ready, disp>>
     ELSE /\ ready' = Tail(ready)
          /\ disp' = [disp EXCEPT !.pc = "buscar", !.tcb = Head(ready)]
          /\ UNCHANGED caida
  /\ UNCHANGED <<SYS_CALL, exec, kms, bloq, hilos_join, dic_bloqueados, e_exit,
                 semaforos, tablas, redes, hilo>>

ElegirSysCall ==
  /\ EnPC("elegir") /\ SYS_CALL # <<>>
  /\ disp' = [disp EXCEPT !.pc = "km"]
  /\ UNCHANGED <<colas, semaforos, tablas, redes, hilo, caida>>

\* Mutant: queue_peek for queue_pop.
VerSysCall ==
  LET s == Head(SYS_CALL)
      i == SelectInSeq(bloq, LAMBDA b : b.tcb.tid = s.tid)
  IN
  /\ EnPC("km") /\ sem_kmDisponible > 0
  /\ sem_kmDisponible' = sem_kmDisponible - 1
  /\ IF SYS_CALL = <<>> \/ kms = <<>> \/ i = 0
     THEN caida' = TRUE /\ UNCHANGED <<kms, llamador, disp>>
     ELSE /\ kms' = Tail(kms) /\ llamador' = s
          /\ disp' = [disp EXCEPT !.pc = "buscar",
                        !.tcb = [s EXCEPT !.km = TRUE, !.dir = bloq[i].dir]]
          /\ UNCHANGED caida
  /\ UNCHANGED <<ready, SYS_CALL, exec, bloq, hilos_join, dic_bloqueados, e_exit,
                 sem_procesoListo, sem_CPU, CPU_list, consola_list, TID, PID, redes, hilo>>

\* The kernel thread takes the identity of the caller and the address of the call.
AtenderSysCall ==
  LET s == Head(SYS_CALL)
      i == SelectInSeq(bloq, LAMBDA b : b.tcb.tid = s.tid)
  IN
  /\ EnPC("km") /\ sem_kmDisponible > 0
  /\ sem_kmDisponible' = sem_kmDisponible - 1
  /\ IF SYS_CALL = <<>> \/ kms = <<>> \/ i = 0
     THEN caida' = TRUE /\ UNCHANGED <<SYS_CALL, kms, llamador, disp>>
     ELSE /\ SYS_CALL' = Tail(SYS_CALL) /\ kms' = Tail(kms) /\ llamador' = s
          /\ disp' = [disp EXCEPT !.pc = "buscar",
                        !.tcb = [s EXCEPT !.km = TRUE, !.dir = bloq[i].dir]]
          /\ UNCHANGED caida
  /\ UNCHANGED <<ready, exec, bloq, hilos_join, dic_bloqueados, e_exit, sem_procesoListo,
                 sem_CPU, CPU_list, consola_list, TID, PID, redes, hilo>>

\* Mutant: the CPU is not marked busy.
NoOcupar ==
  LET libres == {c \in CPUs : CPU_list[c].estado = "libre"} IN
  /\ EnPC("buscar") /\ libres # {}
  /\ LET c == Min(libres) IN
     /\ CPU_list' = [CPU_list EXCEPT ![c].pid = disp.tcb.pid, ![c].tid = disp.tcb.tid]
     /\ disp' = [disp EXCEPT !.pc = "exec", !.cpu = c]
  /\ UNCHANGED <<colas, semaforos, consola_list, TID, PID, llamador, redes, hilo, caida>>

\* enviar_a_ejecucion: the first CPU of the list that is free.
BuscarCPU ==
  LET libres == {c \in CPUs : CPU_list[c].estado = "libre"} IN
  /\ EnPC("buscar") /\ libres # {}
  /\ LET c == Min(libres) IN
     /\ CPU_list' = [CPU_list EXCEPT ![c] = [estado |-> "ocupado", pid |-> disp.tcb.pid,
                                             tid |-> disp.tcb.tid]]
     /\ disp' = [disp EXCEPT !.pc = "exec", !.cpu = c]
  /\ UNCHANGED <<colas, semaforos, consola_list, TID, PID, llamador, redes, hilo, caida>>

AgregarAExec ==
  /\ EnPC("exec")
  /\ exec' = Append(exec, disp.tcb)
  /\ disp' = [disp EXCEPT !.pc = "enviar"]
  /\ UNCHANGED <<ready, SYS_CALL, kms, bloq, hilos_join, dic_bloqueados, e_exit,
                 semaforos, tablas, redes, hilo, caida>>

EnviarOrden ==
  /\ EnPC("enviar")
  /\ turno' = [turno EXCEPT ![disp.cpu] = Append(@, disp.tcb)]
  /\ disp' = [pc |-> "listo1", tcb |-> Nulo, cpu |-> 0]
  /\ UNCHANGED <<colas, semaforos, tablas, fase, respuesta, mensajes, hilo, caida>>

-------------------------------------------------------------------------------
(* The CPUs, as the Kernel sees them *)

Mensaje(c, op, s, dir) ==
  mensajes' = [mensajes EXCEPT ![c] = Append(@, [op |-> op, tcb |-> s, dir |-> dir])]

Terminar(c, op, dir) ==
  /\ Mensaje(c, op, Head(turno[c]), dir)
  /\ turno' = [turno EXCEPT ![c] = Tail(@)]
  /\ fase' = [fase EXCEPT ![c] = "inicio"]
  /\ UNCHANGED <<colas, semaforos, tablas, respuesta, disp, hilo, caida>>

EnModo(c, km) == ~ caida /\ turno[c] # <<>> /\ Head(turno[c]).km = km

\* The turn of a user thread ends with its quantum, XXXX, an error or INTE.
TerminarUsuario(c) ==
  /\ EnModo(c, FALSE)
  /\ \/ /\ Len(exec) <= CotaExec
        /\ \/ Terminar(c, "finaliza_quantum", Usuario)
           \/ \E ll \in Llamadas : Terminar(c, "interrupcion", ll)
     \/ Terminar(c, "finaliza_ejecucion", Usuario)
     \/ Terminar(c, "ejecucion_erronea", Usuario)

\* Within the bounds; without one the instruction of the routine fails.
Admite(ll) ==
  CASE ll.rutina = "crea" -> TID + Cardinality({p \in PIDs : p > PID \/ consola_list[p].padre = 0}) < MaxTID
    [] ll.rutina = "join" -> Len(hilos_join) < CotaListas
    [] ll.rutina = "blok" -> Len(kms) + Len(dic_bloqueados[ll.valor]) < CotaListas
    [] ll.rutina \in {"wake", "entrada"} -> TRUE
    [] OTHER              -> FALSE

operacion(ll) ==
  CASE ll.rutina = "crea" -> "creacion_hilo"
    [] ll.rutina = "join" -> "join"
    [] ll.rutina = "blok" -> "bloquear"
    [] ll.rutina = "wake" -> "despertar"
    [] OTHER              -> "entrada_estandar"

\* A routine makes one protected call, and waits for an answer only in CREA, INNN and INNC.
LlamarKernel(c) ==
  LET s == Head(turno[c]) IN
  /\ EnModo(c, TRUE) /\ fase[c] = "inicio"
  /\ Admite(s.dir)
  /\ Mensaje(c, operacion(s.dir), s, Usuario)
  /\ fase' = [fase EXCEPT ![c] = IF s.dir.rutina = "crea" THEN "espera"
                                 ELSE IF s.dir.rutina = "entrada" THEN "entrada" ELSE "final"]
  /\ UNCHANGED <<colas, semaforos, tablas, turno, respuesta, disp, hilo, caida>>

\* The new thread goes to the Kernel once its stack is copied, which may fail.
PlanificarHilo(c) ==
  /\ ~ caida /\ fase[c] = "espera" /\ respuesta[c] # <<>>
  /\ respuesta' = [respuesta EXCEPT ![c] = Tail(@)]
  /\ fase' = [fase EXCEPT ![c] = "final"]
  /\ \/ Mensaje(c, "planificar_nuevo_hilo", Head(respuesta[c]), Usuario)
     \/ UNCHANGED mensajes
  /\ UNCHANGED <<colas, semaforos, tablas, turno, disp, hilo, caida>>

\* The user types what the console asked for, if there is a console and a user.
IngresarDatos(c) ==
  LET p == Head(turno[c]).pid IN
  /\ ~ caida /\ fase[c] = "entrada" /\ mensajes[c] = <<>>
  /\ p \in DOMAIN consola_list /\ consola_list[p].conexion \in {"cargada", "avisada"}
  /\ fase' = [fase EXCEPT ![c] = "contestada"]
  /\ UNCHANGED <<colas, semaforos, tablas, turno, respuesta, mensajes, disp, hilo, caida>>

TerminarKM(c) ==
  /\ EnModo(c, TRUE) /\ fase[c] \in {"inicio", "final"}
  /\ \/ /\ fase[c] = "final" \/ Head(turno[c]).dir.rutina = "nada"
        /\ Terminar(c, "finaliza_ejecucion", Usuario)
     \/ Terminar(c, "ejecucion_erronea", Usuario)

-------------------------------------------------------------------------------
Dispatcher ==
  \/ EsperarProceso("listo1", "cpu") \/ EsperarCPU \/ EsperarProceso("listo2", "elegir")
  \/ SacarDeReady \/ ElegirSysCall \/ AtenderSysCall
  \/ BuscarCPU \/ AgregarAExec \/ EnviarOrden

RecibirDe(c) ==
  \/ finalizo_quantum(c) \/ finalizo_ejecucion(c) \/ ejecucion_erronea(c)
  \/ interrumpir(c) \/ crear_hilo(c) \/ planificar_hilo_creado(c)
  \/ realizar_join(c) \/ realizar_bloqueo(c) \/ realizar_desbloqueo(c)
  \/ producir_entrada_estandar(c)

Comun(h) == SumarTID(h) \/ MeterEnReady(h) \/ Avisar(h)

Planificador ==
  \/ Comun("planificador") \/ ResponderHilo \/ ContarHilo
  \/ SacarDeEjecucion \/ Exit \/ FinKM \/ PostKM
  \/ LiberarBit \/ LiberarExec \/ LiberarPost

Loader ==
  \/ \E p \in PIDs : RecibirPrograma(p) \/ RecibirDesconexion(p)
  \/ Comun("loader") \/ CrearPadre \/ ContarReady \/ EsperarListo \/ MatarReady
  \/ ContarBloq \/ MatarBloq \/ ContarSysCall \/ MatarJoin \/ ContarDic
  \/ \E c \in CPUs : se_produjo_entrada(c)

CPU(c) == TerminarUsuario(c) \/ LlamarKernel(c) \/ PlanificarHilo(c) \/ TerminarKM(c)

Boot == ConectarConsola \/ \E c \in CPUs : ConectarCPU(c)

Next ==
  \/ Boot \/ Dispatcher \/ Planificador \/ Loader
  \/ \E c \in CPUs : RecibirDe(c) \/ CPU(c) \/ IngresarDatos(c)
  \/ \E p \in PIDs : CerrarConsola(p)

Spec == Init /\ [][Next]_vars

\* pthreads schedules a runnable thread; planificador serves in each round of select
\* every CPU that has sent something; a turn that does not wait for an answer ends, by its
\* quantum if nothing else.  Nothing is asked of the users and their consoles.
FairSpec ==
  /\ Spec
  /\ WF_vars(Dispatcher)
  /\ WF_vars(Planificador)
  /\ WF_vars(Loader)
  /\ \A c \in CPUs : /\ SF_vars(RecibirDe(c))
                     /\ WF_vars(CPU(c))

-------------------------------------------------------------------------------
(* Properties *)

Mensajes ==
  [op : {"finaliza_quantum", "finaliza_ejecucion", "ejecucion_erronea", "interrupcion",
         "creacion_hilo", "planificar_nuevo_hilo", "join", "bloquear", "despertar",
         "entrada_estandar"},
   tcb : TCBs, dir : Llamadas \cup {Usuario}]

\* Every variable has the type of the code's structure.
TypeOK ==
  /\ ready \in Seq(TCBs) /\ SYS_CALL \in Seq(TCBs) /\ exec \in Seq(TCBs)
  /\ kms \in Seq(TCBs) /\ e_exit \in Seq(TCBs)
  /\ bloq \in Seq([tcb : TCBs, dir : Llamadas])
  /\ hilos_join \in Seq([llamador : TCBs, tid : Nat])
  /\ dic_bloqueados \in [Recursos -> Seq(TCBs)]
  /\ CPU_list \in [CPUs -> [estado : {"ausente", "libre", "ocupado"}, pid : PIDs \cup {0},
                            tid : TIDs \cup {0}]]
  /\ PID \in 0 .. NumProgramas /\ TID \in 0 .. MaxTID /\ llamador \in TCBs
  /\ consola_list \in [1 .. PID -> [padre : TIDs \cup {0}, cantidad_hilos : Int,
                          termino : BOOLEAN,
                          conexion : {"nueva", "cargada", "avisada", "cerrada", "liberada"}]]
  /\ sem_procesoListo \in Nat /\ sem_CPU \in Nat /\ sem_kmDisponible \in Nat
  /\ disp \in [pc : {"listo1", "cpu", "listo2", "elegir", "km", "buscar", "exec", "enviar"},
               tcb : TCBs, cpu : CPUs \cup {0}]
  /\ hilo \in [Hilos -> [pasos : Seq(STRING), tcb : TCBs, n : 0 .. MaxTID, id : Nat]]
  /\ turno \in [CPUs -> Seq(TCBs)] /\ respuesta \in [CPUs -> Seq(TCBs)]
  /\ fase \in [CPUs -> {"inicio", "espera", "entrada", "contestada", "final"}]
  /\ mensajes \in [CPUs -> Seq(Mensajes)]
  /\ caida \in BOOLEAN

Cuantos(s, P(_)) == Cardinality({i \in DOMAIN s : P(s[i])})
Uno(b) == IF b THEN 1 ELSE 0
Falta(h, paso) == \E i \in DOMAIN hilo[h].pasos : hilo[h].pasos[i] = paso

\* Messages with which a CPU gives its thread back.
esFinal(m) == m.op \in {"finaliza_quantum", "finaliza_ejecucion", "ejecucion_erronea",
                        "interrupcion"}
Despacha == disp.pc \in {"buscar", "exec", "enviar"}

\* Orders of the CPUs and threads they have given back, of those that satisfy P.
EnCPU(P(_)) ==
  Cardinality(UNION {{c} \X {i \in DOMAIN turno[c] : P(turno[c][i])} : c \in CPUs})
  + Cardinality(UNION {{c} \X {i \in DOMAIN mensajes[c] :
                                esFinal(mensajes[c][i]) /\ P(mensajes[c][i].tcb)} : c \in CPUs})

Avisos(h) == IF Falta(h, "encolar") THEN 0
             ELSE Cuantos(hilo[h].pasos, LAMBDA q : q = "avisar")

\* sem_procesoListo against two tokens for each thread in ready and each system call,
\* counting those dispatcher has taken and those still to post.
SaldoListo ==
  sem_procesoListo + Avisos("planificador") + Avisos("loader")
  + (IF disp.pc \in {"cpu", "listo2"} THEN 1
     ELSE IF disp.pc \in {"elegir", "km"} THEN 2 ELSE 0)
  - 2 * (Len(ready) + Len(SYS_CALL))

\* The two agree whatever the order in which tokens and threads come and go; only loader,
\* which waits twice and then removes any number of a console's threads, parts them.
FichasListo ==
  SaldoListo = 0 /\ [][SaldoListo' = SaldoListo \/ EsperarListo \/ MatarReady]_vars

\* sem_CPU: a token for each CPU marked free.
FichasCPU ==
  sem_CPU + Uno(disp.pc \in {"listo2", "elegir", "km", "buscar"})
  + Uno(Falta("planificador", "post") /\ ~ Falta("planificador", "libre"))
  = Cardinality({c \in CPUs : CPU_list[c].estado = "libre"})

\* sem_kmDisponible: the kernel thread executes one system call at a time, and is in
\* block.prioridad_0 when its token says so.
SoloUnKM ==
  ~ caida =>
    /\ sem_kmDisponible + Uno(Despacha /\ disp.tcb.km)
       + Uno(Falta("planificador", "postKM")) + EnCPU(LAMBDA s : s.km) = 1
    /\ sem_kmDisponible = 1 => kms # <<>>

\* A busy CPU has one order, executing or on its way there or back, and a free one none.
UnTurnoPorCPU ==
  \A c \in CPUs :
    Len(turno[c]) + Cuantos(mensajes[c], esFinal)
    + Uno(disp.pc \in {"exec", "enviar"} /\ disp.cpu = c)
    + Uno(hilo["planificador"].id = c /\ Falta("planificador", "libre"))
    = Uno(CPU_list[c].estado = "ocupado")

\* Threads that satisfy P and have not ended, wherever they are.
Vivos(P(_)) ==
  Cuantos(ready, P) + Cuantos(SYS_CALL, P) + EnCPU(P) + Uno(Despacha /\ P(disp.tcb))
  + Cardinality({h \in Hilos : P(hilo[h].tcb)
                   /\ \E paso \in {"encolar", "exit", "finKM"} : Falta(h, paso)})

\* A thread is in one place: no two queues, CPUs or threads of the Kernel have it.
SinDuplicar ==
  \A t \in TIDs : Vivos(LAMBDA s : s.tid = t) + Cuantos(e_exit, LAMBDA s : s.tid = t) <= 1

\* cantidad_hilos, on which the release of a program's memory depends, is the number of
\* its threads that have not ended, until loader starts to remove them: none is lost.
CuentaDeHilos ==
  \A p \in DOMAIN consola_list : consola_list[p].conexion # "liberada" =>
    consola_list[p].cantidad_hilos
    + Uno(Falta("planificador", "contar") /\ hilo["planificador"].tcb.pid = p)
    = Vivos(LAMBDA s : s.pid = p)

\* block.prioridad_1 has exactly the callers of the calls waiting or in execution, so
\* the kernel thread finds its caller.
BloqueadosLlaman ==
  \A t \in TIDs :
    Cuantos(bloq, LAMBDA b : b.tcb.tid = t)
    = Cuantos(SYS_CALL, LAMBDA s : s.tid = t) + EnCPU(LAMBDA s : s.km /\ s.tid = t)
      + Uno(Despacha /\ disp.tcb.km /\ disp.tcb.tid = t)
      + Uno(Falta("planificador", "finKM") /\ hilo["planificador"].tcb.tid = t)

EnReady(t) == \E i \in DOMAIN ready : ready[i].tid = t
Corre(t)   == \E c \in CPUs : EnModo(c, FALSE) /\ Head(turno[c]).tid = t

\* Once there is a CPU a thread in ready gets one, although system calls go first, unless
\* loader releases a console: it may remove the thread or its tokens.
SeDespacha ==
  \A t \in TIDs : (EnReady(t) /\ CPU_list[1].estado # "ausente") ~> Corre(t) \/ ~ SinLiberar

\* A system call ends and its caller goes back to ready, unless loader releases a console,
\* which may take the caller away.
LlamadaVuelve ==
  \A t \in TIDs : (\E i \in DOMAIN SYS_CALL : SYS_CALL[i].tid = t) ~> EnReady(t) \/ ~ SinLiberar

\* Although loader removes the threads of a console that left, a busy CPU is given back,
\* unless the Kernel falls or the CPU waits for what a user, who may be gone, has to type.
CPUVuelve ==
  \A c \in CPUs : CPU_list[c].estado = "ocupado" ~>
                        \/ caida \/ CPU_list[c].estado = "libre"
                        \/ fase[c] \in {"entrada", "contestada"}

\* JOIN "Bloquea el programa que ejecuto la llamada al sistema hasta que el hilo [...]
\* haya finalizado": a thread in hilos_join is not ready, nor does it run, while another
\* one that it waits for has not ended.
JoinBloquea ==
  \A i \in DOMAIN hilos_join :
    LET j == hilos_join[i] IN
    (/\ j.tid \in 1 .. TID /\ j.tid # j.llamador.tid
     /\ \A k \in DOMAIN e_exit : e_exit[k].tid # j.tid)
      => ~ EnReady(j.llamador.tid) /\ ~ Corre(j.llamador.tid)

\* A CPU that ends a quantum "esperara a recibir el TCB del proximo hilo a ejecutar":
\* what it receives is the TCB of a thread, not a block that has been freed.
OrdenIntacta == \A c \in CPUs : \A i \in DOMAIN turno[c] : turno[c][i].pid # 0

\* desconecto_cpu takes a CPU for one with a thread ("LA CPU ESTABA EJECUTANDO UN
\* PROCESO") if it has a PID: a busy CPU has one.
OcupadaConPID == \A c \in CPUs : CPU_list[c].estado = "ocupado" => CPU_list[c].pid # 0

\* "SI LA CONSOLA TIENE HILOS PLANIFICANDOSE O EJECUTANDOSE Y SE DESCONECTA, ABORTAN":
\* once its console is gone, all the threads of a program end.
DesconexionAborta ==
  \A p \in PIDs : (p \in DOMAIN consola_list /\ consola_list[p].conexion = "cerrada")
                    ~> (~ caida /\ Vivos(LAMBDA s : s.pid = p) = 0)

===============================================================================
