------------------------------ MODULE EntradaSalida ------------------------------
(*****************************************************************************)
(* Consoles and the Kernel: how a program is loaded, what it prints and what *)
(* its user types, with the tables that say whose console a socket is.       *)
(*                                                                           *)
(* consola_list keeps an entry for every console that has ever connected: a  *)
(* process is known by the place of its entry.  Threads are known by their   *)
(* TID.  The queues are sets here, and JOIN and the resources are left out:  *)
(* Kernel.tla has them.  The tokens of sem_procesoListo, which loader takes  *)
(* when a console leaves, are kept.                                          *)
(*****************************************************************************)
EXTENDS Integers, SequencesExt, FiniteSetsExt

CONSTANTS
  Consolas,      \* the consoles that are started, 1 .. n in the order they connect
  Descriptores,  \* the descriptors that accept may give them
  CPUs,
  Tamanios,      \* the values of register B in INNC
  Basura,        \* values of the three bytes after id_tipo in the stack
  Largos,        \* the lengths of what a user types
  SeVan,         \* the consoles whose user may leave
  Desconectan,   \* the CPUs that may disconnect
  MaxHilos,      \* bound on the TIDs
  MaxMensajes    \* bound on the messages a console has to read

ASSUME EntradaSalidaAssumption ==
  /\ Consolas \subseteq Nat \ {0} /\ \A k \in Consolas : 1 .. k \subseteq Consolas
  /\ Descriptores \subseteq Nat \ {0}
  /\ Tamanios \subseteq Int /\ Basura \subseteq Int /\ Largos \subseteq Int

VARIABLES
  consola,       \* the processes: [pc, pide]
  aConsola,      \* the messages each one has to read
  aKernel,       \* the messages of each one that loader has to read
  fd,            \* the descriptor of each connection in the Kernel, 0 for none
  rota,          \* the connections whose other end has refused a message
  consola_list,  \* [socket, padre, hilos, termino] by process
  hilo,          \* [pid, programa, estado] by TID; programa is the console that sent it
  km,            \* the thread of kernel mode is "libre" or "ocupado"
  cpu,           \* [pc, TID, PID, pedido, respuesta]
  entrada, mutex_entradaSalida,
  planificador,  \* what it does when it waits for mutex_entradaSalida
  loader,        \* [pc, k, cuenta]: "libre", about to post mutex_entradaSalida, or to
                 \* kill the threads of k's process, for which it waits twice
  fichas, disp,  \* sem_procesoListo, and how many of its tokens dispatcher holds
  caida          \* why the Kernel has ended

usuario == <<consola, aConsola, aKernel>>
tablas  == <<fd, rota, consola_list, hilo, km, cpu>>
pedidos == <<entrada, mutex_entradaSalida, planificador>>
avisos  == <<fichas, disp>>
vars    == <<usuario, tablas, pedidos, loader, avisos, caida>>

Nada  == [op |-> "nada"]
Libre == [pc |-> "libre", TID |-> 0, PID |-> 0, pedido |-> Nada, respuesta |-> Nada]
Ocioso == [pc |-> "libre", k |-> 0, cuenta |-> 0]
Vive  == caida = "no"

Init ==
  /\ consola = [k \in Consolas |-> [pc |-> "no", pide |-> Nada]]
  /\ aConsola = [k \in Consolas |-> <<>>] /\ aKernel = [k \in Consolas |-> <<>>]
  /\ fd = [k \in Consolas |-> 0] /\ rota = {} /\ consola_list = <<>> /\ hilo = <<>>
  /\ km = "libre" /\ cpu = [c \in CPUs |-> Libre]
  /\ entrada = Nada /\ mutex_entradaSalida = 1
  /\ planificador = Nada /\ loader = Ocioso /\ fichas = 0 /\ disp = 0 /\ caida = "no"

-------------------------------------------------------------------------------
(* What the Kernel's threads share *)

\* The console that has now the socket of the process p.
Actual(p) == {k \in Consolas : fd[k] = consola_list[p].socket}

\* enviar_datos, of several packets in turn.  A closed descriptor refuses them; a peer
\* that has gone takes one, and the next one may end the Kernel with SIGPIPE.
Enviar(p, ms) ==
  LET vivas   == {k \in Actual(p) : consola[k].pc # "fuera"}
      muertas == Actual(p) \ vivas
      fatal   == ms # <<>> /\ muertas # {} /\ (Len(ms) > 1 \/ muertas \subseteq rota)
  IN /\ aConsola' = [k \in Consolas |-> IF k \in vivas THEN aConsola[k] \o ms ELSE aConsola[k]]
     /\ rota' = IF ms = <<>> THEN rota ELSE rota \cup muertas
     /\ caida' \in IF fatal THEN {"no", "senal"} ELSE {"no"}

\* sacar_de_ejecucion: the last thread to leave is not told apart, only the father.
EsPadre(c)   == consola_list[cpu[c].PID].padre = cpu[c].TID
Despedida(c) == IF EsPadre(c) THEN <<[op |-> "terminar_conexion", de |-> cpu[c].TID]>> ELSE <<>>
Sacado(c) ==
  [consola_list EXCEPT ![cpu[c].PID].termino = @ \/ EsPadre(c), ![cpu[c].PID].hilos = @ - 1]

-------------------------------------------------------------------------------
(* boot and loader *)

\* accept gives the least free descriptor.  The console sends its program at once.
Conecta(k) ==
  LET libres == Descriptores \ ToSet(fd) IN
  /\ Vive /\ consola[k].pc = "no" /\ libres # {}
  /\ \A j \in Consolas : j < k => consola[j].pc # "no"
  /\ consola' = [consola EXCEPT ![k].pc = "recibe"]
  /\ fd' = [fd EXCEPT ![k] = Min(libres)]
  /\ consola_list' = Append(consola_list, [socket |-> Min(libres), padre |-> 0, hilos |-> 0,
                                           termino |-> FALSE])
  /\ aKernel' = [aKernel EXCEPT ![k] = <<[op |-> "codigo_consola"]>>]
  /\ UNCHANGED <<aConsola, rota, hilo, km, cpu, pedidos, loader, avisos, caida>>

\* Mutant: the console that has just connected.
EntradaUltima(k) == Len(consola_list)

\* obtener_consolaConectada: the first entry with the socket, in use or not.
Entrada(k) == SelectInSeq(consola_list, LAMBDA e : e.socket = fd[k])

LoaderLee(k, op) ==
  /\ Vive /\ loader = Ocioso /\ fd[k] # 0
  /\ aKernel[k] # <<>> /\ Head(aKernel[k]).op = op
  /\ aKernel' = [aKernel EXCEPT ![k] = Tail(@)]

\* A new program; the MSP may refuse its segments.
CodigoConsola(k) ==
  LET e == Entrada(k)
      nuevo(hilos) == [consola_list EXCEPT ![e].padre = Len(hilo) + 1, ![e].hilos = hilos,
                                           ![e].termino = FALSE]
      tcb(estado)  == Append(hilo, [pid |-> e, programa |-> k, estado |-> estado])
  IN /\ LoaderLee(k, "codigo_consola")
     /\ \/ /\ consola_list' = nuevo(1) /\ hilo' = tcb("listo") /\ fichas' = fichas + 2
           /\ UNCHANGED <<aConsola, rota, caida>>
        \/ /\ consola_list' = nuevo(0) /\ hilo' = tcb("exit")
           /\ Enviar(e, <<[op |-> "terminar_conexion", de |-> Len(hilo) + 1]>>)
           /\ UNCHANGED fichas
     /\ UNCHANGED <<consola, fd, km, cpu, pedidos, loader, disp>>

\* devolver_entrada_aCPU, up to its sem_post.
SeProdujoEntrada(k) ==
  /\ LoaderLee(k, "se_produjo_entrada")
  /\ IF cpu[entrada.cpu].pc = "ausente"
     THEN caida' = "nulo" /\ UNCHANGED <<cpu, entrada, loader>>
     ELSE /\ cpu' = [cpu EXCEPT ![entrada.cpu].respuesta = Head(aKernel[k])]
          /\ entrada' = Nada /\ loader' = [Ocioso EXCEPT !.pc = "post"]
          /\ UNCHANGED caida
  /\ UNCHANGED <<consola, aConsola, fd, rota, consola_list, hilo, km, mutex_entradaSalida,
                 planificador, avisos>>

PostEntrada ==
  /\ Vive /\ loader.pc = "post"
  /\ loader' = Ocioso /\ mutex_entradaSalida' = mutex_entradaSalida + 1
  /\ UNCHANGED <<usuario, tablas, entrada, planificador, avisos, caida>>

Listos(e) == {t \in DOMAIN hilo : hilo[t].pid = e /\ hilo[t].estado = "listo"}

\* What loader does when it leaves the console k, whose process is now in lista.
Desliga(k, lista) ==
  /\ consola_list' = lista
  /\ aKernel' = [aKernel EXCEPT ![k] = <<>>]
  /\ fd' = [fd EXCEPT ![k] = 0] /\ rota' = rota \ {k}
  /\ loader' = Ocioso

\* The console has gone: liberar_recursos, and matar_hijos when its process has threads.
FinConsola(k) ==
  LET e        == Entrada(k)
      acabado  == [consola_list EXCEPT ![e].termino = TRUE]
  IN /\ Vive /\ loader = Ocioso /\ fd[k] # 0
     /\ consola[k].pc = "fuera" /\ aKernel[k] \in {<<>>, <<[op |-> "fin"]>>}
     /\ IF consola_list[e].hilos <= 0 THEN Desliga(k, acabado)
        ELSE /\ consola_list' = acabado
             /\ loader' = [pc |-> "espera1", k |-> k, cuenta |-> Cardinality(Listos(e))]
             /\ UNCHANGED <<aKernel, fd, rota>>
     /\ UNCHANGED <<consola, aConsola, hilo, km, cpu, pedidos, avisos, caida>>

LoaderEspera ==
  /\ Vive /\ loader.pc \in {"espera1", "espera2"} /\ fichas > 0
  /\ fichas' = fichas - 1
  /\ loader' = [loader EXCEPT !.pc = IF loader.pc = "espera1" THEN "espera2" ELSE "mata"]
  /\ UNCHANGED <<usuario, tablas, pedidos, disp, caida>>

\* As many ready threads as it counted and the blocked ones; a ready one that is there no
\* more, or one that waits in SYS_CALL, ends the Kernel.
Mata ==
  LET e          == Entrada(loader.k)
      estan(est) == {t \in DOMAIN hilo : hilo[t].pid = e /\ hilo[t].estado = est}
  IN /\ Vive /\ loader.pc = "mata"
     /\ IF Cardinality(Listos(e)) < loader.cuenta \/ estan("llama") # {}
        THEN caida' = "nulo" /\ UNCHANGED <<hilo, consola_list, aKernel, fd, rota, loader>>
        ELSE \E s \in kSubset(loader.cuenta, Listos(e)) : LET mueren == s \cup estan("km") IN
               /\ hilo' = [t \in DOMAIN hilo |->
                             IF t \in mueren THEN [hilo[t] EXCEPT !.estado = "exit"] ELSE hilo[t]]
               /\ Desliga(loader.k,
                          [consola_list EXCEPT ![e].hilos = @ - Cardinality(mueren)])
               /\ UNCHANGED caida
     /\ UNCHANGED <<consola, aConsola, km, cpu, pedidos, avisos>>

-------------------------------------------------------------------------------
(* The CPUs, dispatcher and planificador *)

PlanificadorLibre == Vive /\ planificador = Nada

\* dispatcher takes a token, waits for a free CPU and takes another one.
EsperaFicha ==
  /\ Vive /\ fichas > 0
  /\ disp = 0 \/ (disp = 1 /\ \E c \in CPUs : cpu[c].pc = "libre")
  /\ fichas' = fichas - 1 /\ disp' = disp + 1
  /\ UNCHANGED <<usuario, tablas, pedidos, loader, caida>>

HayLlamadas == \E t \in DOMAIN hilo : hilo[t].estado = "llama"

\* Takes the thread t, in state estado, and sends it to the CPU c in mode modo.
Despacha(c, t, estado, modo) ==
  /\ Vive /\ disp = 2 /\ cpu[c].pc = "libre" /\ hilo[t].estado = estado
  /\ disp' = 0
  /\ hilo' = [hilo EXCEPT ![t].estado = IF modo = "km" THEN "km" ELSE "cpu"]
  /\ cpu' = [cpu EXCEPT ![c] = [Libre EXCEPT !.pc = modo, !.TID = t, !.PID = hilo[t].pid]]
  /\ UNCHANGED <<usuario, fd, rota, consola_list, pedidos, loader, fichas, caida>>

DespachaHilo(c, t) == ~ HayLlamadas /\ Despacha(c, t, "listo", "usuario") /\ UNCHANGED km

\* sacar_de_ready finds nobody: loader has taken the thread's place and not its token.
DespachaNadie ==
  /\ Vive /\ disp = 2 /\ \A t \in DOMAIN hilo : hilo[t].estado \notin {"listo", "llama"}
  /\ caida' = "nulo"
  /\ UNCHANGED <<usuario, tablas, pedidos, loader, avisos>>

\* Mutant: the thread of kernel mode is taken without waiting for it.
AtiendeSinEsperar(c, t) == km' = "ocupado" /\ Despacha(c, t, "llama", "km")

Atiende(c, t) == km = "libre" /\ km' = "ocupado" /\ Despacha(c, t, "llama", "km")

\* INTE: interrumpir, and the CPU is free.
Interrupcion(c) ==
  /\ PlanificadorLibre /\ cpu[c].pc = "usuario"
  /\ hilo' = [hilo EXCEPT ![cpu[c].TID].estado = "llama"]
  /\ cpu' = [cpu EXCEPT ![c] = Libre]
  /\ fichas' = fichas + 2
  /\ UNCHANGED <<usuario, fd, rota, consola_list, km, pedidos, loader, disp, caida>>

\* CREA: another thread of the process.
CrearHilo(c) ==
  /\ PlanificadorLibre /\ cpu[c].pc = "km" /\ Len(hilo) < MaxHilos
  /\ hilo' = Append(hilo, [pid |-> cpu[c].PID, programa |-> hilo[cpu[c].TID].programa,
                           estado |-> "listo"])
  /\ consola_list' = [consola_list EXCEPT ![cpu[c].PID].hilos = @ + 1]
  /\ fichas' = fichas + 2
  /\ UNCHANGED <<usuario, fd, rota, km, cpu, pedidos, loader, disp, caida>>

Cabe(c) == \A k \in Actual(cpu[c].PID) : Len(aConsola[k]) < MaxMensajes

\* OUTN and OUTC.
SalidaEstandar(c) ==
  /\ PlanificadorLibre /\ cpu[c].pc = "km" /\ Cabe(c)
  /\ Enviar(cpu[c].PID, <<[op |-> "imprimir_en_pantalla", de |-> cpu[c].TID]>>)
  /\ UNCHANGED <<consola, aKernel, fd, consola_list, hilo, km, cpu, pedidos, loader, avisos>>

\* INNN and INNC: planificador is going to wait for mutex_entradaSalida.
EntradaEstandar(c) ==
  /\ PlanificadorLibre /\ cpu[c].pc = "km" /\ Cabe(c)
  /\ \E pedido \in {[tipo |-> "N", tamanio |-> 4]} \cup [tipo : {"C"}, tamanio : Tamanios] :
       cpu' = [cpu EXCEPT ![c].pc = "espera", ![c].pedido = pedido]
  /\ planificador' = [op |-> "entrada_estandar", cpu |-> c]
  /\ UNCHANGED <<usuario, fd, rota, consola_list, hilo, km, entrada, mutex_entradaSalida,
                 loader, avisos, caida>>

\* The type goes with the three bytes next to it, and the size after them.
ProducirEntrada ==
  LET c == planificador.cpu IN
  /\ Vive /\ planificador # Nada /\ mutex_entradaSalida > 0
  /\ mutex_entradaSalida' = mutex_entradaSalida - 1
  /\ entrada' = [op |-> "entrada", cpu |-> c]
  /\ planificador' = Nada
  /\ \E b \in Basura :
       Enviar(cpu[c].PID, <<[op |-> "ingresar_cadena", de |-> cpu[c].TID,
                             pedido |-> cpu[c].pedido, basura |-> b]>>)
  /\ UNCHANGED <<consola, aKernel, fd, consola_list, hilo, km, cpu, loader, avisos>>

\* Mutant: the answer is left where it was.
DevolucionSinLeer(c) ==
  /\ Vive /\ cpu[c].pc = "espera" /\ cpu[c].respuesta # Nada
  /\ cpu' = [cpu EXCEPT ![c].pc = "km", ![c].pedido = Nada]
  /\ UNCHANGED <<usuario, fd, rota, consola_list, hilo, km, pedidos, loader, avisos, caida>>

\* The CPU reads devolucion_cadena and goes on.
DevolucionCadena(c) ==
  /\ Vive /\ cpu[c].pc = "espera" /\ cpu[c].respuesta # Nada
  /\ cpu' = [cpu EXCEPT ![c].pc = "km", ![c].pedido = Nada, ![c].respuesta = Nada]
  /\ UNCHANGED <<usuario, fd, rota, consola_list, hilo, km, pedidos, loader, avisos, caida>>

\* finalizo_ejecucion in kernel mode: the caller must be in the list of blocked ones.
FinLlamada(c) ==
  LET t == cpu[c].TID IN
  /\ PlanificadorLibre /\ cpu[c].pc = "km"
  /\ IF hilo[t].estado = "km"
     THEN /\ hilo' = [hilo EXCEPT ![t].estado = "listo"] /\ km' = "libre"
          /\ fichas' = fichas + 2
          /\ UNCHANGED caida
     ELSE caida' = "exit" /\ UNCHANGED <<hilo, km, fichas>>
  /\ cpu' = [cpu EXCEPT ![c] = Libre]
  /\ UNCHANGED <<usuario, fd, rota, consola_list, pedidos, loader, disp>>

\* The end of a thread, or of its quantum once its process has ended.
Finaliza(c) ==
  /\ PlanificadorLibre /\ cpu[c].pc = "usuario"
  /\ Enviar(cpu[c].PID, Despedida(c))
  /\ consola_list' = Sacado(c)
  /\ hilo' = [hilo EXCEPT ![cpu[c].TID].estado = "exit"]
  /\ cpu' = [cpu EXCEPT ![c] = Libre]
  /\ UNCHANGED <<consola, aKernel, fd, km, pedidos, loader, avisos>>

FinQuantum(c) ==
  /\ PlanificadorLibre /\ cpu[c].pc = "usuario" /\ ~ consola_list[cpu[c].PID].termino
  /\ hilo' = [hilo EXCEPT ![cpu[c].TID].estado = "listo"]
  /\ cpu' = [cpu EXCEPT ![c] = Libre]
  /\ fichas' = fichas + 2
  /\ UNCHANGED <<usuario, fd, rota, consola_list, km, pedidos, loader, disp, caida>>

\* desconecto_cpu of a busy CPU.  In kernel mode it ends every program and the Kernel,
\* but for a process that has ended it only removes the thread of kernel mode.
DesconectoCPU(c) ==
  LET p     == cpu[c].PID
      aviso == [op |-> "se_desconecto_cpu", de |-> cpu[c].TID]
      enKM  == cpu[c].pc \in {"km", "espera"}
  IN /\ PlanificadorLibre /\ c \in Desconectan /\ cpu[c].pc \in {"usuario", "km", "espera"}
     /\ cpu' = [cpu EXCEPT ![c] = [Libre EXCEPT !.pc = "ausente"]]
     /\ IF enKM /\ ~ consola_list[p].termino
        THEN /\ aConsola' = [k \in Consolas |-> IF fd[k] = 0 THEN aConsola[k]
                                                ELSE Append(aConsola[k], aviso)]
             /\ caida' = "exit"
             /\ UNCHANGED <<rota, consola_list, hilo>>
        ELSE /\ Enviar(p, (IF consola_list[p].termino THEN <<>> ELSE <<aviso>>) \o Despedida(c))
             /\ consola_list' = Sacado(c)
             /\ hilo' = IF enKM THEN hilo ELSE [hilo EXCEPT ![cpu[c].TID].estado = "exit"]
     /\ UNCHANGED <<consola, aKernel, fd, km, pedidos, loader, avisos>>

-------------------------------------------------------------------------------
(* The console: its loop, and evaluar_ingreso *)

Lee(k) == Vive /\ consola[k].pc = "recibe" /\ aConsola[k] # <<>>

\* imprimir_en_pantalla, ingresar_cadena, and the two that end it.
Recibe(k) ==
  LET m == Head(aConsola[k]) IN
  /\ Lee(k)
  /\ aConsola' = [aConsola EXCEPT ![k] = Tail(@)]
  /\ CASE m.op = "imprimir_en_pantalla" -> UNCHANGED <<consola, aKernel>>
       [] m.op = "ingresar_cadena" ->
            /\ consola' = [consola EXCEPT ![k] = [pc |-> "ingresa", pide |-> m]]
            /\ UNCHANGED aKernel
       [] m.op \in {"terminar_conexion", "se_desconecto_cpu"} ->
            /\ consola' = [consola EXCEPT ![k].pc = "fuera"]
            /\ aKernel' = [aKernel EXCEPT ![k] = Append(@, [op |-> "fin"])]
  /\ UNCHANGED <<tablas, pedidos, loader, avisos, caida>>

\* segunda_letra is read one byte after the type: three bytes of rubbish and the low
\* byte of the size, in an int.
Limite(m) ==
  LET alto == m.pedido.tamanio % 256 IN
  m.basura + 2 ^ 24 * IF alto < 128 THEN alto ELSE alto - 256

Responde(k, largo) ==
  /\ consola' = [consola EXCEPT ![k] = [pc |-> "recibe", pide |-> Nada]]
  /\ aKernel' = [aKernel EXCEPT ![k] = Append(@, [op |-> "se_produjo_entrada", de |-> k,
                                                  pedido |-> consola[k].pide.pedido,
                                                  largo |-> largo])]

\* A console that leaves messages unread resets its connection, and what the Kernel had
\* still to read from it may be lost.
Muere(k) ==
  /\ consola' = [consola EXCEPT ![k].pc = "fuera"]
  /\ \/ UNCHANGED aKernel
     \/ aConsola[k] # <<>> /\ aKernel' = [aKernel EXCEPT ![k] = <<>>]

IngresarNumero(k) ==
  /\ Vive /\ consola[k].pc = "ingresa" /\ consola[k].pide.pedido.tipo = "N"
  /\ Responde(k, 4)
  /\ UNCHANGED <<aConsola, tablas, pedidos, loader, avisos, caida>>

\* A string is cut to the limit, after it has been read whatever its length.  For a limit
\* below 0 there is no memory, and for 0 no string is valid.
IngresarCadena(k, largo) ==
  LET limite == Limite(consola[k].pide) IN
  /\ Vive /\ consola[k].pc = "ingresa" /\ consola[k].pide.pedido.tipo = "C"
  /\ \/ limite < 0 /\ Muere(k)
     \/ limite > 0 /\ Responde(k, Min({largo, limite}))
     \/ limite >= 0 /\ largo > limite /\ Muere(k)
  /\ UNCHANGED <<aConsola, tablas, pedidos, loader, avisos, caida>>

\* The user leaves.
SeVa(k) ==
  /\ Vive /\ k \in SeVan /\ consola[k].pc \in {"recibe", "ingresa"}
  /\ Muere(k)
  /\ UNCHANGED <<aConsola, tablas, pedidos, loader, avisos, caida>>

-------------------------------------------------------------------------------

Consola(k) ==
  \/ Conecta(k) \/ Recibe(k) \/ IngresarNumero(k) \/ SeVa(k)
  \/ \E largo \in Largos : IngresarCadena(k, largo)

Loader ==
  \/ PostEntrada \/ LoaderEspera \/ Mata
  \/ \E k \in Consolas : CodigoConsola(k) \/ SeProdujoEntrada(k) \/ FinConsola(k)

Dispatcher ==
  \/ EsperaFicha \/ DespachaNadie
  \/ \E c \in CPUs, t \in DOMAIN hilo : DespachaHilo(c, t) \/ Atiende(c, t)

CPU(c) ==
  \/ Interrupcion(c) \/ CrearHilo(c) \/ SalidaEstandar(c) \/ EntradaEstandar(c)
  \/ DevolucionCadena(c) \/ FinLlamada(c) \/ Finaliza(c) \/ FinQuantum(c) \/ DesconectoCPU(c)

Next ==
  \/ ProducirEntrada \/ Loader \/ Dispatcher
  \/ \E k \in Consolas : Consola(k)
  \/ \E c \in CPUs : CPU(c)

Spec == Init /\ [][Next]_vars

\* loader and planificador run while they have something to do; a CPU reads its answer
\* and a console its messages.  Nothing is asked of the users.
FairSpec ==
  /\ Spec
  /\ WF_vars(ProducirEntrada) /\ WF_vars(Loader)
  /\ \A c \in CPUs : WF_vars(DevolucionCadena(c))
  /\ \A k \in Consolas : WF_vars(Recibe(k))

-------------------------------------------------------------------------------
(* Properties *)

\* bytecodes.txt says of INNN, INNC, OUTN and OUTC that they are "por consola del programa":
\* what a console shows, and what it asks its user, comes from a thread of its program.
PantallaPropia ==
  \A k \in Consolas : consola[k].pc # "fuera" =>
    \A m \in ToSet(aConsola[k]) \cup {consola[k].pide} :
      m.op \in {"imprimir_en_pantalla", "ingresar_cadena"} => hilo[m.de].programa = k

\* No socket is in two entries of consola_list: nobody has connected after a console left.
SinRepetir == \A p, q \in DOMAIN consola_list :
                consola_list[p].socket = consola_list[q].socket => p = q

\* Until a descriptor is used again each console talks to its own program, and so does
\* its end: the sockets of consola_list, fd and the threads agree while consoles come and
\* go, threads outlive them, and answers cross the end of a program.
SesionPropia ==
  SinRepetir =>
  /\ PantallaPropia
  /\ \A k \in Consolas : consola[k].pc = "recibe" => \A m \in ToSet(aConsola[k]) :
       m.op = "terminar_conexion" => hilo[m.de].programa = k /\ hilo[m.de].pid = k

\* The answer that reaches a CPU was typed in the console of its thread's program, and
\* for the request it waits with; and loader looks for the CPU of the request it answers.
RespuestaPropia ==
  \A c \in CPUs : cpu[c].respuesta # Nada =>
    /\ cpu[c].pc = "espera"
    /\ cpu[c].respuesta.pedido = cpu[c].pedido
    /\ SinRepetir => cpu[c].respuesta.de = hilo[cpu[c].TID].programa

\* A CPU that waits for input gets it, unless its user does not answer or has gone, or
\* loader waits for tokens to kill the threads of a console that left: planificador, which
\* serves nobody while it waits for mutex_entradaSalida, does not wait for another user.
EntradaVuelve ==
  \A c \in CPUs :
    (cpu[c].pc = "espera") ~>
      (\/ cpu[c].pc # "espera" \/ ~ Vive
       \/ loader.pc \in {"espera1", "espera2"}
       \/ consola[hilo[cpu[c].TID].programa].pc \in {"ingresa", "fuera"})
================================================================================
