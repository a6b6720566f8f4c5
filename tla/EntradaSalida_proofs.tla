--------------------------- MODULE EntradaSalida_proofs ---------------------------
(*****************************************************************************)
(* The proofs about EntradaSalida: whose console a thread talks to, and to   *)
(* which request an answer belongs.                                          *)
(*                                                                           *)
(* IInv ties what no handler sees together.  Conectadas: the consoles, their *)
(* descriptors and consola_list.  Hilos: the entry that a thread and a CPU   *)
(* name.  Mensajes: what a console has to read comes from a thread of its    *)
(* program.  Turno: mutex_entradaSalida, entrada and the CPUs that wait.     *)
(* Pedido: at most one request is on its way through the messages, the user  *)
(* and the answers, and it is the one entrada stands for.  Most steps add    *)
(* nothing to the messages but words, and no request moves; each of the      *)
(* others takes it one place further.                                        *)
(*****************************************************************************)
EXTENDS EntradaSalida, FiniteSetTheorems, SequenceTheorems, Lemas, TLAPS

Pedidos     == [tipo : {"N"}, tamanio : {4}] \cup [tipo : {"C"}, tamanio : Tamanios]
Solicitudes == [op : {"ingresar_cadena"}, de : Nat, pedido : Pedidos, basura : Basura]
Avisos      == [op : {"imprimir_en_pantalla", "terminar_conexion", "se_desconecto_cpu"},
                de : Nat]
Respuestas  == [op : {"se_produjo_entrada"}, de : Consolas, pedido : Pedidos, largo : Int]
AlUsuario   == Avisos \cup Solicitudes
AlKernel    == [op : {"codigo_consola", "fin"}] \cup Respuestas
Entradas    == [socket : Descriptores, padre : Nat, hilos : Int, termino : BOOLEAN]
TCBs        == [pid : Nat, programa : Consolas,
                estado : {"listo", "llama", "cpu", "km", "exit"}]
Turnos      == [pc : {"libre", "usuario", "km", "espera", "ausente"}, TID : Nat, PID : Nat,
                pedido : Pedidos \cup {Nada}, respuesta : Respuestas \cup {Nada}]

TypeOK ==
  /\ consola \in [Consolas -> [pc : {"no", "recibe", "ingresa", "fuera"},
                               pide : Solicitudes \cup {Nada}]]
  /\ aConsola \in [Consolas -> Seq(AlUsuario)]
  /\ aKernel \in [Consolas -> Seq(AlKernel)]
  /\ fd \in [Consolas -> Descriptores \cup {0}]
  /\ rota \subseteq Consolas
  /\ consola_list \in Seq(Entradas)
  /\ hilo \in Seq(TCBs)
  /\ km \in {"libre", "ocupado"}
  /\ cpu \in [CPUs -> Turnos]
  /\ entrada \in {Nada} \cup [op : {"entrada"}, cpu : CPUs]
  /\ mutex_entradaSalida \in Nat
  /\ planificador \in {Nada} \cup [op : {"entrada_estandar"}, cpu : CPUs]
  /\ loader \in [pc : {"libre", "post", "espera1", "espera2", "mata"},
                 k : Consolas \cup {0}, cuenta : Nat]
  /\ fichas \in Nat /\ disp \in 0 .. 2
  /\ caida \in {"no", "senal", "nulo", "exit"}

\* The consoles that have connected have the first entries of consola_list, each the one
\* of its place, and the descriptor of a connection is that of its entry and nobody else's.
\* The console whose threads loader is going to kill has one yet.
Conectadas ==
  /\ \A k \in Consolas : consola[k].pc # "no" <=> k \in DOMAIN consola_list
  /\ \A k \in Consolas :
       fd[k] # 0 => k \in DOMAIN consola_list /\ fd[k] = consola_list[k].socket
  /\ \A k, j \in Consolas : fd[k] # 0 /\ fd[k] = fd[j] => k = j
  /\ loader.pc \in {"espera1", "espera2", "mata"} => loader.k \in Consolas /\ fd[loader.k] # 0

Ocupada == {"usuario", "km", "espera"}

\* A thread belongs to an entry, its program's until a descriptor is used again; and a CPU
\* knows the thread it has, and its process.
Hilos ==
  /\ \A t \in DOMAIN hilo : /\ hilo[t].pid \in DOMAIN consola_list
                            /\ SinRepetir => hilo[t].programa = hilo[t].pid
  /\ \A c \in CPUs : cpu[c].pc \in Ocupada =>
       cpu[c].TID \in DOMAIN hilo /\ cpu[c].PID = hilo[cpu[c].TID].pid

DeSuPrograma(k, m) ==
  m.op \in {"imprimir_en_pantalla", "ingresar_cadena", "terminar_conexion"} =>
    m.de \in DOMAIN hilo /\ hilo[m.de].programa = k /\ hilo[m.de].pid = k

\* What a console has to read, and what it asks its user, comes from its own program.
Mensajes ==
  /\ SinRepetir => \A k \in Consolas :
       /\ \A i \in DOMAIN aConsola[k] : DeSuPrograma(k, aConsola[k][i])
       /\ DeSuPrograma(k, consola[k].pide)
  /\ \A k \in Consolas : consola[k].pc = "ingresa" => consola[k].pide \in Solicitudes

\* Where a request for input may be: in the connection to the console k, before its user,
\* or answered in the connection back.
Lugares == {"consola", "usuario", "kernel"}

Pendiente(l, k, i) ==
  \/ l = "consola" /\ i \in DOMAIN aConsola[k] /\ aConsola[k][i].op = "ingresar_cadena"
  \/ l = "usuario" /\ i = 1 /\ consola[k].pc = "ingresa"
  \/ l = "kernel" /\ i \in DOMAIN aKernel[k] /\ aKernel[k][i].op = "se_produjo_entrada"

Mensaje(l, k, i) ==
  IF l = "consola" THEN aConsola[k][i] ELSE IF l = "usuario" THEN consola[k].pide
                                       ELSE aKernel[k][i]

Unico ==
  \A l1, l2 \in Lugares, k1, k2 \in Consolas, i1, i2 \in Nat :
    Pendiente(l1, k1, i1) /\ Pendiente(l2, k2, i2) => l1 = l2 /\ k1 = k2 /\ i1 = i2

\* A request on its way is the one of the CPU of entrada, in the console of its program.
Encaja(l, k, i) ==
  /\ entrada # Nada
  /\ l = "kernel" => Mensaje(l, k, i).de = k
  /\ cpu[entrada.cpu].pc = "espera" =>
       /\ Mensaje(l, k, i).pedido = cpu[entrada.cpu].pedido
       /\ SinRepetir => k = hilo[cpu[entrada.cpu].TID].programa

\* mutex_entradaSalida lets one request in; planificador and entrada are of CPUs that wait
\* without an answer, not the same.
Turno ==
  /\ mutex_entradaSalida = IF entrada # Nada \/ loader.pc = "post" THEN 0 ELSE 1
  /\ ~ (entrada # Nada /\ loader.pc = "post")
  /\ planificador # Nada =>
       /\ cpu[planificador.cpu].pc = "espera" /\ cpu[planificador.cpu].respuesta = Nada
       /\ cpu[planificador.cpu].pedido \in Pedidos
  /\ entrada # Nada =>
       /\ cpu[entrada.cpu].pc \in {"espera", "ausente"} /\ cpu[entrada.cpu].respuesta = Nada
       /\ planificador # Nada => planificador.cpu # entrada.cpu

Pedido ==
  /\ Turno
  /\ Unico
  /\ \A l \in Lugares, k \in Consolas, i \in Nat : Pendiente(l, k, i) => Encaja(l, k, i)

IInv == TypeOK /\ Conectadas /\ Hilos /\ Mensajes /\ Pedido /\ RespuestaPropia

-------------------------------------------------------------------------------
(* The connections *)

Estados == {"listo", "llama", "cpu", "km", "exit"}

\* obtener_consolaConectada finds an entry with the socket, the console's own as long as
\* no socket is in two entries.
LEMMA EntradaDeConsola ==
  ASSUME TypeOK, Conectadas, NEW k \in Consolas, fd[k] # 0
  PROVE  /\ Entrada(k) \in DOMAIN consola_list
         /\ SinRepetir => Entrada(k) = k
<1> DEFINE I == {p \in 1 .. Len(consola_list) : consola_list[p].socket = fd[k]}
<1>1. Len(consola_list) \in Nat /\ DOMAIN consola_list = 1 .. Len(consola_list)
  BY DEF TypeOK
<1>2. k \in I
  BY <1>1 DEF Conectadas
<1>3. Entrada(k) = Min(I)
  BY <1>2 DEF Entrada, SelectInSeq
<1>4. Min(I) \in I
  BY <1>1, <1>2, MinDeIndices
<1>5. SinRepetir => Min(I) = k
  BY <1>1, <1>2, <1>4 DEF SinRepetir
<1> QED
  BY <1>1, <1>3, <1>4, <1>5

\* A message for a process goes to one console at most, its own as long as no socket is
\* in two entries.
LEMMA UnSoloDestino ==
  ASSUME TypeOK, Conectadas, NEW p \in DOMAIN consola_list, NEW k \in Actual(p)
  PROVE  /\ k \in Consolas /\ \A j \in Actual(p) : j = k
         /\ SinRepetir => k = p
<1>1. consola_list[p].socket \in Descriptores
  <2>1. consola_list[p] \in Entradas
    BY DEF TypeOK
  <2> QED
    BY <2>1 DEF Entradas
<1>2. consola_list[p].socket # 0
  BY <1>1, EntradaSalidaAssumption
<1>3. k \in Consolas /\ fd[k] = consola_list[p].socket /\ fd[k] # 0
  BY <1>2 DEF Actual
<1>4. \A j \in Actual(p) : j = k
  BY <1>3 DEF Actual, Conectadas
<1> QED
  BY <1>3, <1>4 DEF Conectadas, SinRepetir

\* What enviar_datos does to the connections of the consoles.
LEMMA LoEnviado ==
  ASSUME TypeOK, Conectadas, NEW p, NEW ms \in Seq(AlUsuario), Enviar(p, ms)
  PROVE  /\ aConsola' \in [Consolas -> Seq(AlUsuario)]
         /\ rota' \subseteq Consolas /\ caida' \in {"no", "senal"}
         /\ \A k \in Consolas : \/ aConsola'[k] = aConsola[k]
                                \/ k \in Actual(p) /\ aConsola'[k] = aConsola[k] \o ms
<1>1. Actual(p) \subseteq Consolas
  BY DEF Actual
<1>2. rota' \subseteq Consolas
  BY <1>1 DEF Enviar, TypeOK
<1>3. \A k \in Consolas : aConsola[k] \in Seq(AlUsuario)
  BY DEF TypeOK
<1>4. \A k \in Consolas : aConsola[k] \o ms \in Seq(AlUsuario)
  BY <1>3
<1>5. aConsola' \in [Consolas -> Seq(AlUsuario)]
  BY <1>3, <1>4 DEF Enviar
<1>6. ASSUME NEW k \in Consolas
      PROVE  \/ aConsola'[k] = aConsola[k]
             \/ k \in Actual(p) /\ aConsola'[k] = aConsola[k] \o ms
  BY DEF Enviar
<1>7. caida' \in {"no", "senal"}
  BY DEF Enviar
<1> QED
  BY <1>2, <1>5, <1>6, <1>7

\* One message in a list of its own.
LEMMA UnMensaje ==
  ASSUME NEW S, NEW m \in S
  PROVE  <<m>> \in Seq(S) /\ Len(<<m>>) = 1 /\ <<m>>[1] = m
OBVIOUS

-------------------------------------------------------------------------------
(* The types, and what never changes *)

\* Entries keep their sockets, and threads their process and their program.
Estables ==
  /\ \A p \in DOMAIN consola_list :
       p \in DOMAIN consola_list' /\ consola_list'[p].socket = consola_list[p].socket
  /\ \A t \in DOMAIN hilo : /\ t \in DOMAIN hilo'
                            /\ hilo'[t].pid = hilo[t].pid
                            /\ hilo'[t].programa = hilo[t].programa

\* A list with one place changed, or none.
LEMMA UnLugarCambiado ==
  ASSUME NEW S, NEW s \in Seq(S), NEW e, NEW x, e \in DOMAIN s => x \in S
  PROVE  /\ [s EXCEPT ![e] = x] \in Seq(S)
         /\ DOMAIN [s EXCEPT ![e] = x] = DOMAIN s
         /\ \A p \in DOMAIN s : [s EXCEPT ![e] = x][p] = IF p = e THEN x ELSE s[p]
<1>1. s \in [1 .. Len(s) -> S] /\ Len(s) \in Nat
  OBVIOUS
<1>2. [s EXCEPT ![e] = x] \in [1 .. Len(s) -> S]
  BY <1>1
<1>3. [s EXCEPT ![e] = x] \in Seq(S)
  BY <1>1, <1>2, SeqDef
<1> QED
  BY <1>3

\* The three fields of an entry that the handlers change.
LEMMA CampoDeEntrada ==
  ASSUME NEW s \in Seq(Entradas), NEW e, NEW n \in Int, NEW b \in BOOLEAN, NEW t \in Nat
  PROVE  /\ [s EXCEPT ![e].hilos = n] \in Seq(Entradas)
         /\ [s EXCEPT ![e].termino = b] \in Seq(Entradas)
         /\ [s EXCEPT ![e].padre = t] \in Seq(Entradas)
         /\ \A p \in DOMAIN s : /\ [s EXCEPT ![e].hilos = n][p].socket = s[p].socket
                                /\ [s EXCEPT ![e].termino = b][p].socket = s[p].socket
                                /\ [s EXCEPT ![e].padre = t][p].socket = s[p].socket
         /\ DOMAIN [s EXCEPT ![e].hilos = n] = DOMAIN s
         /\ DOMAIN [s EXCEPT ![e].termino = b] = DOMAIN s
         /\ DOMAIN [s EXCEPT ![e].padre = t] = DOMAIN s
<1>1. \A p \in DOMAIN s : s[p] \in Entradas
  OBVIOUS
<1>2. \A r \in Entradas : /\ [r EXCEPT !.hilos = n] \in Entradas
                          /\ [r EXCEPT !.termino = b] \in Entradas
                          /\ [r EXCEPT !.padre = t] \in Entradas
                          /\ [r EXCEPT !.hilos = n].socket = r.socket
                          /\ [r EXCEPT !.termino = b].socket = r.socket
                          /\ [r EXCEPT !.padre = t].socket = r.socket
  BY DEF Entradas
<1>3. e \in DOMAIN s => /\ [s[e] EXCEPT !.hilos = n] \in Entradas
                        /\ [s[e] EXCEPT !.termino = b] \in Entradas
                        /\ [s[e] EXCEPT !.padre = t] \in Entradas
  BY <1>1, <1>2
<1>4. /\ [s EXCEPT ![e].hilos = n] = [s EXCEPT ![e] = [s[e] EXCEPT !.hilos = n]]
      /\ [s EXCEPT ![e].termino = b] = [s EXCEPT ![e] = [s[e] EXCEPT !.termino = b]]
      /\ [s EXCEPT ![e].padre = t] = [s EXCEPT ![e] = [s[e] EXCEPT !.padre = t]]
  OBVIOUS
<1>5. /\ [s EXCEPT ![e] = [s[e] EXCEPT !.hilos = n]] \in Seq(Entradas)
      /\ \A p \in DOMAIN s : [s EXCEPT ![e] = [s[e] EXCEPT !.hilos = n]][p].socket = s[p].socket
      /\ DOMAIN [s EXCEPT ![e] = [s[e] EXCEPT !.hilos = n]] = DOMAIN s
  BY <1>1, <1>2, <1>3, UnLugarCambiado
<1>6. /\ [s EXCEPT ![e] = [s[e] EXCEPT !.termino = b]] \in Seq(Entradas)
      /\ \A p \in DOMAIN s : [s EXCEPT ![e] = [s[e] EXCEPT !.termino = b]][p].socket = s[p].socket
      /\ DOMAIN [s EXCEPT ![e] = [s[e] EXCEPT !.termino = b]] = DOMAIN s
  BY <1>1, <1>2, <1>3, UnLugarCambiado
<1>7. /\ [s EXCEPT ![e] = [s[e] EXCEPT !.padre = t]] \in Seq(Entradas)
      /\ \A p \in DOMAIN s : [s EXCEPT ![e] = [s[e] EXCEPT !.padre = t]][p].socket = s[p].socket
      /\ DOMAIN [s EXCEPT ![e] = [s[e] EXCEPT !.padre = t]] = DOMAIN s
  BY <1>1, <1>2, <1>3, UnLugarCambiado
<1> QED
  BY <1>4, <1>5, <1>6, <1>7

\* The state of a thread.
LEMMA EstadoDeHilo ==
  ASSUME NEW s \in Seq(TCBs), NEW t, NEW x \in Estados
  PROVE  /\ [s EXCEPT ![t].estado = x] \in Seq(TCBs)
         /\ DOMAIN [s EXCEPT ![t].estado = x] = DOMAIN s
         /\ \A h \in DOMAIN s : /\ [s EXCEPT ![t].estado = x][h].pid = s[h].pid
                                /\ [s EXCEPT ![t].estado = x][h].programa = s[h].programa
<1>1. \A h \in DOMAIN s : s[h] \in TCBs
  OBVIOUS
<1>2. \A r \in TCBs : /\ [r EXCEPT !.estado = x] \in TCBs
                      /\ [r EXCEPT !.estado = x].pid = r.pid
                      /\ [r EXCEPT !.estado = x].programa = r.programa
  BY DEF TCBs, Estados
<1>3. t \in DOMAIN s => [s[t] EXCEPT !.estado = x] \in TCBs
  BY <1>1, <1>2
<1>4. [s EXCEPT ![t].estado = x] = [s EXCEPT ![t] = [s[t] EXCEPT !.estado = x]]
  OBVIOUS
<1> QED
  BY <1>1, <1>2, <1>3, <1>4, UnLugarCambiado

\* An entry in place of another with the same socket.
LEMMA OtraEntrada ==
  ASSUME NEW s \in Seq(Entradas), NEW e \in DOMAIN s, NEW x \in Entradas,
         x.socket = s[e].socket
  PROVE  /\ [s EXCEPT ![e] = x] \in Seq(Entradas) /\ DOMAIN [s EXCEPT ![e] = x] = DOMAIN s
         /\ \A p \in DOMAIN s : [s EXCEPT ![e] = x][p].socket = s[p].socket
BY UnLugarCambiado

\* The least of a set of descriptors.
LEMMA MinDeNaturales ==
  ASSUME NEW S \in SUBSET Nat, S # {}
  PROVE  Min(S) \in S
<1>1. PICK x \in S : \A y \in S : ~(<<y, x>> \in OpToRel(<, Nat))
  BY NatLessThanWellFounded, WFMin
<1>2. \A y \in S : y < x => <<y, x>> \in OpToRel(<, Nat)
  BY Zenon DEF OpToRel
<1>3. \A y \in S : ~(y < x)
  BY <1>1, <1>2, Zenon
<1>4. \A y \in S : x <= y
  BY <1>3
<1> QED
  BY <1>4 DEF Min

\* boot.
LEMMA ConectaTipos ==
  ASSUME TypeOK, Conectadas, NEW k \in Consolas, Conecta(k)
  PROVE  TypeOK' /\ Estables
<1> DEFINE libres == Descriptores \ ToSet(fd)
           nueva  == [socket |-> Min(libres), padre |-> 0, hilos |-> 0, termino |-> FALSE]
<1>1. Min(libres) \in libres
  <2>1. libres \in SUBSET Nat /\ libres # {}
    BY EntradaSalidaAssumption DEF Conecta
  <2> QED
    BY <2>1, MinDeNaturales
<1>2. nueva \in Entradas
  BY <1>1 DEF Entradas
<1>3. consola_list' = Append(consola_list, nueva) /\ hilo' = hilo
  BY DEF Conecta
<1> HIDE DEF nueva
<1>4. consola_list' \in Seq(Entradas) /\ \A p \in DOMAIN consola_list :
        p \in DOMAIN consola_list' /\ consola_list'[p] = consola_list[p]
  BY <1>2, <1>3 DEF TypeOK
<1>5. aKernel' \in [Consolas -> Seq(AlKernel)]
  <2>1. [op |-> "codigo_consola"] \in AlKernel
    BY DEF AlKernel
  <2>2. <<[op |-> "codigo_consola"]>> \in Seq(AlKernel)
    BY <2>1
  <2> QED
    BY <2>2 DEF Conecta, TypeOK
<1>6. fd' \in [Consolas -> Descriptores \cup {0}]
  BY <1>1 DEF Conecta, TypeOK
<1>7. consola' \in [Consolas -> [pc : {"no", "recibe", "ingresa", "fuera"},
                                 pide : Solicitudes \cup {Nada}]]
  <2> DEFINE E == [pc : {"no", "recibe", "ingresa", "fuera"}, pide : Solicitudes \cup {Nada}]
  <2>1. \A r \in E : [r EXCEPT !.pc = "recibe"] \in E
    OBVIOUS
  <2>2. consola \in [Consolas -> E] /\ consola' = [consola EXCEPT ![k].pc = "recibe"]
    BY DEF Conecta, TypeOK
  <2> QED
    BY <2>1, <2>2
<1> QED
  BY <1>3, <1>4, <1>5, <1>6, <1>7 DEF Conecta, TypeOK, Estables, pedidos, avisos

\* A list of the same entries, with other counts.
MismaLista(q) ==
  /\ q \in Seq(Entradas) /\ DOMAIN q = DOMAIN consola_list
  /\ \A p \in DOMAIN consola_list : q[p].socket = consola_list[p].socket

\* The same threads, in other states.
MismosHilos(h) ==
  /\ h \in Seq(TCBs) /\ DOMAIN h = DOMAIN hilo
  /\ \A t \in DOMAIN hilo : h[t].pid = hilo[t].pid /\ h[t].programa = hilo[t].programa

LEMMA SinCambiosEnListas ==
  ASSUME TypeOK PROVE MismaLista(consola_list) /\ MismosHilos(hilo)
BY DEF TypeOK, MismaLista, MismosHilos

LEMMA OtroEstado ==
  ASSUME TypeOK, NEW t, NEW x \in Estados
  PROVE  MismosHilos([hilo EXCEPT ![t].estado = x])
<1>1. hilo \in Seq(TCBs)
  BY DEF TypeOK
<1>2. /\ [hilo EXCEPT ![t].estado = x] \in Seq(TCBs)
      /\ DOMAIN [hilo EXCEPT ![t].estado = x] = DOMAIN hilo
      /\ \A h \in DOMAIN hilo : /\ [hilo EXCEPT ![t].estado = x][h].pid = hilo[h].pid
                                /\ [hilo EXCEPT ![t].estado = x][h].programa = hilo[h].programa
  BY <1>1, EstadoDeHilo, SMTT(30)
<1> QED
  BY <1>2, Zenon DEF MismosHilos

\* What a busy CPU has.
LEMMA LaDeUnaCPU ==
  ASSUME TypeOK, Hilos, NEW c \in CPUs, cpu[c].pc \in Ocupada
  PROVE  /\ cpu[c] \in Turnos
         /\ cpu[c].TID \in DOMAIN hilo /\ cpu[c].PID \in DOMAIN consola_list
         /\ cpu[c].PID = hilo[cpu[c].TID].pid
         /\ SinRepetir => hilo[cpu[c].TID].programa = cpu[c].PID
         /\ hilo[cpu[c].TID] \in TCBs /\ consola_list[cpu[c].PID] \in Entradas
<1>1. cpu[c].TID \in DOMAIN hilo /\ cpu[c].PID = hilo[cpu[c].TID].pid
  BY DEF Hilos
<1>2. cpu[c] \in Turnos
  BY DEF TypeOK
<1>3. /\ cpu[c].PID \in DOMAIN consola_list
      /\ SinRepetir => hilo[cpu[c].TID].programa = cpu[c].PID
  BY <1>1 DEF Hilos
<1>4. hilo[cpu[c].TID] \in TCBs /\ consola_list[cpu[c].PID] \in Entradas
  <2>1. /\ \A t \in DOMAIN hilo : hilo[t] \in TCBs
        /\ \A p \in DOMAIN consola_list : consola_list[p] \in Entradas
    BY DEF TypeOK
  <2> QED
    BY <1>1, <1>3, <2>1, Zenon
<1> QED
  BY <1>1, <1>2, <1>3, <1>4

\* sacar_de_ejecucion.
LEMMA SacadoMismaLista ==
  ASSUME TypeOK, Hilos, NEW c \in CPUs, cpu[c].pc \in Ocupada
  PROVE  MismaLista(Sacado(c))
<1> DEFINE p == cpu[c].PID
<1>6. PICK b \in BOOLEAN : b = (consola_list[p].termino \/ EsPadre(c))
  OBVIOUS
<1>1. p \in DOMAIN consola_list /\ consola_list[p] \in Entradas
  BY LaDeUnaCPU
<1>7. PICK n \in Int : n = consola_list[p].hilos - 1
  BY <1>1 DEF Entradas
<1> DEFINE x == [consola_list[p] EXCEPT !.termino = b, !.hilos = n]
<1>2. Sacado(c) = [consola_list EXCEPT ![p] = x]
  BY <1>6, <1>7 DEF Sacado
<1>3. x \in Entradas /\ x.socket = consola_list[p].socket
  BY <1>1 DEF Entradas
<1> HIDE DEF x, p
<1>4. consola_list \in Seq(Entradas)
  BY DEF TypeOK
<1>5. MismaLista([consola_list EXCEPT ![p] = x])
  BY <1>1, <1>3, <1>4, OtraEntrada DEF MismaLista
<1> QED
  BY <1>2, <1>5

\* The words of a thread that ends.
LEMMA DespedidaTipo ==
  ASSUME TypeOK, NEW c \in CPUs PROVE Despedida(c) \in Seq(AlUsuario)
<1>1. cpu[c].TID \in Nat
  BY DEF TypeOK, Turnos
<1>2. [op |-> "terminar_conexion", de |-> cpu[c].TID] \in AlUsuario
  BY <1>1 DEF AlUsuario, Avisos
<1> QED
  BY <1>2 DEF Despedida

\* When neither changes but in what MismaLista and MismosHilos allow.
LEMMA EstablesSiMismos ==
  ASSUME MismaLista(consola_list'), MismosHilos(hilo') PROVE Estables
BY DEF MismaLista, MismosHilos, Estables

LEMMA LoaderLeeTipos ==
  ASSUME TypeOK, NEW k \in Consolas, NEW op, LoaderLee(k, op)
  PROVE  /\ aKernel' \in [Consolas -> Seq(AlKernel)]
         /\ Head(aKernel[k]) \in AlKernel /\ Head(aKernel[k]).op = op
<1>1. aKernel[k] \in Seq(AlKernel) /\ aKernel[k] # <<>>
  BY DEF TypeOK, LoaderLee
<1>2. Head(aKernel[k]) \in AlKernel /\ Tail(aKernel[k]) \in Seq(AlKernel)
  BY <1>1
<1> QED
  BY <1>2 DEF LoaderLee, TypeOK

LEMMA CodigoConsolaTipos ==
  ASSUME TypeOK, Conectadas, NEW k \in Consolas, CodigoConsola(k)
  PROVE  TypeOK' /\ Estables
<1> DEFINE e == Entrada(k)
           tcb(x) == [pid |-> e, programa |-> k, estado |-> x]
           t == Len(hilo) + 1
           aviso == [op |-> "terminar_conexion", de |-> t]
<1>1. e \in DOMAIN consola_list /\ e \in Nat
  BY EntradaDeConsola DEF CodigoConsola, LoaderLee, TypeOK
<1>2. t \in Nat /\ <<aviso>> \in Seq(AlUsuario)
  <2>1. t \in Nat
    BY DEF TypeOK
  <2>2. aviso \in AlUsuario
    BY <2>1 DEF AlUsuario, Avisos
  <2> QED
    BY <2>1, <2>2
<1>3. aKernel' \in [Consolas -> Seq(AlKernel)]
  BY LoaderLeeTipos DEF CodigoConsola
<1>4. PICK n \in Int : consola_list' =
        [consola_list EXCEPT ![e].padre = t, ![e].hilos = n, ![e].termino = FALSE]
  <2>1. PICK m \in {0, 1} : consola_list' =
          [consola_list EXCEPT ![e].padre = t, ![e].hilos = m, ![e].termino = FALSE]
    BY DEF CodigoConsola
  <2>2. m \in Int
    OBVIOUS
  <2> HIDE DEF e, t
  <2> QED
    BY <2>1, <2>2, Zenon
<1>5. MismaLista(consola_list')
  <2>5. PICK b \in BOOLEAN : b = FALSE
    OBVIOUS
  <2>6. PICK u \in Nat : u = t
    BY <1>2
  <2> DEFINE x == [consola_list[e] EXCEPT !.padre = u, !.hilos = n, !.termino = b]
  <2>1. consola_list \in Seq(Entradas) /\ consola_list[e] \in Entradas
    BY <1>1 DEF TypeOK
  <2>3. consola_list' = [consola_list EXCEPT ![e] = x]
    BY <1>4, <2>5, <2>6
  <2> HIDE DEF e, t
  <2>2. x \in Entradas /\ x.socket = consola_list[e].socket
    BY <2>1 DEF Entradas
  <2> HIDE DEF x
  <2>4. MismaLista([consola_list EXCEPT ![e] = x])
    BY <1>1, <2>1, <2>2, OtraEntrada DEF MismaLista
  <2> QED
    BY <2>3, <2>4
<1>6. PICK x \in Estados : hilo' = Append(hilo, tcb(x))
  BY DEF CodigoConsola, Estados
<1>7. tcb(x) \in TCBs
  BY <1>1 DEF TCBs, Estados
<1> HIDE DEF tcb, e
<1>8. hilo' \in Seq(TCBs) /\ \A h \in DOMAIN hilo : h \in DOMAIN hilo' /\ hilo'[h] = hilo[h]
  BY <1>6, <1>7 DEF TypeOK
<1>9. /\ aConsola' \in [Consolas -> Seq(AlUsuario)] /\ rota' \subseteq Consolas
      /\ caida' \in {"no", "senal", "nulo", "exit"} /\ fichas' \in Nat
  <2>1. CASE UNCHANGED <<aConsola, rota, caida>> /\ fichas' = fichas + 2
    BY <2>1 DEF TypeOK
  <2>2. CASE Enviar(e, <<aviso>>) /\ UNCHANGED fichas
    BY <1>2, <2>2, LoEnviado DEF TypeOK
  <2> QED
    BY <2>1, <2>2 DEF CodigoConsola, e
<1> QED
  BY <1>3, <1>5, <1>8, <1>9 DEF CodigoConsola, TypeOK, Estables, MismaLista, pedidos

LEMMA SeProdujoEntradaTipos ==
  ASSUME TypeOK, NEW k \in Consolas, SeProdujoEntrada(k)
  PROVE  TypeOK' /\ Estables
<1> DEFINE m == Head(aKernel[k])
<1>1. aKernel' \in [Consolas -> Seq(AlKernel)] /\ m \in Respuestas
  <2>1. /\ aKernel' \in [Consolas -> Seq(AlKernel)]
        /\ m \in AlKernel /\ m.op = "se_produjo_entrada"
    BY LoaderLeeTipos DEF SeProdujoEntrada
  <2> QED
    BY <2>1 DEF AlKernel
<1>2. Nada \in {Nada} /\ [Ocioso EXCEPT !.pc = "post"] \in
        [pc : {"libre", "post", "espera1", "espera2", "mata"}, k : Consolas \cup {0}, cuenta : Nat]
  BY DEF Ocioso
<1>3. cpu' \in [CPUs -> Turnos]
  <2>1. cpu' = cpu \/ cpu' = [cpu EXCEPT ![entrada.cpu].respuesta = m]
    BY DEF SeProdujoEntrada
  <2> HIDE DEF m
  <2>2. \A r \in Turnos : [r EXCEPT !.respuesta = m] \in Turnos
    BY <1>1 DEF Turnos
  <2>3. cpu \in [CPUs -> Turnos]
    BY DEF TypeOK
  <2> QED
    BY <2>1, <2>2, <2>3
<1> QED
  BY <1>1, <1>2, <1>3, SinCambiosEnListas, EstablesSiMismos
     DEF SeProdujoEntrada, TypeOK, avisos

LEMMA PostEntradaTipos ==
  ASSUME TypeOK, PostEntrada PROVE TypeOK' /\ Estables
BY SinCambiosEnListas, EstablesSiMismos
   DEF PostEntrada, TypeOK, Ocioso, usuario, tablas, avisos, MismaLista, MismosHilos

LEMMA DesligaTipos ==
  ASSUME TypeOK, NEW k \in Consolas, NEW l, Desliga(k, l)
  PROVE  /\ aKernel' \in [Consolas -> Seq(AlKernel)]
         /\ fd' \in [Consolas -> Descriptores \cup {0}] /\ rota' \subseteq Consolas
         /\ loader' = Ocioso /\ consola_list' = l
         /\ loader' \in [pc : {"libre", "post", "espera1", "espera2", "mata"},
                         k : Consolas \cup {0}, cuenta : Nat]
<1>1. <<>> \in Seq(AlKernel)
  OBVIOUS
<1> QED
  BY <1>1 DEF Desliga, TypeOK, Ocioso

\* The ready threads of a process are as many as there are, and no more than can be.
LEMMA ListosSonPocos ==
  ASSUME TypeOK, NEW e PROVE Cardinality(Listos(e)) \in Nat /\ IsFiniteSet(Listos(e))
<1>1. DOMAIN hilo = 1 .. Len(hilo) /\ Len(hilo) \in Nat
  BY DEF TypeOK
<1>2. IsFiniteSet(DOMAIN hilo)
  BY <1>1, FS_Interval
<1>3. Listos(e) \in SUBSET DOMAIN hilo
  BY DEF Listos
<1>4. IsFiniteSet(Listos(e))
  BY <1>2, <1>3, FS_Subset
<1> QED
  BY <1>4, FS_CardinalityType

LEMMA EntradaTerminada ==
  ASSUME TypeOK, NEW e \in DOMAIN consola_list
  PROVE  MismaLista([consola_list EXCEPT ![e].termino = TRUE])
<1>1. PICK b \in BOOLEAN : b = TRUE
  OBVIOUS
<1> DEFINE x == [consola_list[e] EXCEPT !.termino = b]
<1>2. consola_list \in Seq(Entradas) /\ consola_list[e] \in Entradas
  BY DEF TypeOK
<1>3. x \in Entradas /\ x.socket = consola_list[e].socket
  BY <1>2 DEF Entradas
<1>4. [consola_list EXCEPT ![e].termino = TRUE] = [consola_list EXCEPT ![e] = x]
  BY <1>1
<1> HIDE DEF x
<1>5. MismaLista([consola_list EXCEPT ![e] = x])
  BY <1>2, <1>3, OtraEntrada DEF MismaLista
<1> QED
  BY <1>4, <1>5

LEMMA HilosDeEntrada ==
  ASSUME TypeOK, NEW e \in DOMAIN consola_list, NEW n \in Int
  PROVE  MismaLista([consola_list EXCEPT ![e].hilos = n])
<1> DEFINE x == [consola_list[e] EXCEPT !.hilos = n]
<1>2. consola_list \in Seq(Entradas) /\ consola_list[e] \in Entradas
  BY DEF TypeOK
<1>3. x \in Entradas /\ x.socket = consola_list[e].socket
  BY <1>2 DEF Entradas
<1>4. [consola_list EXCEPT ![e].hilos = n] = [consola_list EXCEPT ![e] = x]
  OBVIOUS
<1> HIDE DEF x
<1>5. MismaLista([consola_list EXCEPT ![e] = x])
  BY <1>2, <1>3, OtraEntrada DEF MismaLista
<1> QED
  BY <1>4, <1>5

LEMMA FinConsolaTipos ==
  ASSUME TypeOK, Conectadas, NEW k \in Consolas, FinConsola(k)
  PROVE  TypeOK' /\ Estables
<1> DEFINE e == Entrada(k)
           l == [consola_list EXCEPT ![e].termino = TRUE]
           n == Cardinality(Listos(e))
<1>1. MismaLista(l)
  BY EntradaDeConsola, EntradaTerminada DEF FinConsola
<1>2. n \in Nat
  BY ListosSonPocos
<1> HIDE DEF l, n
<1>3. consola_list' = l /\ MismosHilos(hilo')
  BY SinCambiosEnListas DEF FinConsola, Desliga, l
<1>4. CASE Desliga(k, l)
  BY <1>1, <1>3, <1>4, DesligaTipos, EstablesSiMismos
     DEF FinConsola, TypeOK, MismaLista, pedidos, avisos
<1>5. CASE loader' = [pc |-> "espera1", k |-> k, cuenta |-> n] /\ UNCHANGED <<aKernel, fd, rota>>
  BY <1>1, <1>2, <1>3, <1>5, EstablesSiMismos
     DEF FinConsola, TypeOK, MismaLista, pedidos, avisos
<1> QED
  BY <1>4, <1>5 DEF FinConsola, l, n

LEMMA LoaderEsperaTipos ==
  ASSUME TypeOK, LoaderEspera PROVE TypeOK' /\ Estables
<1>1. fichas' \in Nat
  BY DEF LoaderEspera, TypeOK
<1>2. loader' \in [pc : {"libre", "post", "espera1", "espera2", "mata"},
                  k : Consolas \cup {0}, cuenta : Nat]
  BY DEF LoaderEspera, TypeOK
<1>3. MismaLista(consola_list') /\ MismosHilos(hilo')
  BY SinCambiosEnListas DEF LoaderEspera, tablas
<1>4. Estables
  BY <1>3, EstablesSiMismos
<1> QED
  BY <1>1, <1>2, <1>4 DEF LoaderEspera, TypeOK, usuario, tablas, pedidos

LEMMA MataTipos ==
  ASSUME TypeOK, Conectadas, Mata
  PROVE  TypeOK' /\ Estables
<1> DEFINE e == Entrada(loader.k)
<1>1. CASE caida' = "nulo" /\ UNCHANGED <<hilo, consola_list, aKernel, fd, rota, loader>>
  BY <1>1, SinCambiosEnListas, EstablesSiMismos
     DEF Mata, TypeOK, pedidos, avisos, MismaLista, MismosHilos
<1>3. loader.k \in Consolas /\ fd[loader.k] # 0
  BY DEF Conectadas, Mata
<1>2. CASE ~(caida' = "nulo" /\ UNCHANGED <<hilo, consola_list, aKernel, fd, rota, loader>>)
  <2> DEFINE estan(est) == {t \in DOMAIN hilo : hilo[t].pid = e /\ hilo[t].estado = est}
  <2>1. PICK s \in kSubset(loader.cuenta, Listos(e)) :
          /\ hilo' = [t \in DOMAIN hilo |-> IF t \in s \cup estan("km")
                                            THEN [hilo[t] EXCEPT !.estado = "exit"] ELSE hilo[t]]
          /\ Desliga(loader.k,
                     [consola_list EXCEPT ![e].hilos = @ - Cardinality(s \cup estan("km"))])
          /\ UNCHANGED caida
    BY <1>2 DEF Mata
  <2> DEFINE mueren == s \cup estan("km")
             l == [consola_list EXCEPT ![e].hilos = @ - Cardinality(mueren)]
  <2>2. Cardinality(mueren) \in Nat
    <3>1. DOMAIN hilo = 1 .. Len(hilo) /\ Len(hilo) \in Nat
      BY DEF TypeOK
    <3>2. IsFiniteSet(DOMAIN hilo)
      BY <3>1, FS_Interval
    <3>3. mueren \in SUBSET DOMAIN hilo
      BY <2>1 DEF Listos, kSubset
    <3> QED
      BY <3>2, <3>3, FS_Subset, FS_CardinalityType
  <2>3. MismosHilos(hilo')
    <3>1. \A t \in DOMAIN hilo : hilo[t] \in TCBs
      BY DEF TypeOK
    <3>2. \A t \in DOMAIN hilo : [hilo[t] EXCEPT !.estado = "exit"] \in TCBs
      BY <3>1 DEF TCBs
    <3>3. DOMAIN hilo = 1 .. Len(hilo) /\ Len(hilo) \in Nat
      BY DEF TypeOK
    <3>4. hilo' \in [1 .. Len(hilo) -> TCBs]
      BY <2>1, <3>1, <3>2, <3>3
    <3>5. hilo' \in Seq(TCBs)
      BY <3>3, <3>4, SeqDef
    <3>6. \A t \in DOMAIN hilo : /\ hilo'[t].pid = hilo[t].pid
                                 /\ hilo'[t].programa = hilo[t].programa
      BY <2>1, <3>1 DEF TCBs
    <3> QED
      BY <2>1, <3>5, <3>6 DEF MismosHilos
  <2>4. e \in DOMAIN consola_list
    BY <1>3, EntradaDeConsola
  <2>5. MismaLista(l)
    <3> HIDE DEF e, mueren
    <3>1. consola_list[e] \in Entradas
      BY <2>4 DEF TypeOK
    <3>2. PICK n \in Int : n = consola_list[e].hilos - Cardinality(mueren)
      BY <2>2, <3>1 DEF Entradas
    <3>3. l = [consola_list EXCEPT ![e].hilos = n]
      BY <3>2
    <3> HIDE DEF l
    <3> QED
      BY <2>4, <3>3, HilosDeEntrada
  <2>6. Desliga(loader.k, l) /\ UNCHANGED caida
    BY <2>1
  <2> HIDE DEF l, e
  <2>7. MismaLista(consola_list') /\ loader' = Ocioso
    BY <1>3, <2>5, <2>6, DesligaTipos
  <2> QED
    BY <1>3, <2>3, <2>6, <2>7, DesligaTipos, EstablesSiMismos
       DEF Mata, TypeOK, MismaLista, MismosHilos, pedidos, avisos
<1> QED
  BY <1>1, <1>2

LEMMA DispatcherTipos ==
  ASSUME TypeOK, EsperaFicha \/ DespachaNadie PROVE TypeOK' /\ Estables
<1>1. MismaLista(consola_list') /\ MismosHilos(hilo')
  BY SinCambiosEnListas DEF EsperaFicha, DespachaNadie, tablas
<1>2. Estables
  BY <1>1, EstablesSiMismos
<1>3. fichas' \in Nat /\ disp' \in 0 .. 2 /\ caida' \in {"no", "senal", "nulo", "exit"}
  BY DEF EsperaFicha, DespachaNadie, TypeOK, avisos
<1> QED
  BY <1>2, <1>3
     DEF EsperaFicha, DespachaNadie, TypeOK, usuario, tablas, pedidos

LEMMA DespachaTipos ==
  ASSUME TypeOK, NEW c \in CPUs, NEW t \in DOMAIN hilo, DespachaHilo(c, t) \/ Atiende(c, t)
  PROVE  TypeOK' /\ Estables
<1>1. PICK x \in {"listo", "llama"}, modo \in {"usuario", "km"} :
        Despacha(c, t, x, modo) /\ km' \in {"libre", "ocupado"}
  BY DEF DespachaHilo, Atiende, TypeOK
<1>2. MismosHilos(hilo')
  <2>1. hilo' = [hilo EXCEPT ![t].estado = IF modo = "km" THEN "km" ELSE "cpu"]
    BY <1>1 DEF Despacha
  <2>2. CASE modo = "km"
    BY <2>1, <2>2, OtroEstado DEF Estados
  <2>3. CASE modo # "km"
    BY <2>1, <2>3, OtroEstado DEF Estados
  <2> QED
    BY <2>2, <2>3
<1>3. hilo[t] \in TCBs /\ t \in Nat
  BY DEF TypeOK
<1>4. [Libre EXCEPT !.pc = modo, !.TID = t, !.PID = hilo[t].pid] \in Turnos
  BY <1>3 DEF Libre, Turnos, TCBs
<1>5. cpu' \in [CPUs -> Turnos]
  BY <1>1, <1>4 DEF Despacha, TypeOK
<1>6. MismaLista(consola_list')
  BY <1>1, SinCambiosEnListas DEF Despacha
<1>7. Estables
  BY <1>2, <1>6, EstablesSiMismos
<1> QED
  BY <1>1, <1>2, <1>5, <1>7 DEF Despacha, TypeOK, MismosHilos, usuario, pedidos

\* A CPU that is left free.
LEMMA LibreEsTurno == Libre \in Turnos /\ [Libre EXCEPT !.pc = "ausente"] \in Turnos
BY DEF Libre, Turnos

LEMMA InterrupcionTipos ==
  ASSUME TypeOK, NEW c \in CPUs, Interrupcion(c) \/ FinQuantum(c)
  PROVE  TypeOK' /\ Estables
<1>1. MismosHilos(hilo') /\ MismaLista(consola_list')
  BY OtroEstado, SinCambiosEnListas DEF Interrupcion, FinQuantum, Estados
<1>2. cpu' \in [CPUs -> Turnos]
  BY LibreEsTurno DEF Interrupcion, FinQuantum, TypeOK
<1>3. Estables
  BY <1>1, EstablesSiMismos
<1> QED
  BY <1>1, <1>2, <1>3 DEF Interrupcion, FinQuantum, TypeOK, MismosHilos, usuario, pedidos

LEMMA CrearHiloTipos ==
  ASSUME TypeOK, Hilos, NEW c \in CPUs, CrearHilo(c)
  PROVE  TypeOK' /\ Estables
<1> DEFINE p == cpu[c].PID
           tcb == [pid |-> p, programa |-> hilo[cpu[c].TID].programa, estado |-> "listo"]
<1>1. /\ cpu[c] \in Turnos /\ p \in DOMAIN consola_list
      /\ hilo[cpu[c].TID] \in TCBs /\ consola_list[p] \in Entradas
  BY LaDeUnaCPU DEF CrearHilo, Ocupada
<1>2. tcb \in TCBs
  BY <1>1 DEF TCBs, Turnos
<1>3. hilo' = Append(hilo, tcb)
  BY DEF CrearHilo
<1> HIDE DEF tcb
<1>4. hilo' \in Seq(TCBs) /\ \A h \in DOMAIN hilo : h \in DOMAIN hilo' /\ hilo'[h] = hilo[h]
  BY <1>2, <1>3 DEF TypeOK
<1>5. MismaLista(consola_list')
  <2>1. PICK n \in Int : n = consola_list[p].hilos + 1
    BY <1>1 DEF Entradas
  <2>2. consola_list' = [consola_list EXCEPT ![p].hilos = n]
    BY <2>1 DEF CrearHilo
  <2> HIDE DEF p
  <2> QED
    BY <1>1, <2>2, HilosDeEntrada
<1> QED
  BY <1>4, <1>5, SMTT(40) DEF CrearHilo, TypeOK, Estables, MismaLista, usuario, pedidos

LEMMA SalidaEstandarTipos ==
  ASSUME TypeOK, Conectadas, Hilos, NEW c \in CPUs, SalidaEstandar(c)
  PROVE  TypeOK' /\ Estables
<1>1. cpu[c].TID \in Nat
  BY DEF TypeOK, Turnos
<1>2. [op |-> "imprimir_en_pantalla", de |-> cpu[c].TID] \in AlUsuario
  BY <1>1 DEF AlUsuario, Avisos
<1>3. <<[op |-> "imprimir_en_pantalla", de |-> cpu[c].TID]>> \in Seq(AlUsuario)
  BY <1>2
<1>4. /\ aConsola' \in [Consolas -> Seq(AlUsuario)] /\ rota' \subseteq Consolas
      /\ caida' \in {"no", "senal"}
  BY <1>3, LoEnviado DEF SalidaEstandar
<1>5. Estables
  BY SinCambiosEnListas, EstablesSiMismos DEF SalidaEstandar
<1> QED
  BY <1>4, <1>5 DEF SalidaEstandar, TypeOK, pedidos, avisos

LEMMA EntradaEstandarTipos ==
  ASSUME TypeOK, NEW c \in CPUs, EntradaEstandar(c)
  PROVE  TypeOK' /\ Estables
<1>1. PICK p \in Pedidos : cpu' = [cpu EXCEPT ![c].pc = "espera", ![c].pedido = p]
  <2>1. PICK p \in {[tipo |-> "N", tamanio |-> 4]} \cup [tipo : {"C"}, tamanio : Tamanios] :
          cpu' = [cpu EXCEPT ![c].pc = "espera", ![c].pedido = p]
    BY DEF EntradaEstandar
  <2>2. p \in Pedidos
    BY DEF Pedidos
  <2> QED
    BY <2>1, <2>2, Zenon
<1>2. cpu' \in [CPUs -> Turnos]
  <2>1. \A r \in Turnos : [r EXCEPT !.pc = "espera", !.pedido = p] \in Turnos
    BY DEF Turnos
  <2>2. cpu \in [CPUs -> Turnos]
    BY DEF TypeOK
  <2>3. cpu' = [cpu EXCEPT ![c] = [cpu[c] EXCEPT !.pc = "espera", !.pedido = p]]
    BY <1>1
  <2> QED
    BY <2>1, <2>2, <2>3
<1>3. Estables
  BY SinCambiosEnListas, EstablesSiMismos DEF EntradaEstandar
<1> QED
  BY <1>2, <1>3 DEF EntradaEstandar, TypeOK, usuario, avisos

LEMMA ProducirEntradaTipos ==
  ASSUME TypeOK, Conectadas, Pedido, ProducirEntrada
  PROVE  TypeOK' /\ Estables
<1> DEFINE c == planificador.cpu
<1>1. c \in CPUs /\ cpu[c] \in Turnos /\ cpu[c].pedido \in Pedidos
  BY DEF TypeOK, Pedido, Turno, ProducirEntrada
<1>2. PICK b \in Basura :
        Enviar(cpu[c].PID, <<[op |-> "ingresar_cadena", de |-> cpu[c].TID,
                              pedido |-> cpu[c].pedido, basura |-> b]>>)
  BY DEF ProducirEntrada
<1> DEFINE m == [op |-> "ingresar_cadena", de |-> cpu[c].TID,
                 pedido |-> cpu[c].pedido, basura |-> b]
<1>3. m \in AlUsuario
  BY <1>1 DEF AlUsuario, Solicitudes, Turnos
<1>4. <<m>> \in Seq(AlUsuario)
  BY <1>3
<1>5. /\ aConsola' \in [Consolas -> Seq(AlUsuario)] /\ rota' \subseteq Consolas
      /\ caida' \in {"no", "senal"}
  BY <1>2, <1>4, LoEnviado
<1>6. Estables
  BY SinCambiosEnListas, EstablesSiMismos DEF ProducirEntrada
<1>7. entrada' \in {Nada} \cup [op : {"entrada"}, cpu : CPUs] /\ mutex_entradaSalida' \in Nat
  BY <1>1 DEF ProducirEntrada, TypeOK
<1> QED
  BY <1>5, <1>6, <1>7 DEF ProducirEntrada, TypeOK, avisos

LEMMA DevolucionCadenaTipos ==
  ASSUME TypeOK, NEW c \in CPUs, DevolucionCadena(c)
  PROVE  TypeOK' /\ Estables
<1>1. cpu' \in [CPUs -> Turnos]
  BY DEF DevolucionCadena, TypeOK, Turnos
<1>2. Estables
  BY SinCambiosEnListas, EstablesSiMismos DEF DevolucionCadena
<1> QED
  BY <1>1, <1>2 DEF DevolucionCadena, TypeOK, usuario, pedidos, avisos

LEMMA FinLlamadaTipos ==
  ASSUME TypeOK, NEW c \in CPUs, FinLlamada(c)
  PROVE  TypeOK' /\ Estables
<1>1. MismosHilos(hilo') /\ MismaLista(consola_list')
  BY OtroEstado, SinCambiosEnListas DEF FinLlamada, Estados
<1>2. cpu' \in [CPUs -> Turnos]
  BY LibreEsTurno DEF FinLlamada, TypeOK
<1>3. Estables
  BY <1>1, EstablesSiMismos
<1> QED
  BY <1>1, <1>2, <1>3 DEF FinLlamada, TypeOK, MismosHilos, usuario, pedidos

LEMMA FinalizaTipos ==
  ASSUME TypeOK, Conectadas, Hilos, NEW c \in CPUs, Finaliza(c)
  PROVE  TypeOK' /\ Estables
<1>1. MismosHilos(hilo') /\ MismaLista(consola_list')
  BY OtroEstado, SacadoMismaLista DEF Finaliza, Estados, Ocupada
<1>2. cpu' \in [CPUs -> Turnos]
  BY LibreEsTurno DEF Finaliza, TypeOK
<1>3. Estables
  BY <1>1, EstablesSiMismos
<1>4. /\ aConsola' \in [Consolas -> Seq(AlUsuario)] /\ rota' \subseteq Consolas
      /\ caida' \in {"no", "senal"}
  BY DespedidaTipo, LoEnviado DEF Finaliza
<1> QED
  BY <1>1, <1>2, <1>3, <1>4
     DEF Finaliza, TypeOK, MismosHilos, MismaLista, pedidos, avisos

LEMMA DesconectoCPUTipos ==
  ASSUME TypeOK, Conectadas, Hilos, NEW c \in CPUs, DesconectoCPU(c)
  PROVE  TypeOK' /\ Estables
<1> DEFINE p     == cpu[c].PID
           aviso == [op |-> "se_desconecto_cpu", de |-> cpu[c].TID]
           enKM  == cpu[c].pc \in {"km", "espera"}
           ms    == (IF consola_list[p].termino THEN <<>> ELSE <<aviso>>) \o Despedida(c)
<1>1. cpu' \in [CPUs -> Turnos]
  BY LibreEsTurno DEF DesconectoCPU, TypeOK
<1>2. aviso \in AlUsuario
  <2>1. cpu[c].TID \in Nat
    BY DEF TypeOK, Turnos
  <2> QED
    BY <2>1 DEF AlUsuario, Avisos
<1>3. CASE enKM /\ ~ consola_list[p].termino
  <2>1. aConsola' \in [Consolas -> Seq(AlUsuario)]
    <3>1. \A k \in Consolas : /\ aConsola[k] \in Seq(AlUsuario)
                              /\ Append(aConsola[k], aviso) \in Seq(AlUsuario)
      BY <1>2 DEF TypeOK
    <3>2. aConsola' = [k \in Consolas |-> IF fd[k] = 0 THEN aConsola[k]
                                          ELSE Append(aConsola[k], aviso)]
      BY <1>3 DEF DesconectoCPU
    <3> QED
      BY <3>1, <3>2
  <2>2. caida' = "exit" /\ UNCHANGED <<rota, consola_list, hilo>>
    BY <1>3 DEF DesconectoCPU
  <2>3. Estables
    BY <2>2, SinCambiosEnListas, EstablesSiMismos
  <2> QED
    BY <1>1, <2>1, <2>2, <2>3 DEF DesconectoCPU, TypeOK, pedidos, avisos
<1>4. CASE ~(enKM /\ ~ consola_list[p].termino)
  <2>1. /\ Enviar(p, ms) /\ consola_list' = Sacado(c)
        /\ hilo' = IF enKM THEN hilo ELSE [hilo EXCEPT ![cpu[c].TID].estado = "exit"]
    BY <1>4 DEF DesconectoCPU
  <2>2. ms \in Seq(AlUsuario)
    <3>1. /\ (IF consola_list[p].termino THEN <<>> ELSE <<aviso>>) \in Seq(AlUsuario)
          /\ Despedida(c) \in Seq(AlUsuario)
      BY <1>2, DespedidaTipo
    <3> QED
      BY <3>1, ConcatProperties
  <2> HIDE DEF ms
  <2>3. /\ aConsola' \in [Consolas -> Seq(AlUsuario)] /\ rota' \subseteq Consolas
        /\ caida' \in {"no", "senal"}
    BY <2>1, <2>2, LoEnviado
  <2>4. MismosHilos(hilo') /\ MismaLista(consola_list')
    BY <2>1, OtroEstado, SinCambiosEnListas, SacadoMismaLista DEF DesconectoCPU, Estados, Ocupada
  <2>5. Estables
    BY <2>4, EstablesSiMismos
  <2> QED
    BY <1>1, <2>3, <2>4, <2>5
       DEF DesconectoCPU, TypeOK, MismosHilos, MismaLista, pedidos, avisos
<1> QED
  BY <1>3, <1>4

\* The states of a console.
EstadosConsola == [pc : {"no", "recibe", "ingresa", "fuera"}, pide : Solicitudes \cup {Nada}]

LEMMA RecibeTipos ==
  ASSUME TypeOK, NEW k \in Consolas, Recibe(k)
  PROVE  TypeOK' /\ Estables
<1> DEFINE m == Head(aConsola[k])
<1>1. m \in AlUsuario /\ Tail(aConsola[k]) \in Seq(AlUsuario)
  <2>1. aConsola[k] \in Seq(AlUsuario) /\ aConsola[k] # <<>>
    BY DEF TypeOK, Recibe, Lee
  <2> QED
    BY <2>1
<1>2. aConsola' \in [Consolas -> Seq(AlUsuario)]
  BY <1>1 DEF Recibe, TypeOK
<1>3. Append(aKernel[k], [op |-> "fin"]) \in Seq(AlKernel)
  <2>1. [op |-> "fin"] \in AlKernel /\ aKernel[k] \in Seq(AlKernel)
    BY DEF AlKernel, TypeOK
  <2> QED
    BY <2>1
<1>4. consola \in [Consolas -> EstadosConsola]
  BY DEF TypeOK, EstadosConsola
<1>5. consola' \in [Consolas -> EstadosConsola] /\ aKernel' \in [Consolas -> Seq(AlKernel)]
  <2>1. CASE m.op = "imprimir_en_pantalla"
    BY <1>4, <2>1 DEF Recibe, TypeOK
  <2>2. CASE m.op = "ingresar_cadena"
    <3>1. m \in Solicitudes
      BY <1>1, <2>2 DEF AlUsuario, Avisos
    <3>2. [pc |-> "ingresa", pide |-> m] \in EstadosConsola
      BY <3>1 DEF EstadosConsola
    <3>3. consola' = [consola EXCEPT ![k] = [pc |-> "ingresa", pide |-> m]] /\ UNCHANGED aKernel
      BY <2>2 DEF Recibe
    <3> QED
      BY <1>4, <3>2, <3>3 DEF TypeOK
  <2>3. CASE m.op \in {"terminar_conexion", "se_desconecto_cpu"}
    <3>1. /\ consola' = [consola EXCEPT ![k].pc = "fuera"]
          /\ aKernel' = [aKernel EXCEPT ![k] = Append(@, [op |-> "fin"])]
      BY <2>3 DEF Recibe
    <3>2. consola' \in [Consolas -> EstadosConsola]
      BY <1>4, <3>1 DEF EstadosConsola
    <3>3. aKernel' \in [Consolas -> Seq(AlKernel)]
      BY <1>3, <3>1 DEF TypeOK
    <3> QED
      BY <3>2, <3>3
  <2>4. m.op \in {"imprimir_en_pantalla", "ingresar_cadena", "terminar_conexion",
                  "se_desconecto_cpu"}
    BY <1>1 DEF AlUsuario, Avisos, Solicitudes
  <2> QED
    BY <2>1, <2>2, <2>3, <2>4
<1>6. Estables
  BY SinCambiosEnListas, EstablesSiMismos DEF Recibe, tablas
<1> QED
  BY <1>2, <1>5, <1>6 DEF Recibe, TypeOK, EstadosConsola, tablas, pedidos, avisos

LEMMA RespondeTipos ==
  ASSUME TypeOK, NEW k \in Consolas, consola[k].pide \in Solicitudes, NEW n \in Int,
         Responde(k, n)
  PROVE  /\ consola' \in [Consolas -> EstadosConsola]
         /\ aKernel' \in [Consolas -> Seq(AlKernel)]
<1> DEFINE r == [op |-> "se_produjo_entrada", de |-> k,
                 pedido |-> consola[k].pide.pedido, largo |-> n]
<1>1. r \in AlKernel
  BY DEF AlKernel, Respuestas, Solicitudes
<1>2. aKernel' = [aKernel EXCEPT ![k] = Append(@, r)]
  BY DEF Responde
<1> HIDE DEF r
<1>3. Append(aKernel[k], r) \in Seq(AlKernel)
  BY <1>1 DEF TypeOK
<1>4. aKernel' \in [Consolas -> Seq(AlKernel)]
  BY <1>2, <1>3 DEF TypeOK
<1>5. [pc |-> "recibe", pide |-> Nada] \in EstadosConsola
  BY DEF EstadosConsola
<1>6. consola' \in [Consolas -> EstadosConsola]
  BY <1>5 DEF Responde, TypeOK, EstadosConsola
<1> QED
  BY <1>4, <1>6

LEMMA MuereTipos ==
  ASSUME TypeOK, NEW k \in Consolas, Muere(k)
  PROVE  /\ consola' \in [Consolas -> EstadosConsola]
         /\ aKernel' \in [Consolas -> Seq(AlKernel)]
<1>1. <<>> \in Seq(AlKernel)
  OBVIOUS
<1>2. aKernel' \in [Consolas -> Seq(AlKernel)]
  BY <1>1 DEF Muere, TypeOK
<1>3. consola' \in [Consolas -> EstadosConsola]
  <2>1. \A r \in EstadosConsola : [r EXCEPT !.pc = "fuera"] \in EstadosConsola
    BY DEF EstadosConsola
  <2>2. consola \in [Consolas -> EstadosConsola] /\ consola' = [consola EXCEPT ![k].pc = "fuera"]
    BY DEF Muere, TypeOK, EstadosConsola
  <2> QED
    BY <2>1, <2>2
<1> QED
  BY <1>2, <1>3

\* The limit that is read is a number.
LEMMA LimiteEntero ==
  ASSUME NEW m \in Solicitudes PROVE Limite(m) \in Int
<1>1. m.basura \in Int /\ m.pedido.tamanio \in Int
  <2>1. m.basura \in Basura /\ m.pedido \in Pedidos
    BY DEF Solicitudes
  <2>2. \A p \in Pedidos : p.tamanio \in Tamanios \cup {4}
    BY DEF Pedidos
  <2>3. m.pedido.tamanio \in Tamanios \cup {4}
    BY <2>1, <2>2
  <2>4. Tamanios \subseteq Int /\ Basura \subseteq Int
    BY EntradaSalidaAssumption
  <2>5. Tamanios \cup {4} \subseteq Int
    BY <2>4
  <2> QED
    BY <2>1, <2>3, <2>4, <2>5, Zenon
<1>2. m.pedido.tamanio % 256 \in Int
  BY <1>1
<1>3. 2 ^ 24 \in Int
  OBVIOUS
<1> QED
  BY <1>1, <1>2, <1>3 DEF Limite

LEMMA ConsolaTipos ==
  ASSUME TypeOK, Mensajes, NEW k \in Consolas,
         \/ IngresarNumero(k) \/ SeVa(k)
         \/ \E largo \in Largos : IngresarCadena(k, largo)
  PROVE  TypeOK' /\ Estables
<1>1. /\ consola' \in [Consolas -> EstadosConsola] /\ aKernel' \in [Consolas -> Seq(AlKernel)]
  <2>1. CASE IngresarNumero(k)
    <3>1. consola[k].pide \in Solicitudes /\ Responde(k, 4)
      BY <2>1 DEF IngresarNumero, Mensajes
    <3> QED
      BY <3>1, RespondeTipos
  <2>2. CASE SeVa(k)
    BY <2>2, MuereTipos DEF SeVa
  <2>3. ASSUME NEW largo \in Largos, IngresarCadena(k, largo)
        PROVE  /\ consola' \in [Consolas -> EstadosConsola]
               /\ aKernel' \in [Consolas -> Seq(AlKernel)]
    <3> DEFINE limite == Limite(consola[k].pide)
    <3>1. consola[k].pide \in Solicitudes
      BY <2>3 DEF IngresarCadena, Mensajes
    <3>2. limite \in Int /\ largo \in Int
      BY <3>1, LimiteEntero, EntradaSalidaAssumption
    <3>3. Muere(k) \/ Responde(k, Min({largo, limite}))
      BY <2>3 DEF IngresarCadena
    <3> HIDE DEF limite
    <3>4. Min({largo, limite}) \in Int
      <4>1. \E x \in {largo, limite} : \A y \in {largo, limite} : x <= y
        BY <3>2
      <4> QED
        BY <3>2, <4>1 DEF Min
    <3> QED
      BY <3>1, <3>3, <3>4, MuereTipos, RespondeTipos
  <2> QED
    BY <2>1, <2>2, <2>3
<1>2. UNCHANGED <<aConsola, tablas, pedidos, loader, avisos, caida>>
  BY DEF IngresarNumero, SeVa, IngresarCadena
<1>3. Estables
  BY <1>2, SinCambiosEnListas, EstablesSiMismos DEF tablas
<1> QED
  BY <1>1, <1>2, <1>3 DEF TypeOK, EstadosConsola, tablas, pedidos, avisos

LEMMA QuietosTipos ==
  ASSUME TypeOK, UNCHANGED vars PROVE TypeOK' /\ Estables
<1>1. Estables
  BY SinCambiosEnListas, EstablesSiMismos DEF vars, tablas
<1> QED
  BY <1>1 DEF vars, TypeOK, usuario, tablas, pedidos, avisos

\* The parts of Next, one disjunct for each action.
LEMMA Pasos ==
  ASSUME Next
  PROVE  \/ \E k \in Consolas :
              \/ Conecta(k) \/ Recibe(k) \/ CodigoConsola(k) \/ SeProdujoEntrada(k)
              \/ FinConsola(k) \/ IngresarNumero(k) \/ SeVa(k)
              \/ \E largo \in Largos : IngresarCadena(k, largo)
         \/ \E c \in CPUs :
              \/ Interrupcion(c) \/ CrearHilo(c) \/ SalidaEstandar(c) \/ EntradaEstandar(c)
              \/ DevolucionCadena(c) \/ FinLlamada(c) \/ Finaliza(c) \/ FinQuantum(c)
              \/ DesconectoCPU(c)
              \/ \E t \in DOMAIN hilo : DespachaHilo(c, t) \/ Atiende(c, t)
         \/ ProducirEntrada \/ PostEntrada \/ LoaderEspera \/ Mata \/ EsperaFicha \/ DespachaNadie
BY Zenon DEF Next, Loader, Dispatcher, Consola, CPU

\* Every step keeps the types, and the sockets and owners of what there is.
LEMMA PasoTipos ==
  ASSUME TypeOK, Conectadas, Hilos, Mensajes, Pedido, [Next]_vars
  PROVE  TypeOK' /\ Estables
<1>1. CASE UNCHANGED vars
  BY <1>1, QuietosTipos
<1>2. CASE Next
  BY <1>2, Pasos, ConectaTipos, CodigoConsolaTipos, SeProdujoEntradaTipos, PostEntradaTipos,
     FinConsolaTipos, LoaderEsperaTipos, MataTipos, DispatcherTipos, DespachaTipos,
     InterrupcionTipos, CrearHiloTipos, SalidaEstandarTipos, EntradaEstandarTipos,
     ProducirEntradaTipos, DevolucionCadenaTipos, FinLlamadaTipos, FinalizaTipos,
     DesconectoCPUTipos, RecibeTipos, ConsolaTipos, Zenon
<1> QED
  BY <1>1, <1>2

-------------------------------------------------------------------------------
(* The connections and the threads *)

\* A socket that is in two entries stays in two.
LEMMA SinRepetirAntes ==
  ASSUME Estables, SinRepetir' PROVE SinRepetir
BY DEF Estables, SinRepetir

Esperas == {"espera1", "espera2", "mata"}

LEMMA ConectadasSi ==
  ASSUME TypeOK, Conectadas, Estables, DOMAIN consola_list' = DOMAIN consola_list,
         \A k \in Consolas : consola'[k].pc # "no" <=> consola[k].pc # "no",
         \A k \in Consolas : fd'[k] \in {0, fd[k]},
         loader'.pc \in Esperas => loader'.k \in Consolas /\ fd'[loader'.k] # 0
  PROVE  Conectadas'
<1>1. \A k \in Consolas : consola'[k].pc # "no" <=> k \in DOMAIN consola_list'
  BY DEF Conectadas
<1>2. \A k \in Consolas :
        fd'[k] # 0 => k \in DOMAIN consola_list' /\ fd'[k] = consola_list'[k].socket
  BY DEF Conectadas, Estables
<1>3. \A k, j \in Consolas : fd'[k] # 0 /\ fd'[k] = fd'[j] => k = j
  BY DEF Conectadas
<1> QED
  BY <1>1, <1>2, <1>3 DEF Conectadas, Esperas

LEMMA ConectaConectadas ==
  ASSUME TypeOK, Conectadas, Hilos, Estables, NEW k \in Consolas, Conecta(k)
  PROVE  Conectadas' /\ DOMAIN consola_list' = DOMAIN consola_list \cup {k}
<1> DEFINE libres == Descriptores \ ToSet(fd)
           f == Min(libres)
           nueva == [socket |-> f, padre |-> 0, hilos |-> 0, termino |-> FALSE]
           n == Len(consola_list)
<1>1. f \in libres /\ f # 0
  <2>1. libres \in SUBSET Nat /\ libres # {} /\ 0 \notin libres
    BY EntradaSalidaAssumption DEF Conecta
  <2> QED
    BY <2>1, MinDeNaturales
<1>2. \A j \in Consolas : fd[j] # f
  BY <1>1 DEF ToSet, TypeOK
<1>3. consola_list' = Append(consola_list, nueva)
  BY DEF Conecta
<1>4. n \in Nat /\ DOMAIN consola_list = 1 .. n
  BY DEF TypeOK
<1>5. n = k - 1 /\ k \in Nat \ {0}
  <2>1. k \in Nat \ {0} /\ 1 .. k \subseteq Consolas
    BY EntradaSalidaAssumption
  <2>2. consola[k].pc = "no" /\ \A j \in Consolas : j < k => consola[j].pc # "no"
    BY DEF Conecta
  <2>3. k \notin 1 .. n
    BY <1>4, <2>2 DEF Conectadas
  <2>4. \A j \in 1 .. k : j < k => j \in 1 .. n
    BY <1>4, <2>1, <2>2 DEF Conectadas
  <2>5. n < k
    BY <1>4, <2>1, <2>3
  <2>6. k = 1 \/ k - 1 \in 1 .. n
    BY <2>1, <2>4
  <2> QED
    BY <1>4, <2>1, <2>5, <2>6
<1>6. /\ DOMAIN consola_list' = 1 .. k /\ consola_list'[k] = nueva
      /\ \A p \in 1 .. k - 1 : consola_list'[p] = consola_list[p]
  <2> HIDE DEF nueva
  <2> QED
    BY <1>3, <1>4, <1>5 DEF TypeOK
<1> HIDE DEF f, libres
<1>7. consola_list'[k].socket = f
  BY <1>6
<1>8. fd' = [fd EXCEPT ![k] = f] /\ consola' = [consola EXCEPT ![k].pc = "recibe"]
      /\ UNCHANGED loader
  BY DEF Conecta, f, libres
<1>9. \A j \in Consolas : j \in Nat
  BY EntradaSalidaAssumption
<1>10. \A j \in Consolas : consola'[j].pc # "no" <=> j \in 1 .. k
  BY <1>4, <1>5, <1>8, <1>9 DEF TypeOK, Conectadas
<1>11. \A j \in Consolas : fd'[j] # 0 => j \in 1 .. k /\ fd'[j] = consola_list'[j].socket
  BY <1>4, <1>5, <1>6, <1>7, <1>8, <1>9 DEF TypeOK, Conectadas
<1>12. \A i, j \in Consolas : fd'[i] # 0 /\ fd'[i] = fd'[j] => i = j
  BY <1>2, <1>8 DEF TypeOK, Conectadas
<1>13. loader'.pc \in Esperas => loader'.k \in Consolas /\ fd'[loader'.k] # 0
  BY <1>1, <1>8 DEF TypeOK, Conectadas, Esperas
<1>14. 1 .. k = DOMAIN consola_list \cup {k}
  BY <1>4, <1>5
<1> QED
  BY <1>6, <1>10, <1>11, <1>12, <1>13, <1>14 DEF Conectadas, Esperas

\* Nobody else changes the list of consoles but in its counts.
LEMMA MismoLargo ==
  ASSUME TypeOK, [Next]_vars, \A k \in Consolas : ~ Conecta(k)
  PROVE  DOMAIN consola_list' = DOMAIN consola_list
<1>1. CASE UNCHANGED vars
  BY <1>1 DEF vars, tablas
<1>2. CASE Next
  <2>1. ASSUME NEW k \in Consolas,
               \/ Recibe(k) \/ CodigoConsola(k) \/ SeProdujoEntrada(k)
               \/ FinConsola(k) \/ IngresarNumero(k) \/ SeVa(k)
               \/ \E largo \in Largos : IngresarCadena(k, largo)
        PROVE  DOMAIN consola_list' = DOMAIN consola_list
    BY <2>1 DEF Recibe, CodigoConsola, SeProdujoEntrada, FinConsola, Desliga, IngresarNumero,
                SeVa, IngresarCadena, tablas
  <2>2. ASSUME NEW c \in CPUs,
               \/ Interrupcion(c) \/ CrearHilo(c) \/ SalidaEstandar(c) \/ EntradaEstandar(c)
               \/ DevolucionCadena(c) \/ FinLlamada(c) \/ Finaliza(c) \/ FinQuantum(c)
               \/ DesconectoCPU(c)
               \/ \E t \in DOMAIN hilo : DespachaHilo(c, t) \/ Atiende(c, t)
        PROVE  DOMAIN consola_list' = DOMAIN consola_list
    BY <2>2 DEF Interrupcion, CrearHilo, SalidaEstandar, EntradaEstandar, DevolucionCadena,
                FinLlamada, Finaliza, FinQuantum, DesconectoCPU, DespachaHilo, Atiende, Despacha,
                Sacado
  <2>3. ASSUME \/ ProducirEntrada \/ PostEntrada \/ LoaderEspera \/ Mata \/ EsperaFicha
               \/ DespachaNadie
        PROVE  DOMAIN consola_list' = DOMAIN consola_list
    BY <2>3 DEF ProducirEntrada, PostEntrada, LoaderEspera, Mata, Desliga, EsperaFicha,
                DespachaNadie, tablas
  <2> QED
    BY <1>2, <2>1, <2>2, <2>3, Pasos, Zenon
<1> QED
  BY <1>1, <1>2

LEMMA PasoConectadas ==
  ASSUME TypeOK, Conectadas, Hilos, Mensajes, Pedido, [Next]_vars
  PROVE  Conectadas'
<1>1. Estables
  BY PasoTipos
<1>2. CASE \E k \in Consolas : Conecta(k)
  BY <1>1, <1>2, ConectaConectadas
<1>3. CASE \A k \in Consolas : ~ Conecta(k)
  <2>1. DOMAIN consola_list' = DOMAIN consola_list
    BY <1>3, MismoLargo
  <2>2. ASSUME \A k \in Consolas : consola'[k].pc # "no" <=> consola[k].pc # "no",
               UNCHANGED <<fd, loader>>
        PROVE  Conectadas'
    BY <1>1, <2>1, <2>2, ConectadasSi DEF Conectadas, Esperas, TypeOK
  <2>3. ASSUME UNCHANGED consola, NEW k \in Consolas, NEW l, Desliga(k, l)
        PROVE  Conectadas'
    <3>1. \A j \in Consolas : fd'[j] \in {0, fd[j]}
      BY <2>3 DEF Desliga, TypeOK
    <3>2. loader'.pc \notin Esperas
      BY <2>3 DEF Desliga, Ocioso, Esperas
    <3> QED
      BY <1>1, <2>1, <2>3, <3>1, <3>2, ConectadasSi
  <2>4. ASSUME UNCHANGED <<consola, fd>>,
               loader'.pc \in Esperas => loader'.k \in Consolas /\ fd[loader'.k] # 0
        PROVE  Conectadas'
    BY <1>1, <2>1, <2>4, ConectadasSi DEF TypeOK
  <2>5. CASE UNCHANGED vars
    BY <2>2, <2>5 DEF vars, usuario, tablas
  <2>6. ASSUME NEW k \in Consolas,
               \/ Recibe(k) \/ IngresarNumero(k) \/ SeVa(k)
               \/ \E largo \in Largos : IngresarCadena(k, largo)
        PROVE  Conectadas'
    <3>1. consola[k].pc # "no" /\ UNCHANGED <<fd, loader>>
      BY <2>6 DEF Recibe, Lee, IngresarNumero, SeVa, IngresarCadena, tablas
    <3>2. PICK x : /\ consola' = consola \/ consola' = [consola EXCEPT ![k] = x]
                   /\ x.pc # "no"
      <4>1. CASE consola' = consola
        <5> DEFINE x == [pc |-> "recibe"]
        <5>1. x.pc # "no"
          OBVIOUS
        <5> QED
          BY <4>1, <5>1
      <4>2. CASE consola' = [consola EXCEPT ![k].pc = "fuera"]
        <5> DEFINE x == [consola[k] EXCEPT !.pc = "fuera"]
        <5>1. consola' = [consola EXCEPT ![k] = x] /\ x.pc # "no"
          BY <4>2 DEF TypeOK
        <5> QED
          BY <5>1
      <4>3. CASE \E m : consola' = [consola EXCEPT ![k] = [pc |-> "ingresa", pide |-> m]]
        <5>1. PICK m : consola' = [consola EXCEPT ![k] = [pc |-> "ingresa", pide |-> m]]
          BY <4>3
        <5> DEFINE x == [pc |-> "ingresa", pide |-> m]
        <5>2. x.pc # "no"
          OBVIOUS
        <5> QED
          BY <5>1, <5>2
      <4>4. CASE consola' = [consola EXCEPT ![k] = [pc |-> "recibe", pide |-> Nada]]
        <5> DEFINE x == [pc |-> "recibe", pide |-> Nada]
        <5>1. x.pc # "no"
          OBVIOUS
        <5> QED
          BY <4>4, <5>1
      <4>5. CASE Recibe(k)
        <5> DEFINE m == Head(aConsola[k])
        <5>1. m \in AlUsuario
          BY <4>5 DEF Recibe, Lee, TypeOK
        <5>2. m.op \in {"imprimir_en_pantalla", "ingresar_cadena", "terminar_conexion",
                        "se_desconecto_cpu"}
          BY <5>1 DEF AlUsuario, Avisos, Solicitudes
        <5> QED
          BY <4>1, <4>2, <4>3, <4>5, <5>2 DEF Recibe
      <4> QED
        BY <2>6, <4>2, <4>4, <4>5 DEF IngresarNumero, SeVa, IngresarCadena, Muere, Responde
    <3>3. \A j \in Consolas : consola'[j].pc # "no" <=> consola[j].pc # "no"
      BY <3>1, <3>2 DEF TypeOK
    <3> QED
      BY <2>2, <3>1, <3>3
  <2>7. ASSUME NEW k \in Consolas, CodigoConsola(k) PROVE Conectadas'
    BY <2>2, <2>7 DEF CodigoConsola
  <2>8. ASSUME NEW k \in Consolas, SeProdujoEntrada(k) PROVE Conectadas'
    BY <2>4, <2>8 DEF SeProdujoEntrada, LoaderLee, Ocioso, Esperas
  <2>9. ASSUME NEW k \in Consolas, FinConsola(k) PROVE Conectadas'
    BY <2>3, <2>4, <2>9 DEF FinConsola
  <2>10. CASE LoaderEspera
    BY <2>4, <2>10 DEF LoaderEspera, Conectadas, TypeOK, usuario, tablas
  <2>11. CASE Mata
    <3>1. loader.k \in Consolas
      BY <2>11 DEF Mata, Conectadas
    <3> QED
      BY <2>2, <2>3, <2>11, <3>1 DEF Mata
  <2>12. CASE PostEntrada
    BY <2>4, <2>12 DEF PostEntrada, Ocioso, Esperas, usuario, tablas
  <2>13. CASE ProducirEntrada \/ EsperaFicha \/ DespachaNadie
    BY <2>2, <2>13 DEF ProducirEntrada, EsperaFicha, DespachaNadie, usuario, tablas
  <2>14. ASSUME NEW c \in CPUs,
                \/ Interrupcion(c) \/ CrearHilo(c) \/ SalidaEstandar(c) \/ EntradaEstandar(c)
                \/ DevolucionCadena(c) \/ FinLlamada(c) \/ Finaliza(c) \/ FinQuantum(c)
                \/ DesconectoCPU(c)
                \/ \E t \in DOMAIN hilo : DespachaHilo(c, t) \/ Atiende(c, t)
         PROVE  Conectadas'
    <3>1. UNCHANGED <<consola, fd, loader>>
      BY <2>14 DEF Interrupcion, CrearHilo, SalidaEstandar, EntradaEstandar, DevolucionCadena,
                   FinLlamada, Finaliza, FinQuantum, DesconectoCPU, DespachaHilo, Atiende,
                   Despacha, usuario
    <3> QED
      BY <2>2, <3>1
  <2> QED
    BY <1>3, <2>5, <2>6, <2>7, <2>8, <2>9, <2>10, <2>11, <2>12, <2>13, <2>14, Pasos, Zenon
<1> QED
  BY <1>2, <1>3

\* A CPU keeps its thread or takes one whose process it is told.
LEMMA HilosSi ==
  ASSUME TypeOK, Hilos, Estables, DOMAIN hilo' = DOMAIN hilo,
         \A c \in CPUs : cpu'[c].pc \in Ocupada =>
           \/ cpu[c].pc \in Ocupada /\ cpu'[c].TID = cpu[c].TID /\ cpu'[c].PID = cpu[c].PID
           \/ cpu'[c].TID \in DOMAIN hilo /\ cpu'[c].PID = hilo[cpu'[c].TID].pid
  PROVE  Hilos'
<1>1. \A t \in DOMAIN hilo' : /\ hilo'[t].pid \in DOMAIN consola_list'
                              /\ SinRepetir' => hilo'[t].programa = hilo'[t].pid
  <2>1. \A t \in DOMAIN hilo' : /\ hilo'[t].pid = hilo[t].pid
                                /\ hilo'[t].programa = hilo[t].programa
    BY DEF Estables
  <2>2. \A p \in DOMAIN consola_list : p \in DOMAIN consola_list'
    BY DEF Estables
  <2>3. SinRepetir' => SinRepetir
    BY SinRepetirAntes
  <2> QED
    BY <2>1, <2>2, <2>3 DEF Hilos
<1>2. \A c \in CPUs : cpu'[c].pc \in Ocupada =>
        cpu'[c].TID \in DOMAIN hilo' /\ cpu'[c].PID = hilo'[cpu'[c].TID].pid
  BY DEF Hilos, Estables
<1> QED
  BY <1>1, <1>2 DEF Hilos

\* A new thread.
LEMMA HilosConUnoMas ==
  ASSUME TypeOK, Hilos, Estables, NEW h \in TCBs, hilo' = Append(hilo, h), UNCHANGED cpu,
         h.pid \in DOMAIN consola_list, SinRepetir => h.programa = h.pid
  PROVE  Hilos'
<1> DEFINE n == Len(hilo) + 1
<1>1. /\ DOMAIN hilo' = DOMAIN hilo \cup {n} /\ hilo'[n] = h /\ n \notin DOMAIN hilo
      /\ \A t \in DOMAIN hilo : hilo'[t] = hilo[t]
  BY DEF TypeOK
<1> HIDE DEF n
<1>2. \A p \in DOMAIN consola_list : p \in DOMAIN consola_list'
  BY DEF Estables
<1>3. SinRepetir' => SinRepetir
  BY SinRepetirAntes
<1>4. \A t \in DOMAIN hilo' : /\ hilo'[t].pid \in DOMAIN consola_list'
                              /\ SinRepetir' => hilo'[t].programa = hilo'[t].pid
  BY <1>1, <1>2, <1>3 DEF Hilos
<1>5. \A c \in CPUs : cpu'[c].pc \in Ocupada =>
        cpu'[c].TID \in DOMAIN hilo' /\ cpu'[c].PID = hilo'[cpu'[c].TID].pid
  BY <1>1 DEF Hilos
<1> QED
  BY <1>4, <1>5 DEF Hilos

\* Nobody else changes the number of threads.
LEMMA MismosTID ==
  ASSUME TypeOK, [Next]_vars, \A k \in Consolas : ~ CodigoConsola(k),
         \A c \in CPUs : ~ CrearHilo(c)
  PROVE  DOMAIN hilo' = DOMAIN hilo
<1>1. CASE UNCHANGED vars
  BY <1>1 DEF vars, tablas
<1>2. CASE Next
  <2>1. ASSUME NEW k \in Consolas,
               \/ Conecta(k) \/ Recibe(k) \/ SeProdujoEntrada(k)
               \/ FinConsola(k) \/ IngresarNumero(k) \/ SeVa(k)
               \/ \E largo \in Largos : IngresarCadena(k, largo)
        PROVE  DOMAIN hilo' = DOMAIN hilo
    BY <2>1 DEF Conecta, Recibe, SeProdujoEntrada, FinConsola, Desliga, IngresarNumero,
                SeVa, IngresarCadena, tablas
  <2>2. ASSUME NEW c \in CPUs,
               \/ Interrupcion(c) \/ SalidaEstandar(c) \/ EntradaEstandar(c)
               \/ DevolucionCadena(c) \/ FinLlamada(c) \/ Finaliza(c) \/ FinQuantum(c)
               \/ DesconectoCPU(c)
               \/ \E t \in DOMAIN hilo : DespachaHilo(c, t) \/ Atiende(c, t)
        PROVE  DOMAIN hilo' = DOMAIN hilo
    BY <2>2 DEF Interrupcion, SalidaEstandar, EntradaEstandar, DevolucionCadena,
                FinLlamada, Finaliza, FinQuantum, DesconectoCPU, DespachaHilo, Atiende, Despacha
  <2>3. ASSUME \/ ProducirEntrada \/ PostEntrada \/ LoaderEspera \/ Mata \/ EsperaFicha
               \/ DespachaNadie
        PROVE  DOMAIN hilo' = DOMAIN hilo
    BY <2>3 DEF ProducirEntrada, PostEntrada, LoaderEspera, Mata, Desliga, EsperaFicha,
                DespachaNadie, tablas
  <2> QED
    BY <1>2, <2>1, <2>2, <2>3, Pasos, Zenon
<1> QED
  BY <1>1, <1>2

LEMMA PasoHilos ==
  ASSUME TypeOK, Conectadas, Hilos, Mensajes, Pedido, [Next]_vars
  PROVE  Hilos'
<1>1. Estables
  BY PasoTipos
<1>2. ASSUME NEW k \in Consolas, CodigoConsola(k) PROVE Hilos'
  <2> DEFINE e == Entrada(k)
  <2>1. /\ e \in DOMAIN consola_list /\ e \in Nat
        /\ SinRepetir => e = k
    BY <1>2, EntradaDeConsola DEF CodigoConsola, LoaderLee, TypeOK
  <2>2. PICK x \in Estados : hilo' = Append(hilo, [pid |-> e, programa |-> k, estado |-> x])
    BY <1>2 DEF CodigoConsola, Estados
  <2> DEFINE h == [pid |-> e, programa |-> k, estado |-> x]
  <2> HIDE DEF e
  <2>3. h \in TCBs /\ h.pid \in DOMAIN consola_list /\ (SinRepetir => h.programa = h.pid)
    BY <2>1 DEF TCBs, Estados
  <2>4. hilo' = Append(hilo, h) /\ UNCHANGED cpu
    BY <1>2, <2>2 DEF CodigoConsola
  <2> HIDE DEF h
  <2> QED
    BY <1>1, <2>3, <2>4, HilosConUnoMas
<1>3. ASSUME NEW c \in CPUs, CrearHilo(c) PROVE Hilos'
  <2> DEFINE h == [pid |-> cpu[c].PID, programa |-> hilo[cpu[c].TID].programa,
                   estado |-> "listo"]
  <2>1. /\ cpu[c].PID \in DOMAIN consola_list /\ cpu[c] \in Turnos
        /\ hilo[cpu[c].TID] \in TCBs
        /\ SinRepetir => hilo[cpu[c].TID].programa = cpu[c].PID
    BY <1>3, LaDeUnaCPU DEF CrearHilo, Ocupada
  <2>2. h \in TCBs /\ h.pid \in DOMAIN consola_list /\ (SinRepetir => h.programa = h.pid)
    BY <2>1 DEF TCBs, Turnos
  <2>3. hilo' = Append(hilo, h) /\ UNCHANGED cpu
    BY <1>3 DEF CrearHilo
  <2> HIDE DEF h
  <2> QED
    BY <1>1, <2>2, <2>3, HilosConUnoMas
<1>4. CASE (\A k \in Consolas : ~ CodigoConsola(k)) /\ (\A c \in CPUs : ~ CrearHilo(c))
  <2>1. DOMAIN hilo' = DOMAIN hilo
    BY <1>4, MismosTID
  <2>2. CASE \A c \in CPUs : cpu'[c].pc \in Ocupada =>
               cpu[c].pc \in Ocupada /\ cpu'[c].TID = cpu[c].TID /\ cpu'[c].PID = cpu[c].PID
    BY <1>1, <2>1, <2>2, HilosSi
  <2>3. ASSUME NEW c \in CPUs, NEW t \in DOMAIN hilo, DespachaHilo(c, t) \/ Atiende(c, t)
        PROVE  Hilos'
    <3>1. PICK modo : cpu' = [cpu EXCEPT ![c] = [Libre EXCEPT !.pc = modo, !.TID = t,
                                                              !.PID = hilo[t].pid]]
      BY <2>3 DEF DespachaHilo, Atiende, Despacha
    <3> DEFINE r == [Libre EXCEPT !.pc = modo, !.TID = t, !.PID = hilo[t].pid]
    <3>2. r.TID = t /\ r.PID = hilo[t].pid
      BY DEF Libre
    <3> HIDE DEF r
    <3>3. cpu'[c] = r /\ \A d \in CPUs : d # c => cpu'[d] = cpu[d]
      BY <3>1 DEF TypeOK, r
    <3> QED
      BY <1>1, <2>1, <3>2, <3>3, HilosSi
  <2>4. CASE UNCHANGED cpu
    BY <2>2, <2>4
  <2>5. ASSUME NEW c \in CPUs, cpu' = [cpu EXCEPT ![c] = Libre]
               \/ cpu' = [cpu EXCEPT ![c] = [Libre EXCEPT !.pc = "ausente"]]
        PROVE  Hilos'
    <3>1. cpu'[c].pc \notin Ocupada /\ \A d \in CPUs : d # c => cpu'[d] = cpu[d]
      BY <2>5 DEF Libre, Ocupada, TypeOK
    <3> QED
      BY <2>2, <3>1
  <2>6. ASSUME NEW c \in CPUs, EntradaEstandar(c) \/ DevolucionCadena(c)
        PROVE  Hilos'
    <3>1. cpu[c].pc \in Ocupada /\ cpu'[c].TID = cpu[c].TID /\ cpu'[c].PID = cpu[c].PID
          /\ \A d \in CPUs : d # c => cpu'[d] = cpu[d]
      BY <2>6 DEF EntradaEstandar, DevolucionCadena, Ocupada, TypeOK, Turnos
    <3> QED
      BY <2>2, <3>1
  <2>7. ASSUME NEW k \in Consolas, SeProdujoEntrada(k) PROVE Hilos'
    <3>1. \A d \in CPUs : /\ cpu'[d].pc = cpu[d].pc /\ cpu'[d].TID = cpu[d].TID
                          /\ cpu'[d].PID = cpu[d].PID
      <4>1. PICK x, m : cpu' = cpu \/ cpu' = [cpu EXCEPT ![x].respuesta = m]
        BY <2>7 DEF SeProdujoEntrada
      <4>2. \A r \in Turnos : /\ [r EXCEPT !.respuesta = m].pc = r.pc
                              /\ [r EXCEPT !.respuesta = m].TID = r.TID
                              /\ [r EXCEPT !.respuesta = m].PID = r.PID
        BY DEF Turnos
      <4>3. cpu \in [CPUs -> Turnos]
        BY DEF TypeOK
      <4>4. \A d \in CPUs : cpu'[d] = cpu[d] \/ cpu'[d] = [cpu[d] EXCEPT !.respuesta = m]
        BY <4>1, <4>3
      <4> QED
        BY <4>2, <4>3, <4>4
    <3> QED
      BY <2>2, <3>1
  <2>8. CASE UNCHANGED vars
    BY <2>4, <2>8 DEF vars, tablas
  <2>9. ASSUME NEW k \in Consolas,
               \/ Conecta(k) \/ Recibe(k) \/ FinConsola(k) \/ IngresarNumero(k) \/ SeVa(k)
               \/ \E largo \in Largos : IngresarCadena(k, largo)
        PROVE  Hilos'
    BY <2>4, <2>9 DEF Conecta, Recibe, FinConsola, IngresarNumero, SeVa, IngresarCadena, tablas
  <2>10. ASSUME NEW c \in CPUs,
                \/ Interrupcion(c) \/ SalidaEstandar(c) \/ FinLlamada(c) \/ Finaliza(c)
                \/ FinQuantum(c) \/ DesconectoCPU(c)
         PROVE  Hilos'
    BY <2>4, <2>5, <2>10 DEF Interrupcion, SalidaEstandar, FinLlamada, Finaliza, FinQuantum,
                             DesconectoCPU
  <2>11. CASE \/ ProducirEntrada \/ PostEntrada \/ LoaderEspera \/ Mata \/ EsperaFicha
              \/ DespachaNadie
    BY <2>4, <2>11 DEF ProducirEntrada, PostEntrada, LoaderEspera, Mata, EsperaFicha,
                       DespachaNadie, tablas
  <2> QED
    BY <1>4, <2>3, <2>6, <2>7, <2>8, <2>9, <2>10, <2>11, Pasos, Zenon
<1> QED
  BY <1>2, <1>3, <1>4

-------------------------------------------------------------------------------
(* The messages *)

\* DeSuPrograma after the step.
Propio(k, m) ==
  m.op \in {"imprimir_en_pantalla", "ingresar_cadena", "terminar_conexion"} =>
    m.de \in DOMAIN hilo' /\ hilo'[m.de].programa = k /\ hilo'[m.de].pid = k

LEMMA MensajesSi ==
  ASSUME Estables, Mensajes,
         \A k \in Consolas : \A i \in DOMAIN aConsola'[k] :
           \/ \E j \in DOMAIN aConsola[k] : aConsola'[k][i] = aConsola[k][j]
           \/ SinRepetir => Propio(k, aConsola'[k][i]),
         \A k \in Consolas : \/ consola'[k].pide = consola[k].pide \/ consola'[k].pide = Nada
                             \/ \E j \in DOMAIN aConsola[k] : consola'[k].pide = aConsola[k][j],
         \A k \in Consolas : consola'[k].pc = "ingresa" => consola'[k].pide \in Solicitudes
  PROVE  Mensajes'
<1>1. ASSUME SinRepetir', NEW k \in Consolas
      PROVE  /\ \A i \in DOMAIN aConsola'[k] : DeSuPrograma(k, aConsola[k][i])'
             /\ DeSuPrograma(k, consola[k].pide)'
  <2>1. SinRepetir
    BY <1>1, SinRepetirAntes
  <2>2. ASSUME NEW m, DeSuPrograma(k, m) PROVE Propio(k, m)
    BY <2>2 DEF DeSuPrograma, Propio, Estables
  <2>3. \A i \in DOMAIN aConsola'[k] : Propio(k, aConsola'[k][i])
    BY <2>1, <2>2 DEF Mensajes
  <2>4. Propio(k, Nada)
    BY DEF Propio, Nada
  <2>5. Propio(k, consola'[k].pide)
    BY <2>1, <2>2, <2>4 DEF Mensajes
  <2> QED
    BY <2>3, <2>5 DEF Propio, DeSuPrograma
<1> QED
  BY <1>1 DEF Mensajes

\* What is sent to a process comes from a thread of it.
LEMMA MensajesTrasEnviar ==
  ASSUME TypeOK, Conectadas, Estables, Mensajes,
         NEW p \in DOMAIN consola_list, NEW ms \in Seq(AlUsuario), Enviar(p, ms),
         UNCHANGED consola,
         SinRepetir => \A i \in DOMAIN ms : Propio(p, ms[i])
  PROVE  Mensajes'
<1>1. ASSUME NEW k \in Consolas, NEW i \in DOMAIN aConsola'[k]
      PROVE  \/ \E j \in DOMAIN aConsola[k] : aConsola'[k][i] = aConsola[k][j]
             \/ SinRepetir => Propio(k, aConsola'[k][i])
  <2>1. CASE aConsola'[k] = aConsola[k]
    BY <1>1, <2>1
  <2>2. CASE k \in Actual(p) /\ aConsola'[k] = aConsola[k] \o ms
    <3>1. aConsola[k] \in Seq(AlUsuario)
      BY DEF TypeOK
    <3>2. SinRepetir => k = p
      BY <2>2, UnSoloDestino
    <3>3. \/ i \in DOMAIN aConsola[k] /\ aConsola'[k][i] = aConsola[k][i]
          \/ \E l \in DOMAIN ms : aConsola'[k][i] = ms[l]
      <4> DEFINE a == aConsola[k]
                 b == aConsola'[k]
      <4>1. a \in Seq(AlUsuario) /\ b = a \o ms /\ i \in DOMAIN b
        BY <1>1, <2>2, <3>1
      <4> HIDE DEF a, b
      <4>2. /\ DOMAIN b = 1 .. Len(a) + Len(ms) /\ Len(a) \in Nat /\ Len(ms) \in Nat
            /\ \A j \in 1 .. Len(a) + Len(ms) :
                 b[j] = IF j <= Len(a) THEN a[j] ELSE ms[j - Len(a)]
        BY <4>1, ConcatProperties
      <4>3. CASE i <= Len(a)
        BY <4>1, <4>2, <4>3 DEF a, b
      <4>4. CASE ~(i <= Len(a))
        <5>1. i - Len(a) \in DOMAIN ms /\ b[i] = ms[i - Len(a)]
          BY <4>1, <4>2, <4>4
        <5> QED
          BY <5>1 DEF b
      <4> QED
        BY <4>3, <4>4
    <3> QED
      BY <3>2, <3>3
  <2> QED
    BY <2>1, <2>2, LoEnviado
<1>2. \A k \in Consolas : consola'[k].pc = "ingresa" => consola'[k].pide \in Solicitudes
  BY DEF Mensajes
<1> QED
  BY <1>1, <1>2, MensajesSi

\* What a console is after it ends, and when it changes in another way.
Fuera(k) == consola' = [consola EXCEPT ![k].pc = "fuera"]

LEMMA ConsolaFuera ==
  ASSUME TypeOK, NEW k \in Consolas, Fuera(k)
  PROVE  \A j \in Consolas : /\ consola'[j].pide = consola[j].pide
                             /\ j # k => consola'[j] = consola[j]
                             /\ j = k => consola'[j].pc = "fuera"
<1>1. \A r \in EstadosConsola : /\ [r EXCEPT !.pc = "fuera"].pide = r.pide
                                /\ [r EXCEPT !.pc = "fuera"].pc = "fuera"
  BY DEF EstadosConsola
<1>2. consola \in [Consolas -> EstadosConsola]
  BY DEF TypeOK, EstadosConsola
<1>3. PICK x : x = [consola[k] EXCEPT !.pc = "fuera"]
  OBVIOUS
<1>4. x.pide = consola[k].pide /\ x.pc = "fuera"
  BY <1>1, <1>2, <1>3
<1>5. consola' = [consola EXCEPT ![k] = x]
  BY <1>3 DEF Fuera
<1> QED
  BY <1>2, <1>4, <1>5

LEMMA ConsolaOtra ==
  ASSUME TypeOK, NEW k \in Consolas, NEW x, consola' = [consola EXCEPT ![k] = x]
  PROVE  \A j \in Consolas : consola'[j] = IF j = k THEN x ELSE consola[j]
BY DEF TypeOK

LEMMA RecibeMensajes ==
  ASSUME TypeOK, Estables, Mensajes, NEW k \in Consolas, Recibe(k)
  PROVE  Mensajes'
<1> DEFINE a == aConsola[k]
           m == Head(a)
<1>1. a \in Seq(AlUsuario) /\ a # <<>> /\ consola[k].pc = "recibe"
  BY DEF TypeOK, Recibe, Lee
<1>2. /\ 1 \in DOMAIN a /\ m = a[1] /\ m \in AlUsuario
      /\ \A i \in DOMAIN Tail(a) : i + 1 \in DOMAIN a /\ Tail(a)[i] = a[i + 1]
  BY <1>1
<1>3. aConsola' = [aConsola EXCEPT ![k] = Tail(a)]
  BY DEF Recibe
<1>4. \A j \in Consolas : \A i \in DOMAIN aConsola'[j] :
        \E l \in DOMAIN aConsola[j] : aConsola'[j][i] = aConsola[j][l]
  <2>1. \A i \in DOMAIN Tail(a) : \E l \in DOMAIN a : Tail(a)[i] = a[l]
    BY <1>2
  <2> QED
    BY <1>3, <2>1 DEF TypeOK
<1>5. m.op \in {"imprimir_en_pantalla", "ingresar_cadena", "terminar_conexion",
                "se_desconecto_cpu"}
  BY <1>2 DEF AlUsuario, Avisos, Solicitudes
<1>6. m.op = "ingresar_cadena" => m \in Solicitudes
  BY <1>2 DEF AlUsuario, Avisos
<1> HIDE DEF m
<1>7. \/ UNCHANGED consola
      \/ m.op = "ingresar_cadena" /\ consola' = [consola EXCEPT ![k] = [pc |-> "ingresa", pide |-> m]]
      \/ Fuera(k)
  BY <1>5 DEF Recibe, m, Fuera
<1>8. ASSUME NEW j \in Consolas
      PROVE  /\ \/ consola'[j].pide = consola[j].pide
                \/ \E l \in DOMAIN aConsola[j] : consola'[j].pide = aConsola[j][l]
             /\ consola'[j].pc = "ingresa" => consola'[j].pide \in Solicitudes
  <2>1. CASE UNCHANGED consola
    BY <2>1 DEF Mensajes
  <2>2. CASE m.op = "ingresar_cadena" /\ consola' = [consola EXCEPT ![k] = [pc |-> "ingresa", pide |-> m]]
    <3> DEFINE x == [pc |-> "ingresa", pide |-> m]
    <3>1. x.pide = m
      OBVIOUS
    <3>2. consola' = [consola EXCEPT ![k] = x]
      BY <2>2
    <3> HIDE DEF x
    <3>3. consola'[j] = IF j = k THEN x ELSE consola[j]
      BY <3>2, ConsolaOtra
    <3> QED
      BY <1>2, <1>6, <2>2, <3>1, <3>3 DEF Mensajes
  <2>3. CASE Fuera(k)
    <3>1. \A i \in Consolas : /\ consola'[i].pide = consola[i].pide
                              /\ i # k => consola'[i] = consola[i]
                              /\ i = k => consola'[i].pc = "fuera"
      BY <2>3, ConsolaFuera
    <3> QED
      BY <3>1 DEF Mensajes
  <2> QED
    BY <1>7, <2>1, <2>2, <2>3
<1> QED
  BY <1>4, <1>8, MensajesSi

\* The words of the CPU's thread, but for a request of input.
DeLaCPU(c) == {m \in Avisos : m.de = cpu[c].TID}

LEMMA PalabrasDeLaCPU ==
  ASSUME TypeOK, Hilos, Estables, NEW c \in CPUs, cpu[c].pc \in Ocupada
  PROVE  /\ \A m : m.de = cpu[c].TID => (SinRepetir => Propio(cpu[c].PID, m))
         /\ \A ms \in Seq(DeLaCPU(c)) :
              /\ ms \in Seq(AlUsuario) /\ ms \in Seq(Avisos)
              /\ SinRepetir => \A i \in DOMAIN ms : Propio(cpu[c].PID, ms[i])
<1>1. ASSUME NEW m, m.de = cpu[c].TID, SinRepetir PROVE Propio(cpu[c].PID, m)
  BY <1>1, LaDeUnaCPU DEF Propio, Estables
<1>2. ASSUME NEW ms \in Seq(DeLaCPU(c))
      PROVE  /\ ms \in Seq(AlUsuario) /\ ms \in Seq(Avisos)
             /\ \A i \in DOMAIN ms : ms[i].de = cpu[c].TID
  <2>1. \A i \in DOMAIN ms : ms[i] \in DeLaCPU(c)
    BY <1>2
  <2>2. DeLaCPU(c) \subseteq AlUsuario /\ DeLaCPU(c) \subseteq Avisos
    BY DEF DeLaCPU, AlUsuario
  <2>3. ms \in Seq(AlUsuario) /\ ms \in Seq(Avisos)
    BY <1>2, <2>2
  <2> QED
    BY <2>1, <2>3 DEF DeLaCPU
<1> QED
  BY <1>1, <1>2

\* What sacar_de_ejecucion and desconecto_cpu say.
LEMMA DespedidaDeLaCPU ==
  ASSUME TypeOK, NEW c \in CPUs
  PROVE  /\ Despedida(c) \in Seq(DeLaCPU(c))
         /\ <<[op |-> "imprimir_en_pantalla", de |-> cpu[c].TID]>> \in Seq(DeLaCPU(c))
         /\ \A b \in BOOLEAN : (IF b THEN <<>> ELSE <<[op |-> "se_desconecto_cpu", de |-> cpu[c].TID]>>)
                               \o Despedida(c) \in Seq(DeLaCPU(c))
<1>1. cpu[c].TID \in Nat
  BY DEF TypeOK, Turnos
<1>2. /\ [op |-> "terminar_conexion", de |-> cpu[c].TID] \in DeLaCPU(c)
      /\ [op |-> "imprimir_en_pantalla", de |-> cpu[c].TID] \in DeLaCPU(c)
      /\ [op |-> "se_desconecto_cpu", de |-> cpu[c].TID] \in DeLaCPU(c)
  BY <1>1 DEF DeLaCPU, Avisos
<1>3. Despedida(c) \in Seq(DeLaCPU(c))
  BY <1>2 DEF Despedida
<1>4. \A b \in BOOLEAN : (IF b THEN <<>> ELSE <<[op |-> "se_desconecto_cpu", de |-> cpu[c].TID]>>)
                         \in Seq(DeLaCPU(c))
  BY <1>2
<1> QED
  BY <1>2, <1>3, <1>4

LEMMA MensajesIguales ==
  ASSUME Estables, Mensajes, UNCHANGED aConsola,
         \A k \in Consolas : consola'[k].pide \in {consola[k].pide, Nada},
         \A k \in Consolas : consola'[k].pc = "ingresa" => consola'[k].pide \in Solicitudes
  PROVE  Mensajes'
BY MensajesSi

LEMMA MensajesDeCodigo ==
  ASSUME TypeOK, Conectadas, Estables, Mensajes, NEW k \in Consolas, CodigoConsola(k)
  PROVE  Mensajes'
<1> DEFINE e == Entrada(k)
           t == Len(hilo) + 1
           m == [op |-> "terminar_conexion", de |-> t]
<1>1. CASE UNCHANGED aConsola
  BY <1>1, MensajesIguales DEF CodigoConsola, Mensajes
<1>2. CASE Enviar(e, <<m>>) /\ hilo' = Append(hilo, [pid |-> e, programa |-> k, estado |-> "exit"])
  <2>1. e \in DOMAIN consola_list /\ (SinRepetir => e = k)
    BY EntradaDeConsola DEF CodigoConsola, LoaderLee
  <2>2. t \in Nat /\ m.de = t
    BY DEF TypeOK
  <2>3. m \in AlUsuario
    BY <2>2 DEF AlUsuario, Avisos
  <2>4. t \in DOMAIN hilo' /\ hilo'[t].programa = k /\ hilo'[t].pid = e
    <3> DEFINE h == [pid |-> e, programa |-> k, estado |-> "exit"]
    <3>1. h.programa = k /\ h.pid = e
      OBVIOUS
    <3> HIDE DEF h, e
    <3>2. hilo' = Append(hilo, h)
      BY <1>2 DEF h, e
    <3>3. t \in DOMAIN hilo' /\ hilo'[t] = h
      BY <3>2 DEF TypeOK
    <3> QED
      BY <3>1, <3>3
  <2>5. SinRepetir => Propio(e, m)
    BY <2>1, <2>2, <2>4 DEF Propio
  <2>6. Enviar(e, <<m>>)
    BY <1>2
  <2>7. UNCHANGED consola
    BY DEF CodigoConsola
  <2> HIDE DEF m, e
  <2>8. <<m>> \in Seq(AlUsuario) /\ Len(<<m>>) = 1 /\ <<m>>[1] = m
    BY <2>3, UnMensaje
  <2>9. SinRepetir => \A i \in DOMAIN <<m>> : Propio(e, <<m>>[i])
    BY <2>5, <2>8
  <2> QED
    BY <2>1, <2>6, <2>7, <2>8, <2>9, MensajesTrasEnviar
<1> QED
  BY <1>1, <1>2 DEF CodigoConsola

LEMMA MensajesDeCPU ==
  ASSUME TypeOK, Conectadas, Hilos, Estables, Mensajes, NEW c \in CPUs,
         SalidaEstandar(c) \/ Finaliza(c) \/ DesconectoCPU(c)
  PROVE  Mensajes'
<1> DEFINE p == cpu[c].PID
           aviso == [op |-> "se_desconecto_cpu", de |-> cpu[c].TID]
<1>1. cpu[c].pc \in Ocupada /\ UNCHANGED consola
  BY DEF SalidaEstandar, Finaliza, DesconectoCPU, Ocupada
<1>2. p \in DOMAIN consola_list /\ consola_list[p] \in Entradas
  BY <1>1, LaDeUnaCPU
<1>3. ASSUME NEW ms \in Seq(DeLaCPU(c)), Enviar(p, ms) PROVE Mensajes'
  <2>1. ms \in Seq(AlUsuario) /\ (SinRepetir => \A i \in DOMAIN ms : Propio(p, ms[i]))
    BY <1>1, <1>3, PalabrasDeLaCPU
  <2> QED
    BY <1>1, <1>2, <1>3, <2>1, MensajesTrasEnviar
<1>4. CASE SalidaEstandar(c)
  BY <1>3, <1>4, DespedidaDeLaCPU DEF SalidaEstandar
<1>5. CASE Finaliza(c)
  BY <1>3, <1>5, DespedidaDeLaCPU DEF Finaliza
<1>6. CASE DesconectoCPU(c)
  <2>1. CASE Enviar(p, (IF consola_list[p].termino THEN <<>> ELSE <<aviso>>) \o Despedida(c))
    <3>1. consola_list[p].termino \in BOOLEAN
      BY <1>2 DEF Entradas
    <3> QED
      BY <1>3, <2>1, <3>1, DespedidaDeLaCPU
  <2>2. CASE aConsola' = [k \in Consolas |-> IF fd[k] = 0 THEN aConsola[k]
                                             ELSE Append(aConsola[k], aviso)]
    <3> DEFINE s(k) == aConsola'[k]
    <3>1. ASSUME NEW k \in Consolas, NEW i \in DOMAIN aConsola'[k]
          PROVE  \/ \E j \in DOMAIN aConsola[k] : aConsola'[k][i] = aConsola[k][j]
                 \/ SinRepetir => Propio(k, aConsola'[k][i])
      <4>1. Propio(k, aviso)
        BY DEF Propio
      <4> HIDE DEF aviso
      <4>2. CASE aConsola'[k] = aConsola[k]
        BY <3>1, <4>2
      <4>3. CASE aConsola'[k] = Append(aConsola[k], aviso)
        <5>1. aConsola[k] \in Seq(AlUsuario)
          BY DEF TypeOK
        <5>2. \/ i \in DOMAIN aConsola[k] /\ aConsola'[k][i] = aConsola[k][i]
              \/ aConsola'[k][i] = aviso
          BY <3>1, <4>3, <5>1
        <5> QED
          BY <4>1, <5>2
      <4> QED
        BY <2>2, <4>2, <4>3
    <3>2. \A k \in Consolas : consola'[k].pc = "ingresa" => consola'[k].pide \in Solicitudes
      BY <1>1 DEF Mensajes
    <3> QED
      BY <1>1, <3>1, <3>2, MensajesSi
  <2> QED
    BY <1>6, <2>1, <2>2 DEF DesconectoCPU
<1> QED
  BY <1>4, <1>5, <1>6

LEMMA MensajesDePedido ==
  ASSUME TypeOK, Conectadas, Hilos, Estables, Mensajes, Pedido, ProducirEntrada
  PROVE  Mensajes'
<1> DEFINE c == planificador.cpu
<1>1. /\ c \in CPUs /\ cpu[c].pc \in Ocupada /\ UNCHANGED consola
      /\ cpu[c] \in Turnos /\ cpu[c].pedido \in Pedidos
  BY DEF TypeOK, Pedido, Turno, ProducirEntrada, Ocupada
<1>2. PICK b \in Basura :
        Enviar(cpu[c].PID, <<[op |-> "ingresar_cadena", de |-> cpu[c].TID,
                              pedido |-> cpu[c].pedido, basura |-> b]>>)
  BY DEF ProducirEntrada
<1> DEFINE m == [op |-> "ingresar_cadena", de |-> cpu[c].TID, pedido |-> cpu[c].pedido, basura |-> b]
<1>3. m \in AlUsuario /\ m.de = cpu[c].TID
  BY <1>1 DEF AlUsuario, Solicitudes, Turnos
<1>4. Enviar(cpu[c].PID, <<m>>)
  BY <1>2
<1> HIDE DEF m, c
<1>5. cpu[c].PID \in DOMAIN consola_list
  BY <1>1, LaDeUnaCPU
<1>6. SinRepetir => Propio(cpu[c].PID, m)
  BY <1>1, <1>3, PalabrasDeLaCPU
<1>7. <<m>> \in Seq(AlUsuario) /\ Len(<<m>>) = 1 /\ <<m>>[1] = m
  BY <1>3, UnMensaje
<1>8. SinRepetir => \A i \in DOMAIN <<m>> : Propio(cpu[c].PID, <<m>>[i])
  BY <1>6, <1>7
<1> QED
  BY <1>1, <1>4, <1>5, <1>7, <1>8, MensajesTrasEnviar

\* A console that leaves, or answers.
LEMMA LaConsolaDespues ==
  ASSUME NEW k \in Consolas,
         \/ IngresarNumero(k) \/ SeVa(k)
         \/ \E largo \in Largos : IngresarCadena(k, largo)
  PROVE  /\ UNCHANGED <<aConsola, tablas, pedidos, loader, avisos, caida>>
         /\ \/ Muere(k) /\ Fuera(k)
            \/ consola[k].pc = "ingresa" /\ \E n : Responde(k, n)
BY DEF IngresarNumero, SeVa, IngresarCadena, Muere, Fuera

LEMMA MensajesDeConsola ==
  ASSUME TypeOK, Estables, Mensajes, NEW k \in Consolas,
         \/ IngresarNumero(k) \/ SeVa(k)
         \/ \E largo \in Largos : IngresarCadena(k, largo)
  PROVE  Mensajes'
<1>1. CASE Fuera(k)
  <2>1. \A i \in Consolas : /\ consola'[i].pide = consola[i].pide
                            /\ i # k => consola'[i] = consola[i]
                            /\ i = k => consola'[i].pc = "fuera"
    BY <1>1, ConsolaFuera
  <2>2. \A i \in Consolas : consola'[i].pc = "ingresa" => consola'[i].pide \in Solicitudes
    BY <2>1 DEF Mensajes
  <2> QED
    BY <2>1, <2>2, LaConsolaDespues, MensajesIguales
<1>2. CASE \E n : Responde(k, n)
  <2> DEFINE x == [pc |-> "recibe", pide |-> Nada]
  <2>1. x.pc = "recibe" /\ x.pide = Nada /\ consola' = [consola EXCEPT ![k] = x]
    BY <1>2 DEF Responde
  <2> HIDE DEF x
  <2>2. \A i \in Consolas : consola'[i] = IF i = k THEN x ELSE consola[i]
    BY <2>1, ConsolaOtra
  <2>3. \A i \in Consolas : consola'[i].pide \in {consola[i].pide, Nada}
    BY <2>1, <2>2
  <2>4. \A i \in Consolas : consola'[i].pc = "ingresa" => consola'[i].pide \in Solicitudes
    BY <2>1, <2>2 DEF Mensajes
  <2>5. UNCHANGED aConsola
    BY LaConsolaDespues
  <2> QED
    BY <2>3, <2>4, <2>5, MensajesIguales
<1> QED
  BY <1>1, <1>2, LaConsolaDespues

LEMMA PasoMensajes ==
  ASSUME TypeOK, Conectadas, Hilos, Mensajes, Pedido, [Next]_vars
  PROVE  Mensajes'
<1>1. Estables
  BY PasoTipos
<1>2. ASSUME UNCHANGED <<consola, aConsola>> PROVE Mensajes'
  BY <1>1, <1>2, MensajesIguales DEF Mensajes
<1>3. CASE UNCHANGED vars
  BY <1>2, <1>3 DEF vars, usuario
<1>4. ASSUME NEW k \in Consolas, Conecta(k) PROVE Mensajes'
  <2>1. UNCHANGED aConsola
    BY <1>4 DEF Conecta
  <2>2. \A j \in Consolas : consola'[j].pide = consola[j].pide
                            /\ (consola'[j].pc = "ingresa" => consola[j].pc = "ingresa")
    <3>1. \A r \in EstadosConsola : /\ [r EXCEPT !.pc = "recibe"].pide = r.pide
                                    /\ [r EXCEPT !.pc = "recibe"].pc = "recibe"
      BY DEF EstadosConsola
    <3>2. consola \in [Consolas -> EstadosConsola]
      BY DEF TypeOK, EstadosConsola
    <3>3. PICK x : x = [consola[k] EXCEPT !.pc = "recibe"]
      OBVIOUS
    <3>4. x.pide = consola[k].pide /\ x.pc = "recibe"
      BY <3>1, <3>2, <3>3
    <3>5. consola' = [consola EXCEPT ![k] = x]
      BY <1>4, <3>3 DEF Conecta
    <3> QED
      BY <3>2, <3>4, <3>5
  <2>3. \A j \in Consolas : consola'[j].pc = "ingresa" => consola'[j].pide \in Solicitudes
    BY <2>2 DEF Mensajes
  <2> QED
    BY <1>1, <2>1, <2>2, <2>3, MensajesIguales
<1>5. ASSUME NEW k \in Consolas, Recibe(k) PROVE Mensajes'
  BY <1>1, <1>5, RecibeMensajes
<1>6. ASSUME NEW k \in Consolas, CodigoConsola(k) PROVE Mensajes'
  BY <1>1, <1>6, MensajesDeCodigo
<1>7. ASSUME NEW k \in Consolas,
             \/ IngresarNumero(k) \/ SeVa(k)
             \/ \E largo \in Largos : IngresarCadena(k, largo)
      PROVE  Mensajes'
  BY <1>1, <1>7, MensajesDeConsola
<1>8. ASSUME NEW k \in Consolas, SeProdujoEntrada(k) \/ FinConsola(k) PROVE Mensajes'
  BY <1>2, <1>8 DEF SeProdujoEntrada, FinConsola
<1>9. ASSUME NEW c \in CPUs, SalidaEstandar(c) \/ Finaliza(c) \/ DesconectoCPU(c)
      PROVE  Mensajes'
  BY <1>1, <1>9, MensajesDeCPU
<1>10. ASSUME NEW c \in CPUs,
              \/ Interrupcion(c) \/ CrearHilo(c) \/ EntradaEstandar(c) \/ DevolucionCadena(c)
              \/ FinLlamada(c) \/ FinQuantum(c)
              \/ \E t \in DOMAIN hilo : DespachaHilo(c, t) \/ Atiende(c, t)
       PROVE  Mensajes'
  BY <1>2, <1>10 DEF Interrupcion, CrearHilo, EntradaEstandar, DevolucionCadena, FinLlamada,
                     FinQuantum, DespachaHilo, Atiende, Despacha, usuario
<1>11. CASE ProducirEntrada
  BY <1>1, <1>11, MensajesDePedido
<1>12. CASE PostEntrada \/ LoaderEspera \/ Mata \/ EsperaFicha \/ DespachaNadie
  BY <1>2, <1>12 DEF PostEntrada, LoaderEspera, Mata, EsperaFicha, DespachaNadie, usuario
<1> QED
  BY <1>3, <1>4, <1>5, <1>6, <1>7, <1>8, <1>9, <1>10, <1>11, <1>12, Pasos, Zenon

-------------------------------------------------------------------------------
(* The request on its way *)

\* A step that leaves the request alone.  A CPU that waits without an answer goes on so,
\* or leaves; and in that case planificador waits for nobody.
LEMMA TurnoSi ==
  ASSUME TypeOK, Turno, UNCHANGED <<entrada, mutex_entradaSalida, planificador>>,
         loader'.pc = "post" <=> loader.pc = "post",
         \A c \in CPUs : cpu[c].pc \in {"espera", "ausente"} /\ cpu[c].respuesta = Nada =>
           \/ cpu'[c] = cpu[c]
           \/ planificador = Nada /\ cpu'[c].pc = "ausente" /\ cpu'[c].respuesta = Nada
  PROVE  Turno'
<1>1. /\ planificador # Nada => planificador.cpu \in CPUs
      /\ entrada # Nada => entrada.cpu \in CPUs
  BY DEF TypeOK
<1>2. mutex_entradaSalida' = IF entrada' # Nada \/ loader'.pc = "post" THEN 0 ELSE 1
  BY DEF Turno
<1>3. ~ (entrada' # Nada /\ loader'.pc = "post")
  BY DEF Turno
<1>4. planificador # Nada => cpu'[planificador.cpu] = cpu[planificador.cpu]
  BY <1>1 DEF Turno
<1>5. entrada # Nada => /\ cpu'[entrada.cpu].pc \in {"espera", "ausente"}
                        /\ cpu'[entrada.cpu].respuesta = Nada
  BY <1>1 DEF Turno
<1> QED
  BY <1>2, <1>3, <1>4, <1>5 DEF Turno

\* A CPU in another state: it has no answer and waits for none.
LEMMA CPULibre ==
  ASSUME TypeOK, NEW c \in CPUs, cpu[c].pc \notin {"espera", "ausente"},
         \A d \in CPUs : d # c => cpu'[d] = cpu[d]
  PROVE  \A d \in CPUs : cpu[d].pc \in {"espera", "ausente"} /\ cpu[d].respuesta = Nada =>
           cpu'[d] = cpu[d]
OBVIOUS

\* An action of a CPU, or of dispatcher with it, leaves the others alone.
LEMMA OtrasCPU ==
  ASSUME TypeOK, NEW c \in CPUs,
         \/ Interrupcion(c) \/ CrearHilo(c) \/ SalidaEstandar(c) \/ EntradaEstandar(c)
         \/ DevolucionCadena(c) \/ FinLlamada(c) \/ Finaliza(c) \/ FinQuantum(c)
         \/ DesconectoCPU(c)
         \/ \E t \in DOMAIN hilo : DespachaHilo(c, t) \/ Atiende(c, t)
  PROVE  \A d \in CPUs : d # c => cpu'[d] = cpu[d]
<1>1. cpu \in [CPUs -> Turnos]
  BY DEF TypeOK
<1>2. CASE UNCHANGED cpu
  BY <1>2
<1>3. ASSUME NEW x, cpu' = [cpu EXCEPT ![c] = x] PROVE \A d \in CPUs : d # c => cpu'[d] = cpu[d]
  BY <1>1, <1>3
<1>4. CASE CrearHilo(c) \/ SalidaEstandar(c)
  BY <1>2, <1>4 DEF CrearHilo, SalidaEstandar
<1>5. CASE \/ Interrupcion(c) \/ FinLlamada(c) \/ Finaliza(c) \/ FinQuantum(c) \/ DesconectoCPU(c)
  BY <1>3, <1>5 DEF Interrupcion, FinLlamada, Finaliza, FinQuantum, DesconectoCPU
<1>6. CASE \E t \in DOMAIN hilo : DespachaHilo(c, t) \/ Atiende(c, t)
  BY <1>3, <1>6 DEF DespachaHilo, Atiende, Despacha
<1>7. CASE EntradaEstandar(c) \/ DevolucionCadena(c)
  BY <1>1, <1>7 DEF EntradaEstandar, DevolucionCadena
<1> QED
  BY <1>4, <1>5, <1>6, <1>7

LEMMA TurnoDeCPU ==
  ASSUME TypeOK, Turno, RespuestaPropia, NEW c \in CPUs,
         \/ Interrupcion(c) \/ CrearHilo(c) \/ SalidaEstandar(c) \/ EntradaEstandar(c)
         \/ DevolucionCadena(c) \/ FinLlamada(c) \/ Finaliza(c) \/ FinQuantum(c)
         \/ DesconectoCPU(c)
         \/ \E t \in DOMAIN hilo : DespachaHilo(c, t) \/ Atiende(c, t)
  PROVE  Turno'
<1>1. \A d \in CPUs : d # c => cpu'[d] = cpu[d]
  BY OtrasCPU
<1>2. UNCHANGED <<entrada, mutex_entradaSalida, loader>>
  BY DEF Interrupcion, CrearHilo, SalidaEstandar, EntradaEstandar, DevolucionCadena,
         FinLlamada, Finaliza, FinQuantum, DesconectoCPU, DespachaHilo, Atiende, Despacha, pedidos
<1>3. CASE \/ Interrupcion(c) \/ CrearHilo(c) \/ SalidaEstandar(c) \/ FinLlamada(c)
           \/ Finaliza(c) \/ FinQuantum(c)
           \/ \E t \in DOMAIN hilo : DespachaHilo(c, t) \/ Atiende(c, t)
  <2>1. cpu[c].pc \notin {"espera", "ausente"} /\ UNCHANGED planificador
    BY <1>3 DEF Interrupcion, CrearHilo, SalidaEstandar, FinLlamada, Finaliza, FinQuantum,
                DespachaHilo, Atiende, Despacha, pedidos
  <2> QED
    BY <1>1, <1>2, <2>1, CPULibre, TurnoSi
<1>4. CASE DevolucionCadena(c)
  <2>1. cpu[c].respuesta # Nada /\ UNCHANGED planificador
    BY <1>4 DEF DevolucionCadena, pedidos
  <2> QED
    BY <1>1, <1>2, <2>1, TurnoSi
<1>5. CASE DesconectoCPU(c)
  <2> DEFINE x == [Libre EXCEPT !.pc = "ausente"]
  <2>1. planificador = Nada /\ UNCHANGED planificador /\ cpu' = [cpu EXCEPT ![c] = x]
    BY <1>5 DEF DesconectoCPU, PlanificadorLibre, pedidos
  <2>2. x.pc = "ausente" /\ x.respuesta = Nada
    BY DEF Libre
  <2> HIDE DEF x
  <2>3. cpu'[c] = x
    BY <2>1 DEF TypeOK
  <2> QED
    BY <1>1, <1>2, <2>1, <2>2, <2>3, TurnoSi
<1>6. CASE EntradaEstandar(c)
  <2>1. /\ cpu[c].pc = "km" /\ cpu[c].respuesta = Nada
        /\ planificador' = [op |-> "entrada_estandar", cpu |-> c]
    BY <1>6 DEF EntradaEstandar, RespuestaPropia
  <2>2. cpu'[c].pc = "espera" /\ cpu'[c].respuesta = Nada /\ cpu'[c].pedido \in Pedidos
    <3>1. PICK p \in {[tipo |-> "N", tamanio |-> 4]} \cup [tipo : {"C"}, tamanio : Tamanios] :
            cpu' = [cpu EXCEPT ![c].pc = "espera", ![c].pedido = p]
      BY <1>6 DEF EntradaEstandar
    <3>2. p \in Pedidos
      BY DEF Pedidos
    <3>3. \A r \in Turnos : /\ [r EXCEPT !.pc = "espera", !.pedido = p].pc = "espera"
                            /\ [r EXCEPT !.pc = "espera", !.pedido = p].pedido = p
                            /\ [r EXCEPT !.pc = "espera", !.pedido = p].respuesta = r.respuesta
      BY DEF Turnos
    <3>4. cpu \in [CPUs -> Turnos]
      BY DEF TypeOK
    <3> DEFINE x == [cpu[c] EXCEPT !.pc = "espera", !.pedido = p]
    <3>5. cpu' = [cpu EXCEPT ![c] = x]
      BY <3>1
    <3>6. x.pc = "espera" /\ x.pedido = p /\ x.respuesta = cpu[c].respuesta
      BY <3>3, <3>4
    <3> HIDE DEF x
    <3>7. cpu'[c] = x
      BY <3>4, <3>5
    <3> QED
      BY <2>1, <3>2, <3>6, <3>7
  <2>3. entrada # Nada => /\ entrada.cpu \in CPUs /\ entrada.cpu # c
                          /\ cpu'[entrada.cpu] = cpu[entrada.cpu]
    BY <1>1, <2>1 DEF Turno, TypeOK
  <2>4. planificador'.cpu = c
    BY <2>1
  <2> QED
    BY <1>2, <2>2, <2>3, <2>4 DEF Turno
<1> QED
  BY <1>3, <1>4, <1>5, <1>6

\* The answer that loader reads is the one to the request of entrada.
LEMMA RespuestaEnCabeza ==
  ASSUME TypeOK, Pedido, NEW k \in Consolas, SeProdujoEntrada(k)
  PROVE  /\ Pendiente("kernel", k, 1) /\ Mensaje("kernel", k, 1) = Head(aKernel[k])
         /\ Head(aKernel[k]) \in Respuestas /\ Head(aKernel[k]).de = k
         /\ Encaja("kernel", k, 1)
         /\ entrada # Nada /\ entrada.cpu \in CPUs /\ loader.pc = "libre"
         /\ mutex_entradaSalida = 0
<1>1. aKernel[k] \in Seq(AlKernel) /\ aKernel[k] # <<>> /\ Head(aKernel[k]).op = "se_produjo_entrada"
  BY DEF SeProdujoEntrada, LoaderLee, TypeOK
<1>2. 1 \in DOMAIN aKernel[k] /\ aKernel[k][1] = Head(aKernel[k]) /\ Head(aKernel[k]) \in AlKernel
  BY <1>1
<1>3. Head(aKernel[k]) \in Respuestas
  BY <1>1, <1>2 DEF AlKernel
<1>4. Pendiente("kernel", k, 1) /\ Mensaje("kernel", k, 1) = Head(aKernel[k])
  BY <1>1, <1>2 DEF Pendiente, Mensaje
<1>5. Encaja("kernel", k, 1)
  BY <1>4 DEF Pedido, Lugares
<1>6. entrada # Nada /\ Head(aKernel[k]).de = k
  BY <1>4, <1>5 DEF Encaja
<1>7. loader.pc = "libre"
  BY DEF SeProdujoEntrada, LoaderLee, Ocioso
<1> QED
  BY <1>3, <1>4, <1>5, <1>6, <1>7 DEF Pedido, Turno, TypeOK

LEMMA TurnoDeRespuesta ==
  ASSUME TypeOK, Pedido, NEW k \in Consolas, SeProdujoEntrada(k)
  PROVE  Turno'
<1>1. /\ entrada # Nada /\ entrada.cpu \in CPUs /\ loader.pc = "libre"
      /\ mutex_entradaSalida = 0 /\ Turno
  BY RespuestaEnCabeza DEF Pedido
<1>2. UNCHANGED <<mutex_entradaSalida, planificador>>
  BY DEF SeProdujoEntrada
<1>3. CASE UNCHANGED <<cpu, entrada, loader>>
  BY <1>1, <1>2, <1>3, TurnoSi
<1>4. CASE /\ cpu' = [cpu EXCEPT ![entrada.cpu].respuesta = Head(aKernel[k])]
           /\ entrada' = Nada /\ loader' = [Ocioso EXCEPT !.pc = "post"]
  <2>1. loader'.pc = "post"
    BY <1>4 DEF Ocioso
  <2>2. planificador # Nada => /\ planificador.cpu \in CPUs /\ planificador.cpu # entrada.cpu
                               /\ cpu'[planificador.cpu] = cpu[planificador.cpu]
    BY <1>1, <1>4 DEF Turno, TypeOK
  <2> QED
    BY <1>1, <1>2, <1>4, <2>1, <2>2 DEF Turno
<1> QED
  BY <1>3, <1>4 DEF SeProdujoEntrada

LEMMA PasoTurno ==
  ASSUME TypeOK, Conectadas, Pedido, RespuestaPropia, [Next]_vars
  PROVE  Turno'
<1>1. Turno
  BY DEF Pedido
<1>2. ASSUME UNCHANGED <<entrada, mutex_entradaSalida, planificador, cpu>>,
             loader'.pc = "post" <=> loader.pc = "post"
      PROVE  Turno'
  BY <1>1, <1>2, TurnoSi
<1>3. CASE UNCHANGED vars
  BY <1>2, <1>3 DEF vars, tablas, pedidos
<1>4. ASSUME NEW k \in Consolas,
             \/ Conecta(k) \/ Recibe(k) \/ CodigoConsola(k) \/ IngresarNumero(k) \/ SeVa(k)
             \/ \E largo \in Largos : IngresarCadena(k, largo)
      PROVE  Turno'
  BY <1>2, <1>4 DEF Conecta, Recibe, CodigoConsola, IngresarNumero, SeVa, IngresarCadena,
                    tablas, pedidos
<1>5. ASSUME NEW k \in Consolas, SeProdujoEntrada(k) PROVE Turno'
  BY <1>5, TurnoDeRespuesta
<1>6. ASSUME NEW k \in Consolas, FinConsola(k) PROVE Turno'
  <2>1. loader.pc # "post" /\ loader'.pc # "post"
    BY <1>6 DEF FinConsola, Desliga, Ocioso
  <2> QED
    BY <1>2, <1>6, <2>1 DEF FinConsola, pedidos
<1>7. CASE Mata
  <2>1. ASSUME NEW l, Desliga(loader.k, l) PROVE loader'.pc = "libre"
    BY <2>1 DEF Desliga, Ocioso
  <2>2. loader.pc = "mata" /\ (UNCHANGED loader \/ loader'.pc = "libre")
    BY <1>7, <2>1 DEF Mata
  <2>3. loader.pc # "post" /\ loader'.pc # "post"
    BY <2>2
  <2> QED
    BY <1>2, <1>7, <2>3 DEF Mata, pedidos
<1>8. CASE LoaderEspera
  <2>1. loader.pc # "post" /\ loader'.pc # "post"
    BY <1>8 DEF LoaderEspera, TypeOK
  <2> QED
    BY <1>2, <1>8, <2>1 DEF LoaderEspera, pedidos, tablas
<1>9. CASE EsperaFicha \/ DespachaNadie
  BY <1>2, <1>9 DEF EsperaFicha, DespachaNadie, tablas, pedidos
<1>10. CASE PostEntrada
  <2>1. entrada = Nada /\ mutex_entradaSalida = 0 /\ loader'.pc = "libre"
    BY <1>1, <1>10 DEF PostEntrada, Turno, Ocioso
  <2> QED
    BY <1>1, <1>10, <2>1 DEF PostEntrada, Turno, tablas
<1>11. CASE ProducirEntrada
  <2>1. /\ entrada = Nada /\ mutex_entradaSalida = 1 /\ loader.pc # "post"
        /\ planificador # Nada /\ planificador' = Nada /\ mutex_entradaSalida' = mutex_entradaSalida - 1
        /\ entrada' = [op |-> "entrada", cpu |-> planificador.cpu] /\ UNCHANGED <<cpu, loader>>
    BY <1>1, <1>11 DEF ProducirEntrada, Turno
  <2>2. entrada' # Nada /\ entrada'.cpu = planificador.cpu /\ mutex_entradaSalida' = 0
    BY <2>1 DEF Nada
  <2> QED
    BY <1>1, <2>1, <2>2 DEF Turno
<1>12. ASSUME NEW c \in CPUs,
              \/ Interrupcion(c) \/ CrearHilo(c) \/ SalidaEstandar(c) \/ EntradaEstandar(c)
              \/ DevolucionCadena(c) \/ FinLlamada(c) \/ Finaliza(c) \/ FinQuantum(c)
              \/ DesconectoCPU(c)
              \/ \E t \in DOMAIN hilo : DespachaHilo(c, t) \/ Atiende(c, t)
       PROVE  Turno'
  BY <1>1, <1>12, TurnoDeCPU
<1> QED
  BY <1>3, <1>4, <1>5, <1>6, <1>7, <1>8, <1>9, <1>10, <1>11, <1>12, Pasos, Zenon

\* An answer that a CPU has stays the one it had, or it has none.
LEMMA RespuestaSi ==
  ASSUME TypeOK, Hilos, Estables, RespuestaPropia,
         \A c \in CPUs : cpu'[c] = cpu[c] \/ cpu'[c].respuesta = Nada
  PROVE  RespuestaPropia'
<1>1. ASSUME NEW c \in CPUs, cpu'[c].respuesta # Nada
      PROVE  /\ cpu'[c].pc = "espera"
             /\ cpu'[c].respuesta.pedido = cpu'[c].pedido
             /\ SinRepetir' => cpu'[c].respuesta.de = hilo'[cpu'[c].TID].programa
  <2>1. cpu'[c] = cpu[c]
    BY <1>1
  <2>2. /\ cpu[c].pc = "espera" /\ cpu[c].respuesta.pedido = cpu[c].pedido
        /\ SinRepetir => cpu[c].respuesta.de = hilo[cpu[c].TID].programa
    BY <1>1, <2>1 DEF RespuestaPropia
  <2>3. cpu[c].TID \in DOMAIN hilo
    BY <2>2 DEF Hilos, Ocupada
  <2> QED
    BY <2>1, <2>2, <2>3, SinRepetirAntes DEF Estables
<1> QED
  BY <1>1 DEF RespuestaPropia

LEMMA PasoRespuesta ==
  ASSUME TypeOK, Conectadas, Hilos, Mensajes, Pedido, RespuestaPropia, [Next]_vars
  PROVE  RespuestaPropia'
<1>1. Estables
  BY PasoTipos
<1>2. CASE \A c \in CPUs : cpu'[c] = cpu[c] \/ cpu'[c].respuesta = Nada
  BY <1>1, <1>2, RespuestaSi
<1>3. CASE UNCHANGED cpu
  BY <1>2, <1>3
<1>4. CASE UNCHANGED vars
  BY <1>3, <1>4 DEF vars, tablas
<1>5. ASSUME NEW k \in Consolas,
             \/ Conecta(k) \/ Recibe(k) \/ CodigoConsola(k) \/ FinConsola(k)
             \/ IngresarNumero(k) \/ SeVa(k)
             \/ \E largo \in Largos : IngresarCadena(k, largo)
      PROVE  RespuestaPropia'
  BY <1>3, <1>5 DEF Conecta, Recibe, CodigoConsola, FinConsola, IngresarNumero, SeVa,
                    IngresarCadena, tablas
<1>6. CASE ProducirEntrada \/ PostEntrada \/ LoaderEspera \/ Mata \/ EsperaFicha \/ DespachaNadie
  BY <1>3, <1>6 DEF ProducirEntrada, PostEntrada, LoaderEspera, Mata, EsperaFicha,
                    DespachaNadie, tablas
<1>7. ASSUME NEW c \in CPUs,
             \/ Interrupcion(c) \/ CrearHilo(c) \/ SalidaEstandar(c) \/ FinLlamada(c)
             \/ Finaliza(c) \/ FinQuantum(c) \/ DesconectoCPU(c)
             \/ \E t \in DOMAIN hilo : DespachaHilo(c, t) \/ Atiende(c, t)
      PROVE  RespuestaPropia'
  <2>1. PICK x : x.respuesta = Nada /\ (cpu' = cpu \/ cpu' = [cpu EXCEPT ![c] = x])
    <3>1. CASE UNCHANGED cpu \/ cpu' = [cpu EXCEPT ![c] = Libre]
      BY <3>1 DEF Libre
    <3>2. CASE cpu' = [cpu EXCEPT ![c] = [Libre EXCEPT !.pc = "ausente"]]
      <4>1. [Libre EXCEPT !.pc = "ausente"].respuesta = Nada
        BY DEF Libre
      <4> QED
        BY <3>2, <4>1
    <3>3. ASSUME NEW t, NEW modo, NEW q,
                 cpu' = [cpu EXCEPT ![c] = [Libre EXCEPT !.pc = modo, !.TID = t, !.PID = q]]
          PROVE  \E x : x.respuesta = Nada /\ (cpu' = cpu \/ cpu' = [cpu EXCEPT ![c] = x])
      <4>1. [Libre EXCEPT !.pc = modo, !.TID = t, !.PID = q].respuesta = Nada
        BY DEF Libre
      <4> QED
        BY <3>3, <4>1
    <3>4. CASE \E t \in DOMAIN hilo : DespachaHilo(c, t) \/ Atiende(c, t)
      <4>1. PICK t, modo : cpu' = [cpu EXCEPT ![c] = [Libre EXCEPT !.pc = modo, !.TID = t,
                                                                   !.PID = hilo[t].pid]]
        BY <3>4 DEF DespachaHilo, Atiende, Despacha
      <4> QED
        BY <3>3, <4>1
    <3> QED
      BY <1>7, <3>1, <3>2, <3>4 DEF Interrupcion, CrearHilo, SalidaEstandar, FinLlamada, Finaliza,
                                    FinQuantum, DesconectoCPU
  <2>2. \A d \in CPUs : cpu'[d] = cpu[d] \/ cpu'[d].respuesta = Nada
    BY <2>1 DEF TypeOK
  <2> QED
    BY <1>2, <2>2
<1>8. ASSUME NEW c \in CPUs, EntradaEstandar(c) \/ DevolucionCadena(c) PROVE RespuestaPropia'
  <2>1. EntradaEstandar(c) => cpu[c].respuesta = Nada
    BY DEF EntradaEstandar, RespuestaPropia
  <2>2. EntradaEstandar(c) => cpu'[c].respuesta = cpu[c].respuesta
    BY DEF EntradaEstandar, TypeOK, Turnos
  <2>3. DevolucionCadena(c) => cpu'[c].respuesta = Nada
    BY DEF DevolucionCadena, TypeOK, Turnos
  <2>4. \A d \in CPUs : d # c => cpu'[d] = cpu[d]
    BY <1>8 DEF EntradaEstandar, DevolucionCadena, TypeOK
  <2> QED
    BY <1>2, <1>8, <2>1, <2>2, <2>3, <2>4
<1>9. ASSUME NEW k \in Consolas, SeProdujoEntrada(k) PROVE RespuestaPropia'
  <2> DEFINE m == Head(aKernel[k])
             c == entrada.cpu
  <2>1. /\ m \in Respuestas /\ m.de = k /\ Encaja("kernel", k, 1)
        /\ Mensaje("kernel", k, 1) = m /\ entrada # Nada /\ c \in CPUs
    BY <1>9, RespuestaEnCabeza
  <2> HIDE DEF m
  <2>2. CASE cpu[c].pc # "ausente" /\ cpu' = [cpu EXCEPT ![c].respuesta = m]
    <3>1. cpu[c].pc = "espera" /\ cpu[c].TID \in DOMAIN hilo
      BY <2>1, <2>2 DEF Pedido, Turno, Hilos, Ocupada
    <3>2. m.pedido = cpu[c].pedido /\ (SinRepetir => k = hilo[cpu[c].TID].programa)
      BY <2>1, <3>1 DEF Encaja
    <3>3. /\ cpu'[c].pc = "espera" /\ cpu'[c].respuesta = m
          /\ cpu'[c].pedido = cpu[c].pedido /\ cpu'[c].TID = cpu[c].TID
          /\ \A d \in CPUs : d # c => cpu'[d] = cpu[d]
      <4>1. \A r \in Turnos : /\ [r EXCEPT !.respuesta = m].pc = r.pc
                              /\ [r EXCEPT !.respuesta = m].pedido = r.pedido
                              /\ [r EXCEPT !.respuesta = m].TID = r.TID
                              /\ [r EXCEPT !.respuesta = m].respuesta = m
        BY DEF Turnos
      <4>2. cpu \in [CPUs -> Turnos]
        BY DEF TypeOK
      <4> DEFINE x == [cpu[c] EXCEPT !.respuesta = m]
      <4>3. x.pc = cpu[c].pc /\ x.pedido = cpu[c].pedido /\ x.TID = cpu[c].TID /\ x.respuesta = m
        BY <2>1, <4>1, <4>2
      <4>4. cpu' = [cpu EXCEPT ![c] = x]
        BY <2>2
      <4> HIDE DEF x, c
      <4>5. cpu'[c] = x /\ \A d \in CPUs : d # c => cpu'[d] = cpu[d]
        BY <2>1, <4>2, <4>4
      <4> QED
        BY <3>1, <4>3, <4>5
    <3>4. hilo'[cpu[c].TID].programa = hilo[cpu[c].TID].programa
      BY <1>1, <3>1 DEF Estables
    <3>5. ASSUME NEW d \in CPUs, cpu'[d].respuesta # Nada
          PROVE  /\ cpu'[d].pc = "espera"
                 /\ cpu'[d].respuesta.pedido = cpu'[d].pedido
                 /\ SinRepetir' => cpu'[d].respuesta.de = hilo'[cpu'[d].TID].programa
      <4>1. CASE d = c
        BY <1>1, <2>1, <3>2, <3>3, <3>4, <4>1, SinRepetirAntes
      <4>2. CASE d # c
        <5>1. cpu'[d] = cpu[d]
          BY <3>3, <4>2
        <5>2. /\ cpu[d].pc = "espera" /\ cpu[d].respuesta.pedido = cpu[d].pedido
              /\ SinRepetir => cpu[d].respuesta.de = hilo[cpu[d].TID].programa
          BY <3>5, <5>1 DEF RespuestaPropia
        <5>3. cpu[d].TID \in DOMAIN hilo
          BY <5>2 DEF Hilos, Ocupada
        <5> QED
          BY <1>1, <5>1, <5>2, <5>3, SinRepetirAntes DEF Estables
      <4> QED
        BY <4>1, <4>2
    <3> QED
      BY <3>5 DEF RespuestaPropia
  <2> QED
    BY <1>3, <1>9, <2>2 DEF SeProdujoEntrada, m
<1> QED
  BY <1>4, <1>5, <1>6, <1>7, <1>8, <1>9, Pasos, Zenon

\* Pendiente and Mensaje after the step.
Sigue(l, k, i) ==
  \/ l = "consola" /\ i \in DOMAIN aConsola'[k] /\ aConsola'[k][i].op = "ingresar_cadena"
  \/ l = "usuario" /\ i = 1 /\ consola'[k].pc = "ingresa"
  \/ l = "kernel" /\ i \in DOMAIN aKernel'[k] /\ aKernel'[k][i].op = "se_produjo_entrada"

Lo(l, k, i) ==
  IF l = "consola" THEN aConsola'[k][i] ELSE IF l = "usuario" THEN consola'[k].pide
                                        ELSE aKernel'[k][i]

\* The request that is in a place after the step was there before it.
Sigue1(l, k, i) == Pendiente(l, k, i) /\ Lo(l, k, i) = Mensaje(l, k, i)

Encajan ==
  \A l \in Lugares, k \in Consolas, i \in Nat : Pendiente(l, k, i) => Encaja(l, k, i)

\* The CPU that waits for the request of entrada still does, or has gone.
EsperaIgual ==
  entrada # Nada => cpu'[entrada.cpu] = cpu[entrada.cpu] \/ cpu'[entrada.cpu].pc # "espera"

\* A request comes from the place where it was, in the same console.
LEMMA EncajanSi ==
  ASSUME TypeOK, Hilos, Estables, Pedido, UNCHANGED entrada, EsperaIgual,
         \A l \in Lugares, k \in Consolas, i \in Nat : Sigue(l, k, i) =>
           /\ \E l0 \in Lugares, i0 \in Nat :
                Pendiente(l0, k, i0) /\ Lo(l, k, i).pedido = Mensaje(l0, k, i0).pedido
           /\ l = "kernel" => Lo(l, k, i).de = k
  PROVE  Encajan'
<1>1. ASSUME NEW l \in Lugares, NEW k \in Consolas, NEW i \in Nat, Sigue(l, k, i)
      PROVE  /\ entrada' # Nada
             /\ l = "kernel" => Lo(l, k, i).de = k
             /\ cpu'[entrada'.cpu].pc = "espera" =>
                  /\ Lo(l, k, i).pedido = cpu'[entrada'.cpu].pedido
                  /\ SinRepetir' => k = hilo'[cpu'[entrada'.cpu].TID].programa
  <2>1. PICK l0 \in Lugares, i0 \in Nat :
          Pendiente(l0, k, i0) /\ Lo(l, k, i).pedido = Mensaje(l0, k, i0).pedido
    BY <1>1
  <2>2. Encaja(l0, k, i0)
    BY <2>1 DEF Pedido
  <2>3. entrada # Nada /\ entrada' = entrada /\ entrada.cpu \in CPUs
    BY <2>2 DEF Encaja, TypeOK
  <2>4. CASE cpu'[entrada.cpu].pc = "espera"
    <3>1. cpu'[entrada.cpu] = cpu[entrada.cpu] /\ cpu[entrada.cpu].pc = "espera"
      BY <2>3, <2>4 DEF EsperaIgual
    <3>2. cpu[entrada.cpu].TID \in DOMAIN hilo
      BY <2>3, <3>1 DEF Hilos, Ocupada
    <3>3. /\ Mensaje(l0, k, i0).pedido = cpu[entrada.cpu].pedido
          /\ SinRepetir => k = hilo[cpu[entrada.cpu].TID].programa
      BY <2>2, <3>1 DEF Encaja
    <3>4. hilo'[cpu[entrada.cpu].TID].programa = hilo[cpu[entrada.cpu].TID].programa
      BY <3>2 DEF Estables
    <3> QED
      BY <1>1, <2>1, <2>3, <3>1, <3>3, <3>4, SinRepetirAntes
  <2> QED
    BY <1>1, <2>3, <2>4
<1> QED
  BY <1>1 DEF Encajan, Pendiente, Encaja, Mensaje, Sigue, Lo

\* No request moves.
LEMMA PedidoSi ==
  ASSUME TypeOK, Hilos, Estables, Pedido, UNCHANGED entrada, EsperaIgual,
         \A l \in Lugares, k \in Consolas, i \in Nat : Sigue(l, k, i) => Sigue1(l, k, i)
  PROVE  Unico' /\ Encajan'
<1>1. \A l \in Lugares, k \in Consolas, i \in Nat : Sigue(l, k, i) =>
        /\ \E l0 \in Lugares, i0 \in Nat :
             Pendiente(l0, k, i0) /\ Lo(l, k, i).pedido = Mensaje(l0, k, i0).pedido
        /\ l = "kernel" => Lo(l, k, i).de = k
  BY DEF Pedido, Sigue1, Encaja
<1>2. Encajan'
  BY <1>1, EncajanSi
<1>3. \A l1, l2 \in Lugares, k1, k2 \in Consolas, i1, i2 \in Nat :
        Sigue(l1, k1, i1) /\ Sigue(l2, k2, i2) => l1 = l2 /\ k1 = k2 /\ i1 = i2
  BY DEF Pedido, Unico, Sigue1
<1>4. Unico'
  BY <1>3 DEF Unico, Pendiente, Sigue
<1> QED
  BY <1>2, <1>4

\* Each of the three places by itself.
MenosAConsola ==
  \A k \in Consolas : \A i \in DOMAIN aConsola'[k] :
    aConsola'[k][i].op = "ingresar_cadena" =>
      i \in DOMAIN aConsola[k] /\ aConsola'[k][i] = aConsola[k][i]

MenosUsuarios ==
  \A k \in Consolas : consola'[k].pc = "ingresa" =>
    consola[k].pc = "ingresa" /\ consola'[k].pide = consola[k].pide

MenosAKernel ==
  \A k \in Consolas : \A i \in DOMAIN aKernel'[k] :
    aKernel'[k][i].op = "se_produjo_entrada" =>
      i \in DOMAIN aKernel[k] /\ aKernel'[k][i] = aKernel[k][i]

LEMMA SigueSi ==
  ASSUME NEW k \in Consolas, NEW i \in Nat
  PROVE  /\ MenosAConsola /\ Sigue("consola", k, i) => Sigue1("consola", k, i)
         /\ MenosUsuarios /\ Sigue("usuario", k, i) => Sigue1("usuario", k, i)
         /\ MenosAKernel /\ Sigue("kernel", k, i) => Sigue1("kernel", k, i)
<1>1. ASSUME MenosAConsola, Sigue("consola", k, i) PROVE Sigue1("consola", k, i)
  BY <1>1 DEF MenosAConsola, Sigue, Sigue1, Pendiente, Lo, Mensaje
<1>2. ASSUME MenosUsuarios, Sigue("usuario", k, i) PROVE Sigue1("usuario", k, i)
  BY <1>2 DEF MenosUsuarios, Sigue, Sigue1, Pendiente, Lo, Mensaje
<1>3. ASSUME MenosAKernel, Sigue("kernel", k, i) PROVE Sigue1("kernel", k, i)
  BY <1>3 DEF MenosAKernel, Sigue, Sigue1, Pendiente, Lo, Mensaje
<1> QED
  BY <1>1, <1>2, <1>3

LEMMA PedidoQuieto ==
  ASSUME TypeOK, Hilos, Estables, Pedido, UNCHANGED entrada, EsperaIgual,
         MenosAConsola, MenosUsuarios, MenosAKernel
  PROVE  Unico' /\ Encajan'
<1>1. \A l \in Lugares, k \in Consolas, i \in Nat : Sigue(l, k, i) => Sigue1(l, k, i)
  BY SigueSi DEF Lugares
<1> QED
  BY <1>1, PedidoSi

LEMMA NadaSeMueve ==
  /\ UNCHANGED aConsola => MenosAConsola
  /\ UNCHANGED consola => MenosUsuarios
  /\ UNCHANGED aKernel => MenosAKernel
<1>1. UNCHANGED aConsola => MenosAConsola
  BY DEF MenosAConsola
<1>2. UNCHANGED consola => MenosUsuarios
  BY DEF MenosUsuarios
<1>3. UNCHANGED aKernel => MenosAKernel
  BY DEF MenosAKernel
<1> QED
  BY <1>1, <1>2, <1>3

\* What a queue has when one more is put in it.
LEMMA UnoMas ==
  ASSUME NEW S, NEW s \in Seq(S), NEW x, NEW i \in DOMAIN Append(s, x)
  PROVE  \/ i \in DOMAIN s /\ Append(s, x)[i] = s[i]
         \/ i = Len(s) + 1 /\ Append(s, x)[i] = x
OBVIOUS

\* Words that are no request.
LEMMA EnviarAvisos ==
  ASSUME TypeOK, Conectadas, NEW p, NEW ms \in Seq(Avisos), Enviar(p, ms)
  PROVE  MenosAConsola
<1>1. ms \in Seq(AlUsuario)
  BY DEF AlUsuario
<1>2. ASSUME NEW k \in Consolas, NEW i \in DOMAIN aConsola'[k],
             aConsola'[k][i].op = "ingresar_cadena"
      PROVE  i \in DOMAIN aConsola[k] /\ aConsola'[k][i] = aConsola[k][i]
  <2>1. CASE aConsola'[k] = aConsola[k]
    BY <1>2, <2>1
  <2>2. CASE aConsola'[k] = aConsola[k] \o ms
    <3> DEFINE a == aConsola[k]
               b == aConsola'[k]
    <3>1. a \in Seq(AlUsuario) /\ b = a \o ms /\ i \in DOMAIN b /\ b[i].op = "ingresar_cadena"
      BY <1>2, <2>2 DEF TypeOK
    <3>2. \A j \in DOMAIN ms : ms[j].op # "ingresar_cadena"
      <4>1. \A j \in DOMAIN ms : ms[j] \in Avisos
        OBVIOUS
      <4> QED
        BY <4>1 DEF Avisos
    <3> HIDE DEF a, b
    <3>3. /\ DOMAIN b = 1 .. Len(a) + Len(ms) /\ Len(a) \in Nat /\ Len(ms) \in Nat
          /\ \A j \in 1 .. Len(a) + Len(ms) :
               b[j] = IF j <= Len(a) THEN a[j] ELSE ms[j - Len(a)]
      BY <1>1, <3>1, ConcatProperties
    <3>4. CASE i <= Len(a)
      BY <3>1, <3>3, <3>4 DEF a, b
    <3>5. CASE ~(i <= Len(a))
      <4>1. i - Len(a) \in DOMAIN ms /\ b[i] = ms[i - Len(a)]
        BY <3>1, <3>3, <3>5
      <4> QED
        BY <3>1, <3>2, <4>1
    <3> QED
      BY <3>4, <3>5
  <2> QED
    BY <1>1, <2>1, <2>2, LoEnviado
<1> QED
  BY <1>2 DEF MenosAConsola

\* Two requests after the step would come from two before it.
LEMMA UnicoSi ==
  ASSUME \A l1, l2 \in Lugares, k1, k2 \in Consolas, i1, i2 \in Nat :
           Sigue(l1, k1, i1) /\ Sigue(l2, k2, i2) => l1 = l2 /\ k1 = k2 /\ i1 = i2
  PROVE  Unico'
BY DEF Unico, Pendiente, Sigue

\* The first message of a queue goes, and the others move one place.
LEMMA TrasSacar ==
  ASSUME NEW S, NEW s \in Seq(S), s # <<>>
  PROVE  /\ 1 \in DOMAIN s /\ Head(s) = s[1] /\ Head(s) \in S
         /\ \A i \in DOMAIN Tail(s) : i \in Nat \ {0} /\ i + 1 \in DOMAIN s /\ Tail(s)[i] = s[i + 1]
OBVIOUS

LEMMA RecibePedido ==
  ASSUME TypeOK, Conectadas, Hilos, Estables, Pedido, NEW k \in Consolas, Recibe(k)
  PROVE  Unico' /\ Encajan'
<1> DEFINE a == aConsola[k]
           m == Head(a)
<1>1. a \in Seq(AlUsuario) /\ a # <<>> /\ consola[k].pc = "recibe"
  BY DEF TypeOK, Recibe, Lee
<1>2. /\ 1 \in DOMAIN a /\ m = a[1] /\ m \in AlUsuario
      /\ \A i \in DOMAIN Tail(a) : i \in Nat \ {0} /\ i + 1 \in DOMAIN a /\ Tail(a)[i] = a[i + 1]
  BY <1>1, TrasSacar
<1>3. \A j \in Consolas : aConsola'[j] = IF j = k THEN Tail(a) ELSE aConsola[j]
  BY DEF Recibe, TypeOK
<1>4. m.op \in {"imprimir_en_pantalla", "ingresar_cadena", "terminar_conexion",
                "se_desconecto_cpu"}
  BY <1>2 DEF AlUsuario, Avisos, Solicitudes
<1> HIDE DEF m
<1>5. \/ UNCHANGED <<consola, aKernel>>
      \/ /\ m.op = "ingresar_cadena" /\ UNCHANGED aKernel
         /\ consola' = [consola EXCEPT ![k] = [pc |-> "ingresa", pide |-> m]]
      \/ Fuera(k) /\ aKernel' = [aKernel EXCEPT ![k] = Append(@, [op |-> "fin"])]
  BY <1>4 DEF Recibe, m, Fuera
<1>6. UNCHANGED <<entrada, cpu>>
  BY DEF Recibe, tablas, pedidos
<1> HIDE DEF a
<1>7. ASSUME NEW j \in Consolas, NEW i \in Nat, Sigue("consola", j, i)
      PROVE  IF j = k THEN /\ Pendiente("consola", k, i + 1) /\ i # 0
                           /\ Lo("consola", j, i) = Mensaje("consola", k, i + 1)
                      ELSE Sigue1("consola", j, i)
  <2>1. CASE j = k
    <3>1. i \in DOMAIN Tail(a) /\ Tail(a)[i].op = "ingresar_cadena"
      BY <1>3, <1>7, <2>1 DEF Sigue
    <3>2. i # 0 /\ i + 1 \in DOMAIN a /\ Tail(a)[i] = a[i + 1] /\ aConsola'[j][i] = a[i + 1]
      BY <1>2, <1>3, <2>1, <3>1
    <3> QED
      BY <2>1, <3>1, <3>2 DEF Pendiente, Lo, Mensaje, a
  <2>2. CASE j # k
    BY <1>3, <1>7, <2>2 DEF Sigue, Sigue1, Pendiente, Lo, Mensaje
  <2> QED
    BY <2>1, <2>2
<1>8. ASSUME NEW j \in Consolas, NEW i \in Nat, Sigue("usuario", j, i)
      PROVE  i = 1 /\ IF j = k THEN /\ Pendiente("consola", k, 1)
                                    /\ Lo("usuario", j, i) = Mensaje("consola", k, 1)
                               ELSE Sigue1("usuario", j, i)
  <2>1. i = 1 /\ consola'[j].pc = "ingresa"
    BY <1>8 DEF Sigue
  <2>2. CASE UNCHANGED consola
    BY <1>1, <2>1, <2>2 DEF Sigue1, Pendiente, Lo, Mensaje
  <2>3. CASE /\ m.op = "ingresar_cadena"
             /\ consola' = [consola EXCEPT ![k] = [pc |-> "ingresa", pide |-> m]]
    <3> DEFINE x == [pc |-> "ingresa", pide |-> m]
    <3>1. x.pide = m /\ consola' = [consola EXCEPT ![k] = x]
      BY <2>3
    <3> HIDE DEF x
    <3>2. consola'[j] = IF j = k THEN x ELSE consola[j]
      BY <3>1, ConsolaOtra
    <3> QED
      BY <1>2, <2>1, <2>3, <3>1, <3>2 DEF Sigue1, Pendiente, Lo, Mensaje, a
  <2>4. CASE Fuera(k)
    <3>1. \A n \in Consolas : /\ consola'[n].pide = consola[n].pide
                              /\ n # k => consola'[n] = consola[n]
                              /\ n = k => consola'[n].pc = "fuera"
      BY <2>4, ConsolaFuera
    <3> QED
      BY <2>1, <3>1 DEF Sigue1, Pendiente, Lo, Mensaje
  <2> QED
    BY <1>5, <2>2, <2>3, <2>4
<1>9. MenosAKernel
  <2>1. CASE UNCHANGED aKernel
    BY <2>1, NadaSeMueve
  <2>2. CASE aKernel' = [aKernel EXCEPT ![k] = Append(@, [op |-> "fin"])]
    <3> DEFINE x == [op |-> "fin"]
    <3>1. x.op # "se_produjo_entrada"
      OBVIOUS
    <3>2. aKernel' = [aKernel EXCEPT ![k] = Append(@, x)]
      BY <2>2
    <3> HIDE DEF x
    <3>3. \A j \in Consolas : /\ aKernel[j] \in Seq(AlKernel)
                              /\ aKernel'[j] = IF j = k THEN Append(aKernel[j], x) ELSE aKernel[j]
      BY <3>2 DEF TypeOK
    <3>4. ASSUME NEW j \in Consolas, NEW i \in DOMAIN aKernel'[j],
                 aKernel'[j][i].op = "se_produjo_entrada"
          PROVE  i \in DOMAIN aKernel[j] /\ aKernel'[j][i] = aKernel[j][i]
      <4>1. CASE aKernel'[j] = aKernel[j]
        BY <3>4, <4>1
      <4>2. CASE aKernel'[j] = Append(aKernel[j], x)
        <5>1. i \in DOMAIN Append(aKernel[j], x) /\ aKernel[j] \in Seq(AlKernel)
          BY <3>3, <3>4, <4>2
        <5>2. \/ i \in DOMAIN aKernel[j] /\ Append(aKernel[j], x)[i] = aKernel[j][i]
              \/ Append(aKernel[j], x)[i] = x
          BY <5>1, UnoMas
        <5> QED
          BY <3>1, <3>4, <4>2, <5>2
      <4> QED
        BY <3>3, <4>1, <4>2
    <3> QED
      BY <3>4 DEF MenosAKernel
  <2> QED
    BY <1>5, <2>1, <2>2
<1>10. \A j \in Consolas, i \in Nat : Sigue("kernel", j, i) => Sigue1("kernel", j, i)
  BY <1>9, SigueSi
<1>11. Unico'
  <2>1. \A l1, l2 \in Lugares, k1, k2 \in Consolas, i1, i2 \in Nat :
          Pendiente(l1, k1, i1) /\ Pendiente(l2, k2, i2) => l1 = l2 /\ k1 = k2 /\ i1 = i2
    BY DEF Pedido, Unico
  <2>2. ASSUME NEW l1 \in Lugares, NEW l2 \in Lugares, NEW k1 \in Consolas, NEW k2 \in Consolas,
               NEW i1 \in Nat, NEW i2 \in Nat, Sigue(l1, k1, i1), Sigue(l2, k2, i2)
        PROVE  l1 = l2 /\ k1 = k2 /\ i1 = i2
    BY <1>7, <1>8, <1>10, <2>1, <2>2 DEF Lugares, Sigue1
  <2> QED
    BY <2>2, UnicoSi
<1>12. \A l \in Lugares, j \in Consolas, i \in Nat : Sigue(l, j, i) =>
         /\ \E l0 \in Lugares, i0 \in Nat :
              Pendiente(l0, j, i0) /\ Lo(l, j, i).pedido = Mensaje(l0, j, i0).pedido
         /\ l = "kernel" => Lo(l, j, i).de = j
  <2>1. \A j \in Consolas, i \in Nat : Sigue("kernel", j, i) => Lo("kernel", j, i).de = j
    BY <1>10 DEF Sigue1, Pedido, Encaja, Lugares
  <2>2. ASSUME NEW l \in Lugares, NEW j \in Consolas, NEW i \in Nat, Sigue(l, j, i)
        PROVE  \E l0 \in Lugares, i0 \in Nat :
                 Pendiente(l0, j, i0) /\ Lo(l, j, i).pedido = Mensaje(l0, j, i0).pedido
    BY <1>7, <1>8, <1>10, <2>2 DEF Lugares, Sigue1
  <2> QED
    BY <2>1, <2>2
<1> QED
  BY <1>6, <1>11, <1>12, EncajanSi DEF EsperaIgual

\* The user has answered.
LEMMA RespondePedido ==
  ASSUME TypeOK, Conectadas, Hilos, Estables, Pedido, NEW k \in Consolas, NEW n,
         consola[k].pc = "ingresa", Responde(k, n), UNCHANGED <<aConsola, entrada, cpu>>
  PROVE  Unico' /\ Encajan'
<1> DEFINE x == [pc |-> "recibe", pide |-> Nada]
           r == [op |-> "se_produjo_entrada", de |-> k,
                 pedido |-> consola[k].pide.pedido, largo |-> n]
           a == aKernel[k]
<1>1. x.pc = "recibe" /\ consola' = [consola EXCEPT ![k] = x]
  BY DEF Responde
<1>2. /\ r.op = "se_produjo_entrada" /\ r.de = k /\ r.pedido = consola[k].pide.pedido
      /\ aKernel' = [aKernel EXCEPT ![k] = Append(@, r)]
  BY DEF Responde
<1> HIDE DEF x, r
<1>3. \A j \in Consolas : consola'[j] = IF j = k THEN x ELSE consola[j]
  BY <1>1, ConsolaOtra
<1>4. \A j \in Consolas : /\ aKernel[j] \in Seq(AlKernel)
                          /\ aKernel'[j] = IF j = k THEN Append(aKernel[j], r) ELSE aKernel[j]
  BY <1>2 DEF TypeOK
<1>5. Pendiente("usuario", k, 1) /\ Mensaje("usuario", k, 1) = consola[k].pide
  BY DEF Pendiente, Mensaje
<1>6. \A j \in Consolas, i \in Nat : Sigue("consola", j, i) => Sigue1("consola", j, i)
  BY NadaSeMueve, SigueSi
<1>7. \A j \in Consolas, i \in Nat : Sigue("usuario", j, i) => j # k /\ Sigue1("usuario", j, i)
  BY <1>1, <1>3 DEF Sigue, Sigue1, Pendiente, Lo, Mensaje
<1>8. ASSUME NEW j \in Consolas, NEW i \in Nat, Sigue("kernel", j, i)
      PROVE  \/ Sigue1("kernel", j, i)
             \/ j = k /\ i = Len(a) + 1 /\ Lo("kernel", j, i) = r
  <2>1. i \in DOMAIN aKernel'[j] /\ aKernel'[j][i].op = "se_produjo_entrada"
    BY <1>8 DEF Sigue
  <2>2. \/ i \in DOMAIN aKernel[j] /\ aKernel'[j][i] = aKernel[j][i]
        \/ j = k /\ i = Len(a) + 1 /\ aKernel'[j][i] = r
    <3>1. CASE j # k
      BY <1>4, <2>1, <3>1
    <3>2. CASE j = k
      <4>1. a \in Seq(AlKernel) /\ aKernel'[j] = Append(a, r) /\ i \in DOMAIN Append(a, r)
        BY <1>4, <2>1, <3>2
      <4>2. \/ i \in DOMAIN a /\ Append(a, r)[i] = a[i]
            \/ i = Len(a) + 1 /\ Append(a, r)[i] = r
        BY <4>1, UnoMas
      <4> QED
        BY <3>2, <4>1, <4>2
    <3> QED
      BY <3>1, <3>2
  <2> QED
    BY <2>1, <2>2 DEF Sigue1, Pendiente, Lo, Mensaje
<1>9. \A l1, l2 \in Lugares, k1, k2 \in Consolas, i1, i2 \in Nat :
        Pendiente(l1, k1, i1) /\ Pendiente(l2, k2, i2) => l1 = l2 /\ k1 = k2 /\ i1 = i2
  BY DEF Pedido, Unico
<1>10. ASSUME NEW l \in Lugares, NEW j \in Consolas, NEW i \in Nat, Sigue(l, j, i)
       PROVE  l = "kernel" /\ j = k /\ i = Len(a) + 1 /\ Lo(l, j, i) = r
  BY <1>5, <1>6, <1>7, <1>8, <1>9, <1>10 DEF Lugares, Sigue1
<1>11. Unico'
  BY <1>10, UnicoSi
<1>12. \A l \in Lugares, j \in Consolas, i \in Nat : Sigue(l, j, i) =>
         /\ \E l0 \in Lugares, i0 \in Nat :
              Pendiente(l0, j, i0) /\ Lo(l, j, i).pedido = Mensaje(l0, j, i0).pedido
         /\ l = "kernel" => Lo(l, j, i).de = j
  BY <1>2, <1>5, <1>10 DEF Lugares
<1> QED
  BY <1>11, <1>12, EncajanSi DEF EsperaIgual

\* loader reads the first message of k.
LEMMA LoaderLeePedido ==
  ASSUME TypeOK, NEW k \in Consolas, NEW op, LoaderLee(k, op), MenosAConsola, MenosUsuarios,
         NEW l \in Lugares, NEW j \in Consolas, NEW i \in Nat, Sigue(l, j, i)
  PROVE  \/ Sigue1(l, j, i) /\ ~ (l = "kernel" /\ j = k)
         \/ /\ l = "kernel" /\ j = k /\ i # 0
            /\ Pendiente("kernel", k, i + 1) /\ Lo(l, j, i) = Mensaje("kernel", k, i + 1)
<1> DEFINE a == aKernel[k]
<1>1. a \in Seq(AlKernel) /\ a # <<>>
  BY DEF TypeOK, LoaderLee
<1>2. \A n \in DOMAIN Tail(a) : n \in Nat \ {0} /\ n + 1 \in DOMAIN a /\ Tail(a)[n] = a[n + 1]
  BY <1>1, TrasSacar
<1>3. \A n \in Consolas : aKernel'[n] = IF n = k THEN Tail(a) ELSE aKernel[n]
  BY DEF LoaderLee, TypeOK
<1> HIDE DEF a
<1>4. CASE l # "kernel"
  BY <1>4, SigueSi DEF Lugares
<1>5. CASE l = "kernel" /\ j # k
  BY <1>3, <1>5 DEF Sigue, Sigue1, Pendiente, Lo, Mensaje
<1>6. CASE l = "kernel" /\ j = k
  <2>1. i \in DOMAIN Tail(a) /\ Tail(a)[i].op = "se_produjo_entrada" /\ aKernel'[j] = Tail(a)
    BY <1>3, <1>6 DEF Sigue
  <2>2. i # 0 /\ i + 1 \in DOMAIN a /\ Tail(a)[i] = a[i + 1]
    BY <1>2, <2>1
  <2> QED
    BY <1>6, <2>1, <2>2 DEF Pendiente, Lo, Mensaje, a
<1> QED
  BY <1>4, <1>5, <1>6

LEMMA CodigoPedido ==
  ASSUME TypeOK, Conectadas, Hilos, Estables, Pedido, NEW k \in Consolas, CodigoConsola(k)
  PROVE  Unico' /\ Encajan'
<1>1. LoaderLee(k, "codigo_consola") /\ UNCHANGED <<consola, entrada, cpu>>
  BY DEF CodigoConsola, pedidos
<1>2. MenosAConsola
  <2>1. CASE UNCHANGED aConsola
    BY <2>1, NadaSeMueve
  <2>2. CASE Enviar(Entrada(k), <<[op |-> "terminar_conexion", de |-> Len(hilo) + 1]>>)
    <3>1. Len(hilo) + 1 \in Nat
      BY DEF TypeOK
    <3>2. [op |-> "terminar_conexion", de |-> Len(hilo) + 1] \in Avisos
      BY <3>1 DEF Avisos
    <3>3. <<[op |-> "terminar_conexion", de |-> Len(hilo) + 1]>> \in Seq(Avisos)
      BY <3>2
    <3> QED
      BY <2>2, <3>3, EnviarAvisos
  <2> QED
    BY <2>1, <2>2 DEF CodigoConsola
<1>3. MenosUsuarios
  BY <1>1, NadaSeMueve
<1>4. \A l \in Lugares, j \in Consolas, i \in Nat : Sigue(l, j, i) =>
        \/ Sigue1(l, j, i) /\ ~ (l = "kernel" /\ j = k)
        \/ /\ l = "kernel" /\ j = k /\ i # 0
           /\ Pendiente("kernel", k, i + 1) /\ Lo(l, j, i) = Mensaje("kernel", k, i + 1)
  BY <1>1, <1>2, <1>3, LoaderLeePedido
<1>5. \A l1, l2 \in Lugares, k1, k2 \in Consolas, i1, i2 \in Nat :
        Pendiente(l1, k1, i1) /\ Pendiente(l2, k2, i2) => l1 = l2 /\ k1 = k2 /\ i1 = i2
  BY DEF Pedido, Unico
<1>6. Unico'
  <2>1. ASSUME NEW l1 \in Lugares, NEW l2 \in Lugares, NEW k1 \in Consolas, NEW k2 \in Consolas,
               NEW i1 \in Nat, NEW i2 \in Nat, Sigue(l1, k1, i1), Sigue(l2, k2, i2)
        PROVE  l1 = l2 /\ k1 = k2 /\ i1 = i2
    BY <1>4, <1>5, <2>1 DEF Lugares, Sigue1
  <2> QED
    BY <2>1, UnicoSi
<1>7. \A l \in Lugares, j \in Consolas, i \in Nat : Sigue(l, j, i) =>
        /\ \E l0 \in Lugares, i0 \in Nat :
             Pendiente(l0, j, i0) /\ Lo(l, j, i).pedido = Mensaje(l0, j, i0).pedido
        /\ l = "kernel" => Lo(l, j, i).de = j
  <2>1. ASSUME NEW l \in Lugares, NEW j \in Consolas, NEW i \in Nat, Sigue(l, j, i)
        PROVE  \E i0 \in Nat : Pendiente(l, j, i0) /\ Lo(l, j, i) = Mensaje(l, j, i0)
    BY <1>4, <2>1 DEF Sigue1
  <2>2. \A l \in Lugares, j \in Consolas, i \in Nat :
          Pendiente(l, j, i) /\ l = "kernel" => Mensaje(l, j, i).de = j
    BY DEF Pedido, Encaja
  <2> QED
    BY <2>1, <2>2
<1> QED
  BY <1>1, <1>6, <1>7, EncajanSi DEF EsperaIgual

\* Once loader has read the answer there is no request on its way.
LEMMA RespuestaPedido ==
  ASSUME TypeOK, Pedido, NEW k \in Consolas, SeProdujoEntrada(k)
  PROVE  Unico' /\ Encajan'
<1>1. Pendiente("kernel", k, 1)
  BY RespuestaEnCabeza
<1>2. LoaderLee(k, "se_produjo_entrada") /\ UNCHANGED <<consola, aConsola>>
  BY DEF SeProdujoEntrada
<1>3. MenosAConsola /\ MenosUsuarios
  BY <1>2, NadaSeMueve
<1>4. ASSUME NEW l \in Lugares, NEW j \in Consolas, NEW i \in Nat, Sigue(l, j, i)
      PROVE  FALSE
  <2>1. \/ Sigue1(l, j, i) /\ ~ (l = "kernel" /\ j = k)
        \/ /\ l = "kernel" /\ j = k /\ i # 0
           /\ Pendiente("kernel", k, i + 1) /\ Lo(l, j, i) = Mensaje("kernel", k, i + 1)
    BY <1>2, <1>3, <1>4, LoaderLeePedido
  <2> QED
    BY <1>1, <2>1 DEF Pedido, Unico, Sigue1, Lugares
<1>5. Unico'
  BY <1>4, UnicoSi
<1>6. Encajan'
  BY <1>4 DEF Encajan, Pendiente, Sigue
<1> QED
  BY <1>5, <1>6

\* A request goes out when there is none.
LEMMA ProducirPedido ==
  ASSUME TypeOK, Conectadas, Hilos, Estables, Pedido, ProducirEntrada
  PROVE  Unico' /\ Encajan'
<1> DEFINE c == planificador.cpu
           p == cpu[c].PID
<1>1. /\ entrada = Nada /\ c \in CPUs /\ cpu[c].pc = "espera" /\ cpu[c].pedido \in Pedidos
      /\ UNCHANGED <<consola, aKernel, cpu, hilo, consola_list>>
      /\ entrada' = [op |-> "entrada", cpu |-> c]
  BY DEF TypeOK, Pedido, Turno, ProducirEntrada
<1>2. PICK b \in Basura :
        Enviar(p, <<[op |-> "ingresar_cadena", de |-> cpu[c].TID,
                     pedido |-> cpu[c].pedido, basura |-> b]>>)
  BY DEF ProducirEntrada
<1> DEFINE m == [op |-> "ingresar_cadena", de |-> cpu[c].TID, pedido |-> cpu[c].pedido, basura |-> b]
<1>3. m \in AlUsuario /\ m.pedido = cpu[c].pedido
  <2>1. cpu[c].TID \in Nat
    BY <1>1 DEF TypeOK, Turnos
  <2> QED
    BY <1>1, <2>1 DEF AlUsuario, Solicitudes
<1>4. Enviar(p, <<m>>)
  BY <1>2
<1>5. entrada' # Nada /\ entrada'.cpu = c
  BY <1>1 DEF Nada
<1> HIDE DEF m, c
<1>6. \A l \in Lugares, k \in Consolas, i \in Nat : ~ Pendiente(l, k, i)
  BY <1>1 DEF Pedido, Encaja
<1>7. p \in DOMAIN consola_list /\ cpu[c].TID \in DOMAIN hilo
      /\ (SinRepetir => hilo[cpu[c].TID].programa = p)
  BY <1>1, LaDeUnaCPU DEF Ocupada
<1>8. <<m>> \in Seq(AlUsuario)
  BY <1>3, UnMensaje
<1>9. ASSUME NEW l \in Lugares, NEW k \in Consolas, NEW i \in Nat, Sigue(l, k, i)
      PROVE  /\ l = "consola" /\ k \in Actual(p)
             /\ i = Len(aConsola[k]) + 1 /\ Lo(l, k, i) = m
  <2>1. l = "consola"
    BY <1>1, <1>6, <1>9, NadaSeMueve, SigueSi DEF Lugares, Sigue1
  <2>2. i \in DOMAIN aConsola'[k] /\ aConsola'[k][i].op = "ingresar_cadena"
    BY <1>9, <2>1 DEF Sigue
  <2>3. aConsola'[k] # aConsola[k]
    BY <1>6, <2>2 DEF Pendiente, Lugares
  <2>4. k \in Actual(p) /\ aConsola'[k] = aConsola[k] \o <<m>> /\ aConsola[k] \in Seq(AlUsuario)
    <3>1. \/ aConsola'[k] = aConsola[k]
          \/ k \in Actual(p) /\ aConsola'[k] = aConsola[k] \o <<m>>
      BY <1>4, <1>8, LoEnviado
    <3>2. aConsola[k] \in Seq(AlUsuario)
      BY DEF TypeOK
    <3> QED
      BY <2>3, <3>1, <3>2
  <2>5. aConsola[k] \o <<m>> = Append(aConsola[k], m)
    BY <1>3, <2>4
  <2>6. \/ i \in DOMAIN aConsola[k] /\ aConsola'[k][i] = aConsola[k][i]
        \/ i = Len(aConsola[k]) + 1 /\ aConsola'[k][i] = m
    BY <2>2, <2>4, <2>5, UnoMas
  <2> QED
    BY <1>6, <2>1, <2>2, <2>4, <2>6 DEF Pendiente, Lo, Lugares
<1>10. \A k, j \in Actual(p) : k = j
  BY <1>7, UnSoloDestino
<1>11. Unico'
  BY <1>9, <1>10, UnicoSi
<1>12. ASSUME NEW l \in Lugares, NEW k \in Consolas, NEW i \in Nat, Sigue(l, k, i)
       PROVE  /\ entrada' # Nada
              /\ l = "kernel" => Lo(l, k, i).de = k
              /\ cpu'[entrada'.cpu].pc = "espera" =>
                   /\ Lo(l, k, i).pedido = cpu'[entrada'.cpu].pedido
                   /\ SinRepetir' => k = hilo'[cpu'[entrada'.cpu].TID].programa
  <2>1. l = "consola" /\ k \in Actual(p) /\ Lo(l, k, i) = m
    BY <1>9, <1>12
  <2>2. SinRepetir => k = p
    BY <1>7, <2>1, UnSoloDestino
  <2> QED
    BY <1>1, <1>3, <1>5, <1>7, <2>1, <2>2, SinRepetirAntes
<1>13. Encajan'
  BY <1>12 DEF Encajan, Pendiente, Encaja, Mensaje, Sigue, Lo
<1> QED
  BY <1>11, <1>13

LEMMA EsperaIgualDeCPU ==
  ASSUME TypeOK, Turno, NEW c \in CPUs,
         \/ Interrupcion(c) \/ CrearHilo(c) \/ SalidaEstandar(c) \/ EntradaEstandar(c)
         \/ DevolucionCadena(c) \/ FinLlamada(c) \/ Finaliza(c) \/ FinQuantum(c)
         \/ DesconectoCPU(c)
         \/ \E t \in DOMAIN hilo : DespachaHilo(c, t) \/ Atiende(c, t)
  PROVE  EsperaIgual /\ UNCHANGED <<consola, aKernel, entrada>>
<1>1. \A d \in CPUs : d # c => cpu'[d] = cpu[d]
  BY OtrasCPU
<1>2. UNCHANGED <<consola, aKernel, entrada>>
  BY DEF Interrupcion, CrearHilo, SalidaEstandar, EntradaEstandar, DevolucionCadena,
         FinLlamada, Finaliza, FinQuantum, DesconectoCPU, DespachaHilo, Atiende, Despacha,
         usuario, pedidos
<1>3. entrada # Nada => /\ entrada.cpu \in CPUs /\ cpu[entrada.cpu].pc \in {"espera", "ausente"}
                        /\ cpu[entrada.cpu].respuesta = Nada
  BY DEF Turno, TypeOK
<1>4. \/ cpu[c].pc \notin {"espera", "ausente"} \/ cpu[c].respuesta # Nada
      \/ cpu'[c].pc = "ausente"
  <2>1. CASE DesconectoCPU(c)
    <3> DEFINE x == [Libre EXCEPT !.pc = "ausente"]
    <3>1. x.pc = "ausente" /\ cpu' = [cpu EXCEPT ![c] = x]
      BY <2>1 DEF DesconectoCPU, Libre
    <3> HIDE DEF x
    <3> QED
      BY <3>1 DEF TypeOK
  <2>2. CASE DevolucionCadena(c)
    BY <2>2 DEF DevolucionCadena
  <2>3. CASE \/ Interrupcion(c) \/ CrearHilo(c) \/ SalidaEstandar(c) \/ EntradaEstandar(c)
             \/ FinLlamada(c) \/ Finaliza(c) \/ FinQuantum(c)
             \/ \E t \in DOMAIN hilo : DespachaHilo(c, t) \/ Atiende(c, t)
    BY <2>3 DEF Interrupcion, CrearHilo, SalidaEstandar, EntradaEstandar, FinLlamada, Finaliza,
                FinQuantum, DespachaHilo, Atiende, Despacha
  <2> QED
    BY <2>1, <2>2, <2>3
<1>5. entrada # Nada => cpu'[entrada.cpu] = cpu[entrada.cpu] \/ cpu'[entrada.cpu].pc # "espera"
  BY <1>1, <1>3, <1>4
<1> QED
  BY <1>2, <1>5 DEF EsperaIgual

\* The CPUs send words, never requests.
LEMMA PedidoDeCPU ==
  ASSUME TypeOK, Conectadas, Hilos, Estables, Pedido, NEW c \in CPUs,
         \/ Interrupcion(c) \/ CrearHilo(c) \/ SalidaEstandar(c) \/ EntradaEstandar(c)
         \/ DevolucionCadena(c) \/ FinLlamada(c) \/ Finaliza(c) \/ FinQuantum(c)
         \/ DesconectoCPU(c)
         \/ \E t \in DOMAIN hilo : DespachaHilo(c, t) \/ Atiende(c, t)
  PROVE  Unico' /\ Encajan'
<1> DEFINE p == cpu[c].PID
           aviso == [op |-> "se_desconecto_cpu", de |-> cpu[c].TID]
<1>1. EsperaIgual /\ UNCHANGED <<consola, aKernel, entrada>>
  BY EsperaIgualDeCPU DEF Pedido
<1>2. MenosAConsola => Unico' /\ Encajan'
  BY <1>1, NadaSeMueve, PedidoQuieto
<1>3. CASE UNCHANGED aConsola
  BY <1>2, <1>3, NadaSeMueve
<1>4. ASSUME NEW ms \in Seq(DeLaCPU(c)), cpu[c].pc \in Ocupada, Enviar(p, ms)
      PROVE  Unico' /\ Encajan'
  BY <1>2, <1>4, PalabrasDeLaCPU, EnviarAvisos
<1>5. CASE SalidaEstandar(c)
  BY <1>4, <1>5, DespedidaDeLaCPU DEF SalidaEstandar, Ocupada
<1>6. CASE Finaliza(c)
  BY <1>4, <1>6, DespedidaDeLaCPU DEF Finaliza, Ocupada
<1>7. CASE DesconectoCPU(c)
  <2>1. cpu[c].pc \in Ocupada
    BY <1>7 DEF DesconectoCPU, Ocupada
  <2>2. CASE Enviar(p, (IF consola_list[p].termino THEN <<>> ELSE <<aviso>>) \o Despedida(c))
    <3>1. consola_list[p].termino \in BOOLEAN
      BY <2>1, LaDeUnaCPU DEF Entradas
    <3> QED
      BY <1>4, <2>1, <2>2, <3>1, DespedidaDeLaCPU
  <2>3. CASE aConsola' = [k \in Consolas |-> IF fd[k] = 0 THEN aConsola[k]
                                             ELSE Append(aConsola[k], aviso)]
    <3>1. aviso.op # "ingresar_cadena"
      OBVIOUS
    <3> HIDE DEF aviso
    <3>2. ASSUME NEW k \in Consolas, NEW i \in DOMAIN aConsola'[k],
                 aConsola'[k][i].op = "ingresar_cadena"
          PROVE  i \in DOMAIN aConsola[k] /\ aConsola'[k][i] = aConsola[k][i]
      <4>1. CASE aConsola'[k] = aConsola[k]
        BY <3>2, <4>1
      <4>2. CASE aConsola'[k] = Append(aConsola[k], aviso)
        <5>1. i \in DOMAIN Append(aConsola[k], aviso) /\ aConsola[k] \in Seq(AlUsuario)
          BY <3>2, <4>2 DEF TypeOK
        <5>2. \/ i \in DOMAIN aConsola[k] /\ Append(aConsola[k], aviso)[i] = aConsola[k][i]
              \/ Append(aConsola[k], aviso)[i] = aviso
          BY <5>1, UnoMas
        <5> QED
          BY <3>1, <3>2, <4>2, <5>2
      <4> QED
        BY <2>3, <4>1, <4>2
    <3>3. MenosAConsola
      BY <3>2 DEF MenosAConsola
    <3> QED
      BY <1>2, <3>3
  <2> QED
    BY <1>7, <2>2, <2>3 DEF DesconectoCPU
<1>8. CASE \/ Interrupcion(c) \/ CrearHilo(c) \/ EntradaEstandar(c) \/ DevolucionCadena(c)
           \/ FinLlamada(c) \/ FinQuantum(c)
           \/ \E t \in DOMAIN hilo : DespachaHilo(c, t) \/ Atiende(c, t)
  BY <1>3, <1>8 DEF Interrupcion, CrearHilo, EntradaEstandar, DevolucionCadena, FinLlamada,
                    FinQuantum, DespachaHilo, Atiende, Despacha, usuario
<1> QED
  BY <1>5, <1>6, <1>7, <1>8

\* A queue to loader that is emptied has no answer.
LEMMA SinCola ==
  ASSUME TypeOK, NEW k \in Consolas, NEW q, q = <<>> \/ q = <<[op |-> "codigo_consola"]>>,
         aKernel' = [aKernel EXCEPT ![k] = q]
  PROVE  MenosAKernel
<1>1. \A i \in DOMAIN q : q[i].op # "se_produjo_entrada"
  <2>1. CASE q = <<>>
    BY <2>1
  <2>2. CASE q = <<[op |-> "codigo_consola"]>>
    <3>1. DOMAIN q = {1} /\ q[1] = [op |-> "codigo_consola"]
      BY <2>2
    <3> QED
      BY <3>1
  <2> QED
    BY <2>1, <2>2
<1>2. \A j \in Consolas : aKernel'[j] = IF j = k THEN q ELSE aKernel[j]
  BY DEF TypeOK
<1> QED
  BY <1>1, <1>2 DEF MenosAKernel

LEMMA PasoPedido ==
  ASSUME TypeOK, Conectadas, Hilos, Mensajes, Pedido, RespuestaPropia, [Next]_vars
  PROVE  Pedido'
<1>1. Estables
  BY PasoTipos
<1>2. ASSUME UNCHANGED <<entrada, cpu>>, MenosAConsola, MenosUsuarios, MenosAKernel
      PROVE  Unico' /\ Encajan'
  BY <1>1, <1>2, PedidoQuieto DEF EsperaIgual
<1>3. ASSUME UNCHANGED <<entrada, cpu, consola, aConsola, aKernel>>
      PROVE  Unico' /\ Encajan'
  BY <1>2, <1>3, NadaSeMueve
<1>4. ASSUME UNCHANGED vars PROVE Unico' /\ Encajan'
  BY <1>3, <1>4 DEF vars, usuario, tablas, pedidos
<1>5. ASSUME NEW k \in Consolas, Conecta(k) PROVE Unico' /\ Encajan'
  <2>1. UNCHANGED <<entrada, cpu, aConsola>>
    BY <1>5 DEF Conecta, pedidos
  <2>2. MenosAKernel
    <3> DEFINE q == <<[op |-> "codigo_consola"]>>
    <3>1. q = <<[op |-> "codigo_consola"]>> /\ aKernel' = [aKernel EXCEPT ![k] = q]
      BY <1>5 DEF Conecta
    <3> QED
      BY <3>1, SinCola
  <2>3. MenosUsuarios
    <3>1. \A r \in EstadosConsola : [r EXCEPT !.pc = "recibe"].pc = "recibe"
      BY DEF EstadosConsola
    <3>2. consola \in [Consolas -> EstadosConsola]
      BY DEF TypeOK, EstadosConsola
    <3>3. PICK x : x = [consola[k] EXCEPT !.pc = "recibe"]
      OBVIOUS
    <3>4. x.pc = "recibe" /\ consola' = [consola EXCEPT ![k] = x]
      BY <1>5, <3>1, <3>2, <3>3 DEF Conecta
    <3> QED
      BY <3>2, <3>4 DEF MenosUsuarios
  <2> QED
    BY <1>2, <2>1, <2>2, <2>3, NadaSeMueve
<1>6. ASSUME NEW k \in Consolas, Recibe(k) PROVE Unico' /\ Encajan'
  BY <1>1, <1>6, RecibePedido
<1>7. ASSUME NEW k \in Consolas, CodigoConsola(k) PROVE Unico' /\ Encajan'
  BY <1>1, <1>7, CodigoPedido
<1>8. ASSUME NEW k \in Consolas, SeProdujoEntrada(k) PROVE Unico' /\ Encajan'
  BY <1>8, RespuestaPedido
<1>9. ASSUME NEW k \in Consolas,
             \/ IngresarNumero(k) \/ SeVa(k)
             \/ \E largo \in Largos : IngresarCadena(k, largo)
      PROVE  Unico' /\ Encajan'
  <2>1. UNCHANGED <<aConsola, entrada, cpu>>
    BY <1>9, LaConsolaDespues DEF tablas, pedidos
  <2>2. CASE consola[k].pc = "ingresa" /\ \E n : Responde(k, n)
    BY <1>1, <2>1, <2>2, RespondePedido
  <2>3. CASE Muere(k) /\ Fuera(k)
    <3>1. \A n \in Consolas : /\ consola'[n].pide = consola[n].pide
                              /\ n # k => consola'[n] = consola[n]
                              /\ n = k => consola'[n].pc = "fuera"
      BY <2>3, ConsolaFuera
    <3>2. MenosUsuarios
      BY <3>1 DEF MenosUsuarios
    <3>3. MenosAKernel
      <4>1. UNCHANGED aKernel \/ aKernel' = [aKernel EXCEPT ![k] = <<>>]
        BY <2>3 DEF Muere
      <4> QED
        BY <4>1, NadaSeMueve, SinCola
    <3> QED
      BY <1>2, <2>1, <3>2, <3>3, NadaSeMueve
  <2> QED
    BY <1>9, <2>2, <2>3, LaConsolaDespues
<1>10. ASSUME NEW k \in Consolas, NEW l, Desliga(k, l),
              UNCHANGED <<entrada, cpu, consola, aConsola>>
       PROVE  Unico' /\ Encajan'
  <2>1. MenosAKernel
    BY <1>10, SinCola DEF Desliga
  <2> QED
    BY <1>2, <1>10, <2>1, NadaSeMueve
<1>11. ASSUME NEW k \in Consolas, FinConsola(k) PROVE Unico' /\ Encajan'
  BY <1>3, <1>10, <1>11 DEF FinConsola, pedidos
<1>12. ASSUME Mata PROVE Unico' /\ Encajan'
  <2>1. loader.k \in Consolas
    BY <1>12 DEF Mata, Conectadas
  <2>2. UNCHANGED <<entrada, cpu, consola, aConsola>>
    BY <1>12 DEF Mata, pedidos
  <2>3. UNCHANGED aKernel \/ \E l : Desliga(loader.k, l)
    BY <1>12 DEF Mata
  <2> QED
    BY <1>3, <1>10, <2>1, <2>2, <2>3
<1>13. ASSUME PostEntrada \/ LoaderEspera \/ EsperaFicha \/ DespachaNadie PROVE Unico' /\ Encajan'
  BY <1>3, <1>13 DEF PostEntrada, LoaderEspera, EsperaFicha, DespachaNadie, usuario, tablas, pedidos
<1>14. ASSUME ProducirEntrada PROVE Unico' /\ Encajan'
  BY <1>1, <1>14, ProducirPedido
<1>15. ASSUME NEW c \in CPUs,
              \/ Interrupcion(c) \/ CrearHilo(c) \/ SalidaEstandar(c) \/ EntradaEstandar(c)
              \/ DevolucionCadena(c) \/ FinLlamada(c) \/ Finaliza(c) \/ FinQuantum(c)
              \/ DesconectoCPU(c)
              \/ \E t \in DOMAIN hilo : DespachaHilo(c, t) \/ Atiende(c, t)
       PROVE  Unico' /\ Encajan'
  BY <1>1, <1>15, PedidoDeCPU
<1>16. Unico' /\ Encajan'
  BY <1>4, <1>5, <1>6, <1>7, <1>8, <1>9, <1>11, <1>12, <1>13, <1>14, <1>15, Pasos, Zenon
<1>17. Turno'
  BY PasoTurno
<1> QED
  BY <1>16, <1>17 DEF Pedido, Encajan

-------------------------------------------------------------------------------
(* The theorems *)

LEMMA InicioIInv ==
  ASSUME Init PROVE IInv
<1>1. TypeOK
  <2>1. /\ consola \in [Consolas -> [pc : {"no", "recibe", "ingresa", "fuera"},
                                     pide : Solicitudes \cup {Nada}]]
        /\ aConsola \in [Consolas -> Seq(AlUsuario)] /\ aKernel \in [Consolas -> Seq(AlKernel)]
    BY DEF Init
  <2>2. cpu \in [CPUs -> Turnos]
    BY DEF Init, Libre, Turnos
  <2>3. loader \in [pc : {"libre", "post", "espera1", "espera2", "mata"},
                    k : Consolas \cup {0}, cuenta : Nat]
    BY DEF Init, Ocioso
  <2> QED
    BY <2>1, <2>2, <2>3 DEF TypeOK, Init
<1>2. \A k \in Consolas : consola[k].pc = "no" /\ consola[k].pide = Nada /\ fd[k] = 0
                          /\ aConsola[k] = <<>> /\ aKernel[k] = <<>>
  BY DEF Init
<1>3. \A c \in CPUs : cpu[c].pc = "libre" /\ cpu[c].respuesta = Nada
  BY DEF Init, Libre
<1>4. Conectadas
  BY <1>2 DEF Conectadas, Init, Ocioso
<1>5. Hilos
  BY <1>3 DEF Hilos, Init, Ocupada
<1>6. Mensajes
  BY <1>2 DEF Mensajes, DeSuPrograma, Nada
<1>7. Pedido
  <2>1. \A l \in Lugares, k \in Consolas, i \in Nat : ~ Pendiente(l, k, i)
    BY <1>2 DEF Pendiente
  <2>2. Turno
    BY DEF Turno, Init, Ocioso
  <2> QED
    BY <2>1, <2>2 DEF Pedido, Unico
<1>8. RespuestaPropia
  BY <1>3 DEF RespuestaPropia
<1> QED
  BY <1>1, <1>4, <1>5, <1>6, <1>7, <1>8 DEF IInv

LEMMA PasoIInv ==
  ASSUME IInv, [Next]_vars PROVE IInv'
<1>1. TypeOK /\ Conectadas /\ Hilos /\ Mensajes /\ Pedido /\ RespuestaPropia
  BY DEF IInv
<1>2. TypeOK'
  BY <1>1, PasoTipos
<1>3. Conectadas'
  BY <1>1, PasoConectadas
<1>4. Hilos'
  BY <1>1, PasoHilos
<1>5. Mensajes'
  BY <1>1, PasoMensajes
<1>6. Pedido'
  BY <1>1, PasoPedido
<1>7. RespuestaPropia'
  BY <1>1, PasoRespuesta
<1> QED
  BY <1>2, <1>3, <1>4, <1>5, <1>6, <1>7 DEF IInv

\* The tables of connections agree, messages come from their programs, and at most one
\* request for input is on its way, whatever the consoles, the CPUs and the order of steps.
THEOREM InductivoEntradaSalida == Spec => []IInv
<1>1. Init => IInv
  BY InicioIInv
<1>2. IInv /\ [Next]_vars => IInv'
  BY PasoIInv
<1> QED
  BY <1>1, <1>2, PTL DEF Spec

\* What a console shows and asks its user comes from a thread of its own program, and only
\* its program ends it, until accept gives again the descriptor of a console that left:
\* obtener_consolaConectada and the socket of the entry find nobody else.
THEOREM SesionSiemprePropia == Spec => []SesionPropia
<1>1. IInv => SesionPropia
  <2> SUFFICES ASSUME IInv, SinRepetir PROVE SesionPropia
    BY DEF SesionPropia
  <2>1. \A k \in Consolas : /\ aConsola[k] \in Seq(AlUsuario)
                            /\ \A i \in DOMAIN aConsola[k] : DeSuPrograma(k, aConsola[k][i])
                            /\ DeSuPrograma(k, consola[k].pide)
    BY DEF IInv, Mensajes, TypeOK
  <2>2. ASSUME NEW k \in Consolas, NEW m \in ToSet(aConsola[k]) PROVE DeSuPrograma(k, m)
    BY <2>1, <2>2 DEF ToSet
  <2>3. PantallaPropia
    BY <2>1, <2>2 DEF PantallaPropia, DeSuPrograma
  <2>4. \A k \in Consolas : consola[k].pc = "recibe" => \A m \in ToSet(aConsola[k]) :
          m.op = "terminar_conexion" => hilo[m.de].programa = k /\ hilo[m.de].pid = k
    BY <2>2 DEF DeSuPrograma
  <2> QED
    BY <2>3, <2>4 DEF SesionPropia
<1> QED
  BY <1>1, InductivoEntradaSalida, PTL

\* The answer a CPU gets is to the request it waits with, whoever has left meanwhile, and
\* was typed in the console of its thread's program: one request at a time crosses
\* producir_entrada, the console and devolver_entrada_aCPU.
THEOREM RespuestaSiemprePropia == Spec => []RespuestaPropia
<1>1. IInv => RespuestaPropia
  BY DEF IInv
<1> QED
  BY <1>1, InductivoEntradaSalida, PTL
================================================================================
