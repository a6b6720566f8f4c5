---------------------------------- MODULE MSP ----------------------------------
(*****************************************************************************)
(* The memory server (src/MSP/MSP.c): segments, pages, frames and swap.      *)
(*                                                                           *)
(* Every connection is served by a thread of its own (interpretarOperacion). *)
(* Everything but the admission test of crearSegmento runs while the thread  *)
(* holds mutex_procesos, so the operation that holds it is one variable,     *)
(* enCurso; Nada means that the mutex is free.  Such an operation is a       *)
(* sequence of steps, one per function it calls on a page: swapInPagina,     *)
(* asignoMarcoAPagina, the copy with leoMemoria or escriboMemoria,           *)
(* destruirPag.  A page is named by its key <<pid, sid, paginaID>>.          *)
(*****************************************************************************)
EXTENDS Integers, Sequences, FiniteSets, SequencesExt

CONSTANTS
  Hilos,        \* threads, one per connected Kernel or CPU
  PIDs,         \* processes the clients name
  NumSID,       \* bound: a process gets segments 0..NumSID-1 (4096 in the code)
  MaxPag,       \* bound: a segment has pages 0..MaxPag-1 (4096 in the code)
  NumMarcos,    \* tamanioMemoria \div tamanioPag
  TamPag,       \* tamanioPag, 256 in the code
  CantidadSwap, \* CANTIDAD_SWAP of the configuration, in bytes
  MaxSegmento,  \* 2^20 in the code
  TopeLRU,      \* 100000 in the code
  Algoritmo,    \* SUST_PAGS of the configuration
  DiscoFalla,   \* may fopen fail to create a swap file?
  MaxContador,  \* bound: no access starts once contadorLRU reaches it
  Tamanios,     \* the sizes crear_segmento asks for
  Bytes,        \* byte values, 0 is NUL
  Lecturas,     \* requests solicitar_memoria
  Escrituras,   \* requests escribir_memoria
  Nada          \* NULL

SIDs   == 0 .. NumSID - 1
Claves == PIDs \X SIDs \X (0 .. MaxPag - 1)
Marcos == 0 .. NumMarcos - 1
Datos  == [0 .. TamPag - 1 -> Bytes]

\* Reply codes of MSP.h; solicitar_memoria answers 0 when it succeeds.
lectura_exitosa          == 0
operacion_exitosa        == 1
error_general            == -1
error_segmentation_fault == -2
error_memoria_llena      == -3

SinMarco == -1

Paginas == [swapped: BOOLEAN, marcoID: Marcos \cup {SinMarco},
            contadorLRU: Nat, bitReferencia: {0, 1}, data: Datos]

Operaciones ==
  [hilo: Hilos, op: {"solicitar", "escribir", "destruir"},
   paso: {"swapin", "marco", "copia", "destruir"},
   pid: PIDs, sid: SIDs, pag: 0 .. MaxPag, desp: 0 .. TamPag - 1,
   resta: Nat, bytes: Seq(Bytes)]

Solicitudes == [pid: PIDs, tamanio: {t \in Tamanios : t <= MaxSegmento}]

Respuestas == [hilo: Hilos, op: {"crear", "solicitar", "escribir"},
               codigo: Int, bytes: Seq(Bytes)]

\* The pages of a segment: tamanio / tamanioPag rounded up.
NumPaginas(tamanio) == (tamanio + TamPag - 1) \div TamPag

Segmentos == [sid: SIDs, tamanio: {t \in Nat : NumPaginas(t) <= MaxPag}]

ASSUME Constantes ==
  /\ NumSID \in Nat \ {0} /\ MaxPag \in Nat \ {0}
  /\ NumMarcos \in Nat /\ TamPag \in Nat \ {0}
  /\ CantidadSwap \in Nat /\ CantidadSwap % TamPag = 0
  /\ MaxSegmento \in Nat /\ TopeLRU \in Nat /\ MaxContador \in Nat
  /\ Algoritmo \in {"LRU", "CLOCK"} /\ DiscoFalla \in BOOLEAN
  /\ Tamanios \subseteq Nat
  /\ \A t \in Tamanios : t <= MaxSegmento => NumPaginas(t) <= MaxPag
  /\ 0 \in Bytes /\ Bytes \subseteq 0 .. 255
  /\ Lecturas \subseteq [pid: PIDs, sid: SIDs, pag: 0 .. MaxPag - 1,
                         desp: 0 .. TamPag - 1, tamanio: Nat]
  /\ Escrituras \subseteq [pid: PIDs, sid: SIDs, pag: 0 .. MaxPag - 1,
                           desp: 0 .. TamPag - 1, bytes: Seq(Bytes)]

\* There is a client.
ASSUME HayHilos == Hilos # {} /\ IsFiniteSet(Hilos)

\* NULL is none of the things a pointer may point to.
ASSUME NadaEsOtro ==
  Nada \notin Paginas \cup Claves \cup Datos \cup Operaciones
              \cup Solicitudes \cup Respuestas

\* A number in decimal.
Cifras(n) ==
  LET largo == CHOOSE l \in 1 .. 10 : n < 10 ^ l /\ (l = 1 \/ n >= 10 ^ (l - 1))
  IN  [i \in 1 .. largo |-> (n \div 10 ^ (largo - i)) % 10]
\* Mutant: the file name leaves the PID out.
RutaSinPID(k) == Cifras(k[2]) \o Cifras(k[3])

\* The name of a page's swap file: PID, SID and paginaID in decimal, one after
\* the other.
obtenerFilePath(k) == Cifras(k[1]) \o Cifras(k[2]) \o Cifras(k[3])
Rutas == {obtenerFilePath(k) : k \in Claves}

VARIABLES
  procesos,          \* the PIDs in the list procesos (a process is never removed)
  segmentos,         \* each process's list of segments
  pagina,            \* the page with each key, Nada if there is none
  marco,             \* each frame's page, Nada if it holds none
  marcosVacios,      \* list of free frames
  marcosLlenos,      \* frames in use (the code never depends on this list's order)
  paginasEnMemoria,  \* list of resident pages; Nada stands for a freed page
  archivos,          \* the swap directory: file name -> contents, Nada if absent
  cantidadSwap, memoriaDisponible, contadorLRU,
  solicitud,         \* each thread's crear_segmento that passed the admission test
  enCurso,           \* the operation whose thread holds mutex_procesos
  respuesta,         \* the last reply the server sent
  caida              \* the server crashed, or did what C leaves undefined

tablas  == <<procesos, segmentos>>
listas  == <<marco, marcosVacios, marcosLlenos, paginasEnMemoria>>
vars == <<procesos, segmentos, pagina, marco, marcosVacios, marcosLlenos,
          paginasEnMemoria, archivos, cantidadSwap, memoriaDisponible,
          contadorLRU, solicitud, enCurso, respuesta, caida>>

-------------------------------------------------------------------------------
\* inicializar, cargarArchivoConfiguracion and crearMarcos.
Init ==
  /\ procesos = {}
  /\ segmentos = [p \in PIDs |-> <<>>]
  /\ pagina = [k \in Claves |-> Nada]
  /\ marco = [m \in Marcos |-> Nada]
  /\ marcosVacios = [i \in 1 .. NumMarcos |-> i - 1]
  /\ marcosLlenos = {}
  /\ paginasEnMemoria = <<>>
  /\ archivos = [r \in Rutas |-> Nada]
  /\ cantidadSwap = CantidadSwap
  /\ memoriaDisponible = NumMarcos * TamPag + CantidadSwap
  /\ contadorLRU = 0
  /\ solicitud = [h \in Hilos |-> Nada]
  /\ enCurso = Nada
  /\ respuesta = Nada
  /\ caida = FALSE

Responder(h, op, codigo, bytes) ==
  respuesta' = [hilo |-> h, op |-> op, codigo |-> codigo, bytes |-> bytes]

\* Thread h waits in recibir_datos for the next request.
Ociosa(h) == ~caida /\ solicitud[h] = Nada /\ (enCurso # Nada => enCurso.hilo # h)

-------------------------------------------------------------------------------
\* crearSegmento, in its two critical sections.

\* Mutant: the number of segments instead of the last SID plus one.
SIDPorCantidad(pid) == Len(segmentos[pid])

calcularProximoSID(pid) ==
  IF segmentos[pid] = <<>> THEN 0 ELSE segmentos[pid][Len(segmentos[pid])].sid + 1

\* Bound: the segments that have passed the admission test will fit in NumSID.
CotaSID(pid) ==
  calcularProximoSID(pid)
    + Cardinality({h \in Hilos : solicitud[h] # Nada /\ solicitud[h].pid = pid}) < NumSID

\* Mutant: the free memory is not looked at.
SoloTope(tamanio) == tamanio <= MaxSegmento

\* The admission test, under mutex_MemoriaDisponible only: it may run while
\* another thread holds mutex_procesos.
Admisible(tamanio) == tamanio <= MaxSegmento /\ tamanio <= memoriaDisponible

AdmitirSegmento(h) ==
  /\ Ociosa(h)
  /\ \E pid \in PIDs, tamanio \in Tamanios :
       /\ CotaSID(pid)
       /\ \/ /\ Admisible(tamanio)
             /\ solicitud' = [solicitud EXCEPT ![h] = [pid |-> pid, tamanio |-> tamanio]]
             /\ UNCHANGED respuesta
          \/ /\ ~Admisible(tamanio)
             /\ Responder(h, "crear", error_memoria_llena, <<>>)
             /\ UNCHANGED solicitud
  /\ UNCHANGED <<tablas, pagina, listas, archivos, cantidadSwap,
                 memoriaDisponible, contadorLRU, enCurso, caida>>

\* Mutant: marcoID keeps what malloc left there.
PaginaSinInicializar ==
  [swapped |-> FALSE, marcoID |-> NumMarcos, contadorLRU |-> 0,
   bitReferencia |-> 0, data |-> [i \in 0 .. TamPag - 1 |-> 0]]

PaginaVacia == [swapped |-> FALSE, marcoID |-> SinMarco, contadorLRU |-> 0,
                bitReferencia |-> 0, data |-> [i \in 0 .. TamPag - 1 |-> 0]]

\* Mutant: one page too few when the last one is not full.
CrearSinRedondeo(pid, sid, tamanio) ==
  pagina' = [k \in Claves |->
               IF k[1] = pid /\ k[2] = sid /\ k[3] < tamanio \div TamPag
               THEN PaginaVacia ELSE pagina[k]]

crearPaginasPorTamanioSegmento(pid, sid, tamanio) ==
  pagina' = [k \in Claves |->
               IF k[1] = pid /\ k[2] = sid /\ k[3] < NumPaginas(tamanio)
               THEN PaginaVacia ELSE pagina[k]]

AgregarSegmento(h) ==
  /\ ~caida
  /\ solicitud[h] # Nada /\ enCurso = Nada
  /\ LET pid == solicitud[h].pid
         tamanio == solicitud[h].tamanio
         sid == calcularProximoSID(pid)
     IN  /\ sid \in SIDs
         /\ procesos' = procesos \cup {pid}
         /\ segmentos' = [segmentos EXCEPT ![pid] =
                            Append(@, [sid |-> sid, tamanio |-> tamanio])]
         /\ crearPaginasPorTamanioSegmento(pid, sid, tamanio)
         /\ memoriaDisponible' = memoriaDisponible - tamanio
         /\ Responder(h, "crear", sid, <<>>)
  /\ solicitud' = [solicitud EXCEPT ![h] = Nada]
  /\ UNCHANGED <<listas, archivos, cantidadSwap, contadorLRU, enCurso, caida>>

-------------------------------------------------------------------------------
\* solicitarMemoria and escribirMemoria: validation of the request.

TieneSegmento(pid, sid) ==
  \E i \in DOMAIN segmentos[pid] : segmentos[pid][i].sid = sid

\* The request r for n bytes lies inside the segment it names.
DentroDelSegmento(r, n) ==
  \E i \in DOMAIN segmentos[r.pid] :
    /\ segmentos[r.pid][i].sid = r.sid
    /\ r.pag < NumPaginas(segmentos[r.pid][i].tamanio)
    /\ TamPag * r.pag + r.desp + n <= segmentos[r.pid][i].tamanio

\* Mutant: a page without a frame is never looked for in swap.
SinBuscarEnSwap(k) == IF pagina[k].marcoID # SinMarco THEN "copia" ELSE "marco"

\* What must be done first with the page k: swapInPagina, asignoMarcoAPagina,
\* or nothing but the copy.
PrimerPaso(k) ==
  IF pagina[k].marcoID # SinMarco THEN "copia"
  ELSE IF pagina[k].swapped THEN "swapin" ELSE "marco"

Acceder(h, op, r, n, bytes) ==
  /\ Ociosa(h) /\ enCurso = Nada
  /\ contadorLRU < MaxContador
  /\ \/ /\ r.pid \notin procesos
        /\ Responder(h, op, error_general, <<>>)
        /\ UNCHANGED enCurso
     \/ /\ r.pid \in procesos /\ ~DentroDelSegmento(r, n)
        /\ Responder(h, op, error_segmentation_fault, <<>>)
        /\ UNCHANGED enCurso
     \/ /\ r.pid \in procesos /\ DentroDelSegmento(r, n)
        /\ enCurso' = [hilo |-> h, op |-> op, pid |-> r.pid, sid |-> r.sid,
                       pag |-> r.pag, desp |-> r.desp, resta |-> n, bytes |-> bytes,
                       paso |-> PrimerPaso(<<r.pid, r.sid, r.pag>>)]
        /\ UNCHANGED respuesta
  /\ UNCHANGED <<tablas, pagina, listas, archivos, cantidadSwap,
                 memoriaDisponible, contadorLRU, solicitud, caida>>

SolicitarMemoria(h) ==
  \E r \in Lecturas : Acceder(h, "solicitar", r, r.tamanio, <<>>)

EscribirMemoria(h) ==
  \E r \in Escrituras : Acceder(h, "escribir", r, Len(r.bytes), r.bytes)

\* The key of the page the operation has reached.
Actual == <<enCurso.pid, enCurso.sid, enCurso.pag>>

En(paso) == ~caida /\ enCurso # Nada /\ enCurso.paso = paso

\* Mutant: an error path that forgets sem_post(&mutex_procesos).
FracasarSinSoltar(codigo) ==
  /\ Responder(enCurso.hilo, enCurso.op, codigo, <<>>)
  /\ enCurso' = [enCurso EXCEPT !.paso = "sin soltar"]

\* The operation gives up; solicitarMemoria turns every failure to assign a
\* frame into "error_memoria_llena".
Fracasar(codigo) ==
  /\ Responder(enCurso.hilo, enCurso.op,
               IF enCurso.op = "solicitar" THEN error_memoria_llena ELSE codigo, <<>>)
  /\ enCurso' = Nada

-------------------------------------------------------------------------------
\* swapInPagina.  memcpy copies strlen(data)+1 bytes: the bytes after the first
\* NUL stay as they are in pag->data.  (A page with no NUL is copied whole; the
\* copy then runs past the end of both buffers, outside what is modelled.)
HastaNul(datos, previos) ==
  [i \in 0 .. TamPag - 1 |->
     IF \A j \in 0 .. i - 1 : datos[j] # 0 THEN datos[i] ELSE previos[i]]

SwapIn ==
  /\ En("swapin")
  /\ archivos[obtenerFilePath(Actual)] # Nada
  /\ pagina' = [pagina EXCEPT
       ![Actual].data = HastaNul(archivos[obtenerFilePath(Actual)], @),
       ![Actual].swapped = FALSE]
  /\ archivos' = [archivos EXCEPT ![obtenerFilePath(Actual)] = Nada]
  /\ cantidadSwap' = cantidadSwap + TamPag
  /\ enCurso' = [enCurso EXCEPT !.paso = "marco"]
  /\ UNCHANGED <<tablas, listas, memoriaDisponible, contadorLRU, solicitud,
                 respuesta, caida>>

\* The file is not there, or the disk refuses to open it.
SwapInFalla ==
  /\ En("swapin")
  /\ archivos[obtenerFilePath(Actual)] = Nada \/ DiscoFalla
  /\ Fracasar(error_general)
  /\ UNCHANGED <<tablas, pagina, listas, archivos, cantidadSwap,
                 memoriaDisponible, contadorLRU, solicitud, caida>>

-------------------------------------------------------------------------------
\* asignoMarcoAPagina, when there is a free frame.
TomarMarcoVacio ==
  /\ En("marco")
  /\ marcosVacios # <<>>
  /\ LET m == Head(marcosVacios)
     IN  /\ pagina' = [pagina EXCEPT ![Actual].marcoID = m, ![Actual].bitReferencia = 1]
         /\ marco' = [marco EXCEPT ![m] = Actual]
         /\ marcosLlenos' = marcosLlenos \cup {m}
  /\ marcosVacios' = Tail(marcosVacios)
  /\ paginasEnMemoria' = Append(paginasEnMemoria, Actual)
  /\ enCurso' = [enCurso EXCEPT !.paso = "copia"]
  /\ UNCHANGED <<tablas, archivos, cantidadSwap, memoriaDisponible, contadorLRU,
                 solicitud, respuesta, caida>>

\* Mutant: the last page of swap is used too.
SwapHastaElFinal == cantidadSwap >= TamPag

\* There is neither a free frame nor swap space.
HaySwap == cantidadSwap > TamPag

MemoriaLlena ==
  /\ En("marco")
  /\ marcosVacios = <<>> /\ ~HaySwap
  /\ Fracasar(error_memoria_llena)
  /\ UNCHANGED <<tablas, pagina, listas, archivos, cantidadSwap,
                 memoriaDisponible, contadorLRU, solicitud, caida>>

\* seleccionarMarcoVictima.  Res(i) is the i-th resident page.
Res(i) == pagina[paginasEnMemoria[i]]
Posiciones == DOMAIN paginasEnMemoria

\* Mutant: the page that has been resident longest.
VictimaFIFO(m) == paginasEnMemoria # <<>> /\ m = Res(1).marcoID

\* algoritmoLRU: the first page with the least counter below TopeLRU; with none
\* marcoId is never assigned and may name any frame or no frame.
VictimaLRU(m) ==
  IF \E i \in Posiciones : Res(i).contadorLRU < TopeLRU
  THEN \E i \in Posiciones :
         /\ m = Res(i).marcoID
         /\ \A j \in Posiciones : Res(i).contadorLRU <= Res(j).contadorLRU
         /\ \A j \in 1 .. i - 1 : Res(i).contadorLRU < Res(j).contadorLRU
  ELSE m \in Marcos \cup {SinMarco}

\* algoritmoClock: the first page with bit 0, or the first page if there is none.
PosicionCLOCK(i) ==
  /\ \A j \in 1 .. i - 1 : Res(j).bitReferencia = 1
  /\ \/ Res(i).bitReferencia = 0
     \/ i = 1 /\ \A j \in Posiciones : Res(j).bitReferencia = 1

\* Mutant: no second lap when every page has its bit set.
VictimaUnaVuelta(m) ==
  IF \E i \in Posiciones : Res(i).bitReferencia = 0
  THEN \E i \in Posiciones : PosicionCLOCK(i) /\ m = Res(i).marcoID
  ELSE m = SinMarco

VictimaCLOCK(m) ==
  IF paginasEnMemoria = <<>> THEN m = SinMarco
  ELSE \E i \in Posiciones : PosicionCLOCK(i) /\ m = Res(i).marcoID

seleccionarMarcoVictima(m) ==
  IF Algoritmo = "LRU" THEN VictimaLRU(m) ELSE VictimaCLOCK(m)

\* algoritmoClock clears the bits of the pages it passes before it stops.
Repasada(k) ==
  /\ Algoritmo = "CLOCK"
  /\ \E i \in Posiciones :
       /\ paginasEnMemoria[i] = k
       /\ \A j \in 1 .. i : Res(j).bitReferencia = 1

Repasar ==
  [k \in Claves |-> IF Repasada(k) THEN [pagina[k] EXCEPT !.bitReferencia = 0]
                                   ELSE pagina[k]]

\* asignoMarcoAPagina looks for a victim.
BuscaVictima == En("marco") /\ marcosVacios = <<>> /\ HaySwap

\* The list of resident pages holds one that destruirPag has freed.
PaginaLiberada == \E i \in Posiciones : paginasEnMemoria[i] = Nada

\* Mutant: the victim stays in paginasEnMemoria.
SinQuitar(victima) == paginasEnMemoria

\* swapOutPagina removes from paginasEnMemoria the first page without a frame,
\* which the victim has just become.
SinPrimeraSwappeada(victima) ==
  LET swappeadas == {i \in Posiciones : \/ paginasEnMemoria[i] = victima
                                        \/ Res(i).marcoID = SinMarco}
  IN  RemoveAt(paginasEnMemoria, Min(swappeadas))

\* The victim leaves its frame (swapOutPagina) and the frame goes to the page
\* of the operation.
Desalojar(m) ==
  /\ BuscaVictima /\ ~PaginaLiberada
  /\ seleccionarMarcoVictima(m) /\ m \in marcosLlenos
  /\ LET victima == marco[m]
     IN  /\ archivos' = [archivos EXCEPT ![obtenerFilePath(victima)] = pagina[victima].data]
         /\ pagina' = [Repasar EXCEPT
              ![victima].swapped = TRUE,
              ![victima].marcoID = SinMarco,
              ![victima].data = PaginaVacia.data,
              ![Actual].marcoID = m,
              ![Actual].bitReferencia = 1]
         /\ paginasEnMemoria' = Append(SinPrimeraSwappeada(victima), Actual)
  /\ marco' = [marco EXCEPT ![m] = Actual]
  /\ cantidadSwap' = cantidadSwap - TamPag
  /\ enCurso' = [enCurso EXCEPT !.paso = "copia"]
  /\ UNCHANGED <<tablas, marcosVacios, marcosLlenos, memoriaDisponible,
                 contadorLRU, solicitud, respuesta, caida>>

\* fopen cannot create the swap file: the victim has left marcosLlenos and its
\* frame goes to nobody.
SwapOutFalla(m) ==
  /\ DiscoFalla
  /\ BuscaVictima /\ ~PaginaLiberada
  /\ seleccionarMarcoVictima(m) /\ m \in marcosLlenos
  /\ marcosLlenos' = marcosLlenos \ {m}
  /\ pagina' = Repasar
  /\ Fracasar(error_general)
  /\ UNCHANGED <<tablas, marco, marcosVacios, paginasEnMemoria, archivos,
                 cantidadSwap, memoriaDisponible, contadorLRU, solicitud, caida>>

\* The search reads a freed page, or names a frame that is not in marcosLlenos
\* and dereferences NULL.
SinVictima ==
  /\ BuscaVictima
  /\ \/ PaginaLiberada
     \/ ~PaginaLiberada /\ \E m \in Marcos \cup {SinMarco} :
                             seleccionarMarcoVictima(m) /\ m \notin marcosLlenos
  /\ caida' = TRUE
  /\ UNCHANGED <<tablas, pagina, listas, archivos, cantidadSwap,
                 memoriaDisponible, contadorLRU, solicitud, enCurso, respuesta>>

-------------------------------------------------------------------------------
\* The copy of one page: the part of the request that lies in it, then the
\* attributes of the replacement algorithms (leoMemoria, escriboMemoria), then
\* the next page or the reply.

Tramo == IF enCurso.resta < TamPag - enCurso.desp
         THEN enCurso.resta ELSE TamPag - enCurso.desp

Leido == [i \in 1 .. Tramo |-> pagina[Actual].data[enCurso.desp + i - 1]]

\* Mutant: the displacement within the page is ignored.
EscritoDesdeCero ==
  [i \in 0 .. TamPag - 1 |-> IF i < Tramo THEN enCurso.bytes[i + 1]
                                         ELSE pagina[Actual].data[i]]

Escrito ==
  [i \in 0 .. TamPag - 1 |->
     IF i \in enCurso.desp .. enCurso.desp + Tramo - 1
     THEN enCurso.bytes[i - enCurso.desp + 1] ELSE pagina[Actual].data[i]]

\* leoMemoria and escriboMemoria.
Copiada ==
  [pagina[Actual] EXCEPT !.data = IF enCurso.op = "escribir" THEN Escrito ELSE @,
                         !.bitReferencia = 1, !.contadorLRU = contadorLRU]

\* bytes once the page has been copied: what has been read so far, or what is
\* still to be written.
BytesTrasCopia ==
  IF enCurso.op = "solicitar" THEN enCurso.bytes \o Leido
  ELSE SubSeq(enCurso.bytes, Tramo + 1, Len(enCurso.bytes))

CopiarPagina ==
  /\ En("copia")
  /\ pagina' = [pagina EXCEPT ![Actual] = Copiada]
  /\ contadorLRU' = contadorLRU + 1
  /\ \/ /\ Tramo < enCurso.resta
        /\ enCurso' = [enCurso EXCEPT
             !.pag = @ + 1, !.desp = 0, !.resta = @ - Tramo, !.bytes = BytesTrasCopia,
             !.paso = PrimerPaso(<<enCurso.pid, enCurso.sid, enCurso.pag + 1>>)]
        /\ UNCHANGED respuesta
     \/ /\ Tramo = enCurso.resta
        /\ enCurso' = Nada
        /\ IF enCurso.op = "solicitar"
           THEN Responder(enCurso.hilo, "solicitar", lectura_exitosa, BytesTrasCopia)
           ELSE Responder(enCurso.hilo, "escribir", operacion_exitosa, <<>>)
  /\ UNCHANGED <<tablas, listas, archivos, cantidadSwap, memoriaDisponible,
                 solicitud, caida>>

-------------------------------------------------------------------------------
\* destruirSegmento: it sends no reply.  A request for a process or a segment
\* that does not exist changes nothing.

DestruirSegmento(h) ==
  /\ Ociosa(h) /\ enCurso = Nada
  /\ \E pid \in procesos, sid \in SIDs :
       /\ TieneSegmento(pid, sid)
       /\ enCurso' = [hilo |-> h, op |-> "destruir", paso |-> "destruir", pid |-> pid,
                      sid |-> sid, pag |-> 0, desp |-> 0, resta |-> 0, bytes |-> <<>>]
  /\ UNCHANGED <<tablas, pagina, listas, archivos, cantidadSwap,
                 memoriaDisponible, contadorLRU, solicitud, respuesta, caida>>

PosicionSegmento(i) ==
  i \in DOMAIN segmentos[enCurso.pid] /\ segmentos[enCurso.pid][i].sid = enCurso.sid

\* Mutant: the frame is freed but stays in marcosLlenos.
LiberarSinQuitar ==
  \/ \E m \in marcosLlenos :
       /\ marco[m] = Actual
       /\ marcosVacios' = Append(marcosVacios, m)
       /\ paginasEnMemoria' = RemoveFirst(paginasEnMemoria, Actual)
       /\ UNCHANGED <<marco, marcosLlenos>>
  \/ /\ \A m \in marcosLlenos : marco[m] # Actual
     /\ UNCHANGED listas

\* Mutant: a destroyed page keeps its frame.
NoLiberar == UNCHANGED listas

\* destruirPag gives the page's frame back ...
LiberarMarco ==
  \/ \E m \in marcosLlenos :
       /\ marco[m] = Actual
       /\ marcosLlenos' = marcosLlenos \ {m}
       /\ marco' = [marco EXCEPT ![m] = Nada]
       /\ marcosVacios' = Append(marcosVacios, m)
       /\ paginasEnMemoria' = RemoveFirst(paginasEnMemoria, Actual)
  \/ /\ \A m \in marcosLlenos : marco[m] # Actual
     /\ paginasEnMemoria' = [i \in Posiciones |->
          IF paginasEnMemoria[i] = Actual THEN Nada ELSE paginasEnMemoria[i]]
     /\ UNCHANGED <<marco, marcosVacios, marcosLlenos>>

\* Mutant: the swap file of a destroyed page stays on disk.
NoBorrar ==
  /\ cantidadSwap' = cantidadSwap + IF pagina[Actual].swapped THEN TamPag ELSE 0
  /\ UNCHANGED archivos

\* ... and removes its swap file.
BorrarArchivo ==
  \/ /\ pagina[Actual].swapped /\ archivos[obtenerFilePath(Actual)] # Nada
     /\ archivos' = [archivos EXCEPT ![obtenerFilePath(Actual)] = Nada]
     /\ cantidadSwap' = cantidadSwap + TamPag
  \/ /\ ~(pagina[Actual].swapped /\ archivos[obtenerFilePath(Actual)] # Nada)
     /\ UNCHANGED <<archivos, cantidadSwap>>

DestruirPag ==
  /\ En("destruir")
  /\ Actual \in Claves /\ pagina[Actual] # Nada
  /\ LiberarMarco
  /\ BorrarArchivo
  /\ pagina' = [pagina EXCEPT ![Actual] = Nada]
  /\ enCurso' = [enCurso EXCEPT !.pag = @ + 1]
  /\ UNCHANGED <<tablas, memoriaDisponible, contadorLRU, solicitud, respuesta, caida>>

\* Mutant: whole pages are given back.
DevolverPaginas(i) == TamPag * NumPaginas(segmentos[enCurso.pid][i].tamanio)

\* What destruirSegmento adds to memoriaDisponible.
MemoriaDevuelta(i) == segmentos[enCurso.pid][i].tamanio

QuitarSegmento ==
  /\ En("destruir")
  /\ Actual \in Claves => pagina[Actual] = Nada
  /\ \E i \in DOMAIN segmentos[enCurso.pid] :
       /\ PosicionSegmento(i) /\ \A j \in 1 .. i - 1 : ~PosicionSegmento(j)
       /\ segmentos' = [segmentos EXCEPT ![enCurso.pid] = RemoveAt(@, i)]
       /\ memoriaDisponible' = memoriaDisponible + MemoriaDevuelta(i)
  /\ enCurso' = Nada
  /\ UNCHANGED <<procesos, pagina, listas, archivos, cantidadSwap, contadorLRU,
                 solicitud, respuesta, caida>>

-------------------------------------------------------------------------------
\* What a thread does while it holds mutex_procesos.
Paso ==
  \/ SwapIn \/ SwapInFalla
  \/ TomarMarcoVacio \/ MemoriaLlena
  \/ \E m \in Marcos : Desalojar(m) \/ SwapOutFalla(m)
  \/ SinVictima
  \/ CopiarPagina
  \/ DestruirPag \/ QuitarSegmento

Next ==
  \/ \E h \in Hilos : \/ AdmitirSegmento(h) \/ AgregarSegmento(h)
                      \/ SolicitarMemoria(h) \/ EscribirMemoria(h)
                      \/ DestruirSegmento(h)
  \/ Paso

Spec == Init /\ [][Next]_vars

\* A thread inside a critical section is scheduled again: pthreads on Linux.
FairSpec == Spec /\ WF_vars(Paso)
-------------------------------------------------------------------------------
\* Every variable holds a value of its type.
TypeOK ==
  /\ procesos \subseteq PIDs
  /\ segmentos \in [PIDs -> Seq(Segmentos)]
  /\ pagina \in [Claves -> Paginas \cup {Nada}]
  /\ marco \in [Marcos -> Claves \cup {Nada}]
  /\ marcosVacios \in Seq(Marcos)
  /\ marcosLlenos \subseteq Marcos
  /\ paginasEnMemoria \in Seq(Claves \cup {Nada})
  /\ archivos \in [Rutas -> Datos \cup {Nada}]
  /\ cantidadSwap \in Int /\ memoriaDisponible \in Int /\ contadorLRU \in Nat
  /\ solicitud \in [Hilos -> Solicitudes \cup {Nada}]
  /\ enCurso \in Operaciones \cup {Nada}
  /\ respuesta \in Respuestas \cup {Nada}
  /\ caida \in BOOLEAN

Existe(k) == k \in Claves /\ pagina[k] # Nada

\* The two lists of frames never share a frame nor repeat one, and as long as
\* no swap file has failed to be created every frame is in one of them, across
\* assignment, eviction and the destruction of a segment page by page.
MarcosParticionados ==
  /\ IsInjective(marcosVacios)
  /\ Range(marcosVacios) \cap marcosLlenos = {}
  /\ ~DiscoFalla => Range(marcosVacios) \cup marcosLlenos = Marcos

\* A frame in use and its page name each other, that page is not in swap, and
\* it is in paginasEnMemoria, where the replacement algorithms look for it; a
\* page that names a frame is that frame's, and the frame is not on offer.
MarcoYPagina ==
  /\ \A m \in marcosLlenos :
       /\ Existe(marco[m])
       /\ pagina[marco[m]].marcoID = m
       /\ marco[m] \in Range(paginasEnMemoria)
  /\ \A k \in Claves : Existe(k) /\ pagina[k].marcoID # SinMarco =>
       /\ marco[pagina[k].marcoID] = k
       /\ pagina[k].marcoID \notin Range(marcosVacios)
       /\ ~pagina[k].swapped

\* No page is listed twice as resident, and what is listed is resident: a page
\* that destroyed, evicted or not yet placed pages leave behind would be chosen
\* as a victim without a frame.
ListadasResidentes ==
  /\ \A i, j \in Posiciones :
       paginasEnMemoria[i] = paginasEnMemoria[j] /\ paginasEnMemoria[i] # Nada => i = j
  /\ \A k \in Range(paginasEnMemoria) \ {Nada} :
       /\ Existe(k)
       /\ pagina[k].marcoID \in Marcos
       /\ marco[pagina[k].marcoID] = k

PaginasEnSwap == {k \in Claves : Existe(k) /\ pagina[k].swapped}

\* cantidadSwap counts exactly the swap space no page uses, whatever sequence of
\* evictions, returns and destructions led here; it never falls below zero and
\* a page in swap always finds at least one free page of swap, so that its
\* return can evict another one.
SwapConservado ==
  /\ cantidadSwap + TamPag * Cardinality(PaginasEnSwap) = CantidadSwap
  /\ cantidadSwap >= 0
  /\ PaginasEnSwap # {} => cantidadSwap > 0

\* The swap directory holds one file for each page in swap, and nothing else.
UnArchivoPorPagina ==
  /\ \A k, l \in PaginasEnSwap : obtenerFilePath(k) = obtenerFilePath(l) => k = l
  /\ {r \in Rutas : archivos[r] # Nada} = {obtenerFilePath(k) : k \in PaginasEnSwap}

TodosLosSegmentos == UNION {{p} \X DOMAIN segmentos[p] : p \in PIDs}

\* What crearSegmento takes from memoriaDisponible, in a critical section of its
\* own, is what destruirSegmento gives back, whatever runs in between.
MemoriaConservada ==
  memoriaDisponible
    + MapThenSumSet(LAMBDA x : segmentos[x[1]][x[2]].tamanio, TodosLosSegmentos)
  = NumMarcos * TamPag + CantidadSwap

\* Clients that pass the admission test of crearSegmento one after the other, before any
\* of them takes its memory, are promised more than there is, but never more than a
\* segment for each of them but one.
ExcesoAcotado == memoriaDisponible >= -((Cardinality(Hilos) - 1) * MaxSegmento)

\* The segments in existence fit in the main memory and the swap space together.
MemoriaNoNegativa == memoriaDisponible >= 0

\* A live segment calls for the page k.
DeUnSegmento(k) ==
  \E i \in DOMAIN segmentos[k[1]] :
    /\ segmentos[k[1]][i].sid = k[2]
    /\ k[3] < NumPaginas(segmentos[k[1]][i].tamanio)

\* The destruction in progress has gone past the page k.
YaDestruida(k) ==
  /\ enCurso # Nada /\ enCurso.op = "destruir"
  /\ enCurso.pid = k[1] /\ enCurso.sid = k[2]
  /\ k[3] < enCurso.pag

\* A process has exactly the pages its segments call for, whatever is created
\* or destroyed meanwhile; while a segment is being destroyed its first pages
\* are gone.
PaginasDeSegmentos ==
  \A k \in Claves : Existe(k) <=> DeUnSegmento(k) /\ ~YaDestruida(k)

\* The access or destruction that holds mutex_procesos works inside a live
\* segment, on a page in the situation its next step expects: never a frame for
\* a page that has one or whose bytes are still in swap, never a copy from or to
\* a page without a frame.
OperacionEnCurso ==
  enCurso # Nada =>
    /\ enCurso.op = "destruir" <=> enCurso.paso = "destruir"
    /\ enCurso.op # "destruir" => DentroDelSegmento(enCurso, enCurso.resta)
    /\ enCurso.op = "escribir" => Len(enCurso.bytes) = enCurso.resta
    /\ enCurso.paso = "swapin" => pagina[Actual].marcoID = SinMarco
    /\ enCurso.paso = "marco" => /\ pagina[Actual].marcoID = SinMarco
                                 /\ ~pagina[Actual].swapped
    /\ enCurso.paso = "copia" => pagina[Actual].marcoID # SinMarco

\* No two live segments of a process share a SID, hence a base address, even
\* when a SID is given out again after the segment that had it is destroyed.
SIDsCrecientes ==
  \A p \in PIDs : \A i, j \in DOMAIN segmentos[p] :
    i < j => segmentos[p][i].sid < segmentos[p][j].sid

\* mutex_procesos is always released: every error path gives it back.
MutexSeLibera == (enCurso # Nada) ~> (enCurso = Nada \/ caida)

\* The search for a victim fails, and takes the server down, only after a frame
\* has been lost to a swap file that could not be created.
CaidaSoloPorDisco == caida => Range(marcosVacios) \cup marcosLlenos # Marcos

\* Each byte of a process's pages is NUL or a byte that process has written:
\* what another process wrote never comes back from swap.
BytesDe(pid) == {0} \cup UNION {Range(r.bytes) : r \in {e \in Escrituras : e.pid = pid}}
Aislamiento == \A k \in Claves : Existe(k) => Range(pagina[k].data) \subseteq BytesDe(k[1])

\* LRU never evicts, to bring in the next page of a read, the page that the same
\* read has just copied, unless there is only one frame.
LRUNoDesalojaLaRecienLeida ==
  [][ /\ En("marco") /\ enCurso.op = "solicitar" /\ enCurso.bytes # <<>>
      /\ Cardinality(marcosLlenos) > 1
      => ~(pagina[<<enCurso.pid, enCurso.sid, enCurso.pag - 1>>].marcoID # SinMarco
           /\ pagina'[<<enCurso.pid, enCurso.sid, enCurso.pag - 1>>].marcoID = SinMarco)
    ]_vars
=================================================================================
