------------------------------- MODULE MSP_proofs -------------------------------
(*****************************************************************************)
(* Proofs about the memory server: the type invariant and the safety         *)
(* invariants of its tables, frames and lists, for any number of threads,    *)
(* processes, frames and pages, for both replacement algorithms, and whether *)
(* or not a swap file may fail to be created.  The second half is about what *)
(* it stores: the swap directory and the count of free swap space, the bytes *)
(* of each process, the admission of segments and the memory they take, what *)
(* brings the server down, and what LRU evicts.                              *)
(*****************************************************************************)
EXTENDS MSP, Lemas

\* What holds of frames, pages and the lists of both.
Marcacion == MarcosParticionados /\ MarcoYPagina /\ ListadasResidentes

\* The inductive invariant.
IInv == /\ TypeOK
        /\ SIDsCrecientes /\ PaginasDeSegmentos
        /\ OperacionEnCurso
        /\ Marcacion

-------------------------------------------------------------------------------
\* The initial states.
LEMMA InitIInv == Init => IInv
<1> SUFFICES ASSUME Init PROVE IInv
  OBVIOUS
<1>1. /\ marcosVacios \in Seq(Marcos) /\ DOMAIN marcosVacios = 1 .. NumMarcos
      /\ \A i \in 1 .. NumMarcos : marcosVacios[i] = i - 1
  <2>1. NumMarcos \in Nat /\ \A i \in 1 .. NumMarcos : i - 1 \in Marcos
    BY Constantes DEF Marcos
  <2> QED
    BY <2>1 DEF Init
<1>2. IsInjective(marcosVacios)
  BY <1>1, Constantes DEF IsInjective
<1>3. Range(marcosVacios) = Marcos
  <2>1. \A m \in Marcos : m + 1 \in 1 .. NumMarcos /\ (m + 1) - 1 = m
    BY Constantes DEF Marcos
  <2>2. \A i \in 1 .. NumMarcos : i - 1 \in Marcos
    BY Constantes DEF Marcos
  <2> QED
    BY <1>1, <2>1, <2>2 DEF Range
<1>4. TypeOK
  <2>1. /\ procesos \subseteq PIDs
        /\ pagina \in [Claves -> Paginas \cup {Nada}]
        /\ marco \in [Marcos -> Claves \cup {Nada}]
        /\ marcosLlenos \subseteq Marcos
        /\ archivos \in [Rutas -> Datos \cup {Nada}]
        /\ solicitud \in [Hilos -> Solicitudes \cup {Nada}]
        /\ enCurso \in Operaciones \cup {Nada}
        /\ respuesta \in Respuestas \cup {Nada}
        /\ caida \in BOOLEAN
    BY DEF Init
  <2>2. segmentos \in [PIDs -> Seq(Segmentos)] /\ paginasEnMemoria \in Seq(Claves \cup {Nada})
    BY DEF Init
  <2>3. cantidadSwap \in Int /\ memoriaDisponible \in Int /\ contadorLRU \in Nat
    BY Constantes DEF Init
  <2> QED
    BY <1>1, <2>1, <2>2, <2>3 DEF TypeOK
<1>5. SIDsCrecientes /\ PaginasDeSegmentos /\ OperacionEnCurso
  <2>1. \A p \in PIDs : DOMAIN segmentos[p] = {}
    BY DEF Init
  <2>2. \A k \in Claves : k[1] \in PIDs /\ ~Existe(k)
    BY DEF Init, Existe, Claves
  <2>3. \A k \in Claves : ~DeUnSegmento(k)
    BY <2>1, <2>2 DEF DeUnSegmento
  <2>4. OperacionEnCurso
    BY DEF Init, OperacionEnCurso
  <2> QED
    BY <2>1, <2>2, <2>3, <2>4 DEF SIDsCrecientes, PaginasDeSegmentos
<1>6. Range(paginasEnMemoria) = {} /\ Posiciones = {}
  BY DEF Init, Range, Posiciones
<1>7. Marcacion
  BY <1>2, <1>3, <1>6 DEF Init, Marcacion, MarcosParticionados, MarcoYPagina,
                    ListadasResidentes, Existe
<1> QED
  BY <1>4, <1>5, <1>7 DEF IInv

-------------------------------------------------------------------------------
\* NumPaginas yields a number of pages.
LEMMA NumPaginasNat == \A t \in Nat : NumPaginas(t) \in Nat
  BY Constantes, DivisionHaciaArriba DEF NumPaginas

\* What the request r of n bytes names is a page that exists, unless its
\* segment is being destroyed.
LEMMA DentroExiste ==
  ASSUME TypeOK, PaginasDeSegmentos, NEW r, NEW n \in Nat,
         r.pid \in PIDs, r.sid \in SIDs, r.pag \in Nat, r.desp \in Nat,
         DentroDelSegmento(r, n),
         ~YaDestruida(<<r.pid, r.sid, r.pag>>)
  PROVE  <<r.pid, r.sid, r.pag>> \in Claves /\ pagina[<<r.pid, r.sid, r.pag>>] \in Paginas
<1> DEFINE k == <<r.pid, r.sid, r.pag>>
<1>1. PICK i \in DOMAIN segmentos[r.pid] :
        /\ segmentos[r.pid][i].sid = r.sid
        /\ r.pag < NumPaginas(segmentos[r.pid][i].tamanio)
  BY DEF DentroDelSegmento
<1>2. segmentos[r.pid][i] \in Segmentos
  BY DEF TypeOK
<1>3. r.pag \in 0 .. MaxPag - 1
  <2> DEFINE t == segmentos[r.pid][i].tamanio
  <2>1. t \in Nat /\ NumPaginas(t) <= MaxPag
    BY <1>2 DEF Segmentos
  <2>2. NumPaginas(t) \in Nat
    BY <2>1, NumPaginasNat
  <2>3. r.pag < NumPaginas(t)
    BY <1>1
  <2> HIDE DEF t
  <2> QED
    BY <2>1, <2>2, <2>3, Constantes
<1>4. k \in Claves
  BY <1>3 DEF Claves
<1>5. DeUnSegmento(k)
  BY <1>1 DEF DeUnSegmento
<1>6. Existe(k)
  BY <1>4, <1>5 DEF PaginasDeSegmentos
<1> QED
  BY <1>4, <1>6 DEF Existe, TypeOK

\* The access in progress has reached a page that exists.
LEMMA ActualExiste ==
  ASSUME TypeOK, PaginasDeSegmentos, OperacionEnCurso,
         enCurso # Nada, enCurso.paso # "destruir"
  PROVE  /\ enCurso \in Operaciones /\ enCurso.op # "destruir"
         /\ Actual \in Claves /\ pagina[Actual] \in Paginas
         /\ DentroDelSegmento(enCurso, enCurso.resta)
<1>1. /\ enCurso \in Operaciones /\ enCurso.op # "destruir"
      /\ DentroDelSegmento(enCurso, enCurso.resta)
  BY DEF TypeOK, OperacionEnCurso
<1>2. /\ enCurso.pid \in PIDs /\ enCurso.sid \in SIDs
      /\ enCurso.pag \in Nat /\ enCurso.desp \in Nat /\ enCurso.resta \in Nat
  BY <1>1, Constantes DEF Operaciones
<1>3. ~YaDestruida(<<enCurso.pid, enCurso.sid, enCurso.pag>>)
  BY <1>1 DEF YaDestruida
<1> QED
  BY <1>1, <1>2, <1>3, DentroExiste DEF Actual

-------------------------------------------------------------------------------
\* A step that assigns no frame and takes none away keeps what holds of them;
\* the pages it creates have none, and a frame may leave marcosLlenos if a swap
\* file may fail to be created.
MismosMarcos ==
  /\ UNCHANGED <<marco, marcosVacios, paginasEnMemoria>>
  /\ marcosLlenos' \subseteq marcosLlenos
  /\ ~DiscoFalla => marcosLlenos' = marcosLlenos
  /\ \A k \in Claves :
       /\ pagina[k] # Nada =>
            /\ pagina'[k] # Nada
            /\ pagina'[k].marcoID = pagina[k].marcoID
            /\ pagina[k].marcoID # SinMarco => pagina'[k].swapped = pagina[k].swapped
       /\ pagina[k] = Nada /\ pagina'[k] # Nada => pagina'[k].marcoID = SinMarco

\* Such a step preserves what holds of frames and lists.
LEMMA MarcacionMismosMarcos ==
  ASSUME TypeOK, Marcacion, MismosMarcos
  PROVE  Marcacion'
<1>1. MarcosParticionados'
  BY DEF MismosMarcos, Marcacion, MarcosParticionados
<1>2. \A m \in marcosLlenos' : Existe(marco[m])' /\ pagina'[marco[m]].marcoID = m
                               /\ marco[m] \in Range(paginasEnMemoria)
  BY DEF MismosMarcos, Marcacion, MarcoYPagina, Existe
<1>3. \A k \in Claves : pagina'[k] # Nada /\ pagina'[k].marcoID # SinMarco =>
        /\ pagina[k] # Nada /\ pagina'[k].marcoID = pagina[k].marcoID
        /\ pagina'[k].swapped = pagina[k].swapped
  BY DEF MismosMarcos
<1>4. MarcoYPagina'
  BY <1>2, <1>3 DEF MismosMarcos, Marcacion, MarcoYPagina, Existe
<1>5. ListadasResidentes'
  BY DEF MismosMarcos, Marcacion, ListadasResidentes, Posiciones, Existe
<1> QED
  BY <1>1, <1>4, <1>5 DEF Marcacion

\* A step that neither creates nor destroys pages or segments.
MismosSegmentos ==
  /\ UNCHANGED segmentos
  /\ \A k \in Claves : /\ pagina'[k] = Nada <=> pagina[k] = Nada
                       /\ YaDestruida(k)' <=> YaDestruida(k)

\* Such a step preserves what holds of segments.
LEMMA SegmentosMismosSegmentos ==
  ASSUME SIDsCrecientes, PaginasDeSegmentos, MismosSegmentos
  PROVE  SIDsCrecientes' /\ PaginasDeSegmentos'
<1>1. SIDsCrecientes'
  BY DEF MismosSegmentos, SIDsCrecientes
<1>2. \A k \in Claves : (DeUnSegmento(k)' <=> DeUnSegmento(k)) /\ (Existe(k)' <=> Existe(k))
  BY DEF MismosSegmentos, DeUnSegmento, Existe
<1> QED
  BY <1>1, <1>2 DEF MismosSegmentos, PaginasDeSegmentos

\* A step that changes no page, frame or list, and that ends the access in
\* progress or leaves it alone.
LEMMA SinCambios ==
  ASSUME IInv, TypeOK',
         UNCHANGED <<segmentos, pagina, marco, marcosVacios, marcosLlenos, paginasEnMemoria>>,
         enCurso' = enCurso \/ (enCurso' = Nada /\ enCurso.op # "destruir")
  PROVE  IInv'
<1>1. MismosMarcos
  BY DEF MismosMarcos, IInv, Marcacion
<1>2. MismosSegmentos
  BY DEF MismosSegmentos, YaDestruida
<1>3. OperacionEnCurso'
  BY DEF IInv, OperacionEnCurso, DentroDelSegmento, Actual
<1> QED
  BY <1>1, <1>2, <1>3, MarcacionMismosMarcos, SegmentosMismosSegmentos DEF IInv

-------------------------------------------------------------------------------
\* crearSegmento.
LEMMA AdmitirSegmentoIInv ==
  ASSUME IInv, NEW h \in Hilos, AdmitirSegmento(h)
  PROVE  IInv'
<1>1. solicitud' \in [Hilos -> Solicitudes \cup {Nada}] /\ respuesta' \in Respuestas \cup {Nada}
  <2>1. PICK pid \in PIDs, tamanio \in Tamanios :
          \/ /\ Admisible(tamanio)
             /\ solicitud' = [solicitud EXCEPT ![h] = [pid |-> pid, tamanio |-> tamanio]]
             /\ UNCHANGED respuesta
          \/ /\ Responder(h, "crear", error_memoria_llena, <<>>)
             /\ UNCHANGED solicitud
    BY DEF AdmitirSegmento
  <2>2. CASE Admisible(tamanio) /\ UNCHANGED respuesta
             /\ solicitud' = [solicitud EXCEPT ![h] = [pid |-> pid, tamanio |-> tamanio]]
    <3>1. [pid |-> pid, tamanio |-> tamanio] \in Solicitudes
      BY <2>2 DEF Admisible, Solicitudes
    <3> QED
      BY <2>2, <3>1 DEF IInv, TypeOK
  <2>3. CASE Responder(h, "crear", error_memoria_llena, <<>>) /\ UNCHANGED solicitud
    BY <2>3 DEF Responder, Respuestas, error_memoria_llena, IInv, TypeOK
  <2> QED
    BY <2>1, <2>2, <2>3
<1>2. UNCHANGED <<tablas, pagina, listas, archivos, cantidadSwap,
                  memoriaDisponible, contadorLRU, enCurso, caida>>
  BY DEF AdmitirSegmento
<1>3. TypeOK'
  BY <1>1, <1>2 DEF IInv, TypeOK, tablas, listas
<1> QED
  BY <1>2, <1>3, SinCambios DEF tablas, listas

\* A new page is a page.
LEMMA PaginaVaciaTipo == PaginaVacia \in Paginas
<1>1. [i \in 0 .. TamPag - 1 |-> 0] \in Datos
  BY Constantes DEF Datos
<1> QED
  BY <1>1 DEF PaginaVacia, Paginas

\* crearSegmento adds a segment and its pages: none of their keys was taken, since the
\* SID is above those of the live segments.
LEMMA AgregarSegmentoIInv ==
  ASSUME IInv, NEW h \in Hilos, AgregarSegmento(h)
  PROVE  IInv'
<1> DEFINE pid == solicitud[h].pid
           tamanio == solicitud[h].tamanio
           sid == calcularProximoSID(pid)
           nuevo == [sid |-> sid, tamanio |-> tamanio]
           n == Len(segmentos[pid])
<1>1. /\ pid \in PIDs /\ tamanio \in Nat /\ NumPaginas(tamanio) <= MaxPag
      /\ segmentos[pid] \in Seq(Segmentos)
  <2>1. solicitud[h] \in Solicitudes
    BY DEF AgregarSegmento, IInv, TypeOK
  <2>2. pid \in PIDs /\ tamanio \in Tamanios /\ tamanio <= MaxSegmento
    BY <2>1 DEF Solicitudes
  <2>3. segmentos[pid] \in Seq(Segmentos)
    BY <2>2 DEF IInv, TypeOK
  <2> QED
    BY <2>2, <2>3, Constantes
<1>2. /\ enCurso = Nada /\ enCurso' = Nada
      /\ sid \in SIDs
      /\ procesos' = procesos \cup {pid}
      /\ segmentos' = [segmentos EXCEPT ![pid] = Append(@, nuevo)]
      /\ pagina' = [k \in Claves |->
                      IF k[1] = pid /\ k[2] = sid /\ k[3] < NumPaginas(tamanio)
                      THEN PaginaVacia ELSE pagina[k]]
      /\ memoriaDisponible' = memoriaDisponible - tamanio
      /\ Responder(h, "crear", sid, <<>>)
      /\ solicitud' = [solicitud EXCEPT ![h] = Nada]
      /\ UNCHANGED <<listas, archivos, cantidadSwap, contadorLRU, caida>>
  BY DEF AgregarSegmento, crearPaginasPorTamanioSegmento
<1>3. nuevo \in Segmentos
  BY <1>1, <1>2 DEF Segmentos
<1>4. /\ Append(segmentos[pid], nuevo) \in Seq(Segmentos)
      /\ DOMAIN Append(segmentos[pid], nuevo) = (1 .. n) \cup {n + 1}
      /\ \A i \in 1 .. n : Append(segmentos[pid], nuevo)[i] = segmentos[pid][i]
      /\ Append(segmentos[pid], nuevo)[n + 1] = nuevo
      /\ DOMAIN segmentos[pid] = 1 .. n /\ n \in Nat
  BY SMTT(30), <1>1, <1>3
<1>5. /\ segmentos'[pid] = Append(segmentos[pid], nuevo)
      /\ \A p \in PIDs : p # pid => segmentos'[p] = segmentos[p]
  BY <1>1, <1>2 DEF IInv, TypeOK
<1>4a. \A i \in 1 .. n : segmentos[pid][i].sid \in Int
  <2>1. \A i \in 1 .. n : segmentos[pid][i] \in Segmentos
    BY <1>1, <1>4
  <2> QED
    BY <2>1, Constantes DEF Segmentos, SIDs
<1> HIDE DEF pid, tamanio, nuevo, n
<1>6. TypeOK'
  <2>1. segmentos' \in [PIDs -> Seq(Segmentos)]
    BY <1>1, <1>2, <1>4 DEF IInv, TypeOK
  <2>2. PaginaVacia \in Paginas
    BY PaginaVaciaTipo
  <2>3. pagina' \in [Claves -> Paginas \cup {Nada}]
    BY <1>2, <2>2 DEF IInv, TypeOK
  <2>4. sid \in Int
    BY <1>2, Constantes DEF SIDs
  <2>5. respuesta' \in Respuestas
    BY <1>2, <2>4 DEF Responder, Respuestas
  <2>6. procesos' \subseteq PIDs /\ memoriaDisponible' \in Int /\ enCurso' = Nada
        /\ solicitud' \in [Hilos -> Solicitudes \cup {Nada}]
    BY <1>1, <1>2 DEF IInv, TypeOK
  <2> QED
    BY <1>2, <2>1, <2>3, <2>5, <2>6 DEF IInv, TypeOK, listas
\* The new SID is greater than those of the process's other segments.
<1>7. \A i \in 1 .. n : segmentos[pid][i].sid < sid
  <2>1. CASE n = 0
    BY <2>1
  <2>2. CASE n # 0
    <3>1. n \in 1 .. n /\ segmentos[pid] # <<>>
      BY <1>1, <1>4, <2>2 DEF n
    <3>2. sid = segmentos[pid][n].sid + 1
      BY <3>1 DEF calcularProximoSID, n
    <3>3. \A i \in 1 .. n : i < n => segmentos[pid][i].sid < segmentos[pid][n].sid
      BY <1>1, <1>4, <3>1 DEF IInv, SIDsCrecientes
    <3> QED
      BY <1>4, <1>4a, <3>1, <3>2, <3>3
  <2> QED
    BY <2>1, <2>2
<1>8. SIDsCrecientes'
  <2> SUFFICES ASSUME NEW p \in PIDs, NEW i \in DOMAIN segmentos'[p],
                      NEW j \in DOMAIN segmentos'[p], i < j
               PROVE  segmentos'[p][i].sid < segmentos'[p][j].sid
    BY DEF SIDsCrecientes
  <2>1. CASE p # pid
    BY <1>5, <2>1 DEF IInv, SIDsCrecientes
  <2>2. CASE p = pid /\ j \in 1 .. n
    <3>1. i \in 1 .. n
      BY <1>4, <1>5, <2>2
    <3> QED
      BY SMTT(30), <1>4, <1>5, <2>2, <3>1, <1>1 DEF IInv, SIDsCrecientes
  <2>3. CASE p = pid /\ j = n + 1
    <3>1. i \in 1 .. n /\ segmentos'[p][j] = nuevo
      BY <1>4, <1>5, <2>3
    <3> QED
      BY SMTT(30), <1>4, <1>5, <1>7, <2>3, <3>1 DEF nuevo
  <2> QED
    BY <1>4, <1>5, <2>1, <2>2, <2>3
<1>9. ASSUME NEW k \in Claves
      PROVE  /\ k[1] = pid /\ k[2] = sid => ~Existe(k)
             /\ DeUnSegmento(k)' <=>
                  \/ DeUnSegmento(k)
                  \/ k[1] = pid /\ k[2] = sid /\ k[3] < NumPaginas(tamanio)
  <2>1. k[1] \in PIDs
    BY DEF Claves
  <2>2. CASE k[1] # pid
    BY <1>5, <2>1, <2>2 DEF DeUnSegmento
  <2>3. CASE k[1] = pid
    <3>1. DeUnSegmento(k) <=> \E i \in 1 .. n :
            /\ segmentos[pid][i].sid = k[2]
            /\ k[3] < NumPaginas(segmentos[pid][i].tamanio)
      BY <1>4, <2>3 DEF DeUnSegmento
    <3>2. DeUnSegmento(k)' <=>
            \/ DeUnSegmento(k)
            \/ sid = k[2] /\ k[3] < NumPaginas(tamanio)
      <4>1. DeUnSegmento(k)' <=> \E i \in (1 .. n) \cup {n + 1} :
              /\ Append(segmentos[pid], nuevo)[i].sid = k[2]
              /\ k[3] < NumPaginas(Append(segmentos[pid], nuevo)[i].tamanio)
        BY <1>4, <1>5, <2>3 DEF DeUnSegmento
      <4>2. nuevo.sid = sid /\ nuevo.tamanio = tamanio
        BY DEF nuevo
      <4> QED
        BY <1>4, <3>1, <4>1, <4>2
    <3>3. k[2] = sid => ~DeUnSegmento(k)
      BY <1>2, <1>7, <1>4a, <3>1, Constantes DEF SIDs
    <3> QED
      BY <2>3, <3>2, <3>3 DEF IInv, PaginasDeSegmentos
  <2> QED
    BY <2>2, <2>3
<1>10. PaginasDeSegmentos'
  <2> SUFFICES ASSUME NEW k \in Claves
               PROVE  Existe(k)' <=> DeUnSegmento(k)' /\ ~YaDestruida(k)'
    BY DEF PaginasDeSegmentos
  <2>1. ~YaDestruida(k)' /\ ~YaDestruida(k)
    BY <1>2 DEF YaDestruida
  <2>2. PaginaVacia # Nada
    BY NadaEsOtro, PaginaVaciaTipo
  <2>3. Existe(k)' <=> \/ Existe(k)
                       \/ k[1] = pid /\ k[2] = sid /\ k[3] < NumPaginas(tamanio)
    BY <1>2, <2>2 DEF Existe
  <2> QED
    BY <1>9, <2>1, <2>3 DEF IInv, PaginasDeSegmentos
<1>11. Marcacion'
  <2>1. \A k \in Claves :
          /\ pagina[k] # Nada => pagina'[k] = pagina[k]
          /\ pagina[k] = Nada /\ pagina'[k] # Nada => pagina'[k].marcoID = SinMarco
    BY <1>2, <1>9 DEF Existe, PaginaVacia
  <2>2. MismosMarcos
    BY <1>2, <2>1 DEF MismosMarcos, listas
  <2> QED
    BY <2>2, MarcacionMismosMarcos DEF IInv
<1>12. OperacionEnCurso'
  BY <1>2 DEF OperacionEnCurso
<1> QED
  BY <1>6, <1>8, <1>10, <1>11, <1>12 DEF IInv

-------------------------------------------------------------------------------
\* solicitarMemoria, escribirMemoria and destruirSegmento: the request.
LEMMA AccederIInv ==
  ASSUME IInv, NEW h \in Hilos, NEW op \in {"solicitar", "escribir"}, NEW r,
         NEW n \in Nat, NEW bytes \in Seq(Bytes),
         r.pid \in PIDs, r.sid \in SIDs, r.pag \in 0 .. MaxPag - 1,
         r.desp \in 0 .. TamPag - 1, op = "escribir" => Len(bytes) = n,
         Acceder(h, op, r, n, bytes)
  PROVE  IInv'
<1>1. UNCHANGED <<tablas, pagina, listas, archivos, cantidadSwap, memoriaDisponible,
                  contadorLRU, solicitud, caida>> /\ enCurso = Nada
  BY DEF Acceder
<1>2. CASE \E codigo \in {error_general, error_segmentation_fault} :
             Responder(h, op, codigo, <<>>) /\ UNCHANGED enCurso
  <2>1. respuesta' \in Respuestas
    BY <1>2 DEF Responder, Respuestas, error_general, error_segmentation_fault
  <2>2. TypeOK'
    BY <1>1, <1>2, <2>1 DEF IInv, TypeOK, tablas, listas
  <2> QED
    BY <1>1, <1>2, <2>2, SinCambios DEF tablas, listas
<1>3. CASE /\ DentroDelSegmento(r, n)
           /\ enCurso' = [hilo |-> h, op |-> op, pid |-> r.pid, sid |-> r.sid,
                          pag |-> r.pag, desp |-> r.desp, resta |-> n, bytes |-> bytes,
                          paso |-> PrimerPaso(<<r.pid, r.sid, r.pag>>)]
           /\ UNCHANGED respuesta
  <2>1. PrimerPaso(<<r.pid, r.sid, r.pag>>) \in {"swapin", "marco", "copia"}
    BY DEF PrimerPaso
  <2>2. enCurso' \in Operaciones
    BY <1>3, <2>1, Constantes DEF Operaciones
  <2>3. TypeOK'
    BY <1>1, <1>3, <2>2 DEF IInv, TypeOK, tablas, listas
  <2>4. MismosMarcos
    BY <1>1 DEF MismosMarcos, listas
  <2>5. MismosSegmentos
    BY <1>1, <1>3 DEF MismosSegmentos, YaDestruida, tablas
  <2>6. OperacionEnCurso'
    <3>1. /\ enCurso'.op = op /\ enCurso'.resta = n /\ enCurso'.bytes = bytes
          /\ enCurso'.pid = r.pid /\ enCurso'.sid = r.sid /\ enCurso'.pag = r.pag
          /\ enCurso'.desp = r.desp /\ enCurso'.paso = PrimerPaso(<<r.pid, r.sid, r.pag>>)
          /\ segmentos' = segmentos /\ pagina' = pagina
      BY <1>1, <1>3 DEF tablas
    <3>2. DentroDelSegmento(enCurso, enCurso.resta)'
      BY <1>3, <3>1 DEF DentroDelSegmento
    <3>3. Actual' = <<r.pid, r.sid, r.pag>>
      BY <3>1 DEF Actual
    <3>4. /\ enCurso'.paso = "swapin" => pagina'[Actual'].marcoID = SinMarco
          /\ enCurso'.paso = "marco" => /\ pagina'[Actual'].marcoID = SinMarco
                                        /\ ~pagina'[Actual'].swapped
          /\ enCurso'.paso = "copia" => pagina'[Actual'].marcoID # SinMarco
      BY <3>1, <3>3 DEF PrimerPaso
    <3> QED
      BY <2>1, <3>1, <3>2, <3>4 DEF OperacionEnCurso
  <2> QED
    BY <2>3, <2>4, <2>5, <2>6, MarcacionMismosMarcos, SegmentosMismosSegmentos DEF IInv
<1> QED
  BY <1>2, <1>3 DEF Acceder

\* solicitarMemoria.
LEMMA SolicitarMemoriaIInv ==
  ASSUME IInv, NEW h \in Hilos, SolicitarMemoria(h)
  PROVE  IInv'
<1>1. PICK r \in Lecturas : Acceder(h, "solicitar", r, r.tamanio, <<>>)
  BY DEF SolicitarMemoria
<1>2. /\ r.pid \in PIDs /\ r.sid \in SIDs /\ r.pag \in 0 .. MaxPag - 1
      /\ r.desp \in 0 .. TamPag - 1 /\ r.tamanio \in Nat
  BY Constantes
<1>3. <<>> \in Seq(Bytes) /\ "solicitar" # "escribir"
  OBVIOUS
<1>4. "solicitar" \in {"solicitar", "escribir"}
  OBVIOUS
<1> QED
  BY <1>1, <1>2, <1>3, <1>4, AccederIInv

\* escribirMemoria.
LEMMA EscribirMemoriaIInv ==
  ASSUME IInv, NEW h \in Hilos, EscribirMemoria(h)
  PROVE  IInv'
<1>1. PICK r \in Escrituras : Acceder(h, "escribir", r, Len(r.bytes), r.bytes)
  BY DEF EscribirMemoria
<1>2. /\ r.pid \in PIDs /\ r.sid \in SIDs /\ r.pag \in 0 .. MaxPag - 1
      /\ r.desp \in 0 .. TamPag - 1 /\ r.bytes \in Seq(Bytes)
  BY Constantes
<1>3. Len(r.bytes) \in Nat
  BY <1>2
<1> QED
  BY <1>1, <1>2, <1>3, AccederIInv

\* destruirSegmento takes the mutex.
LEMMA DestruirSegmentoIInv ==
  ASSUME IInv, NEW h \in Hilos, DestruirSegmento(h)
  PROVE  IInv'
<1>1. UNCHANGED <<tablas, pagina, listas, archivos, cantidadSwap, memoriaDisponible,
                  contadorLRU, solicitud, respuesta, caida>> /\ enCurso = Nada
  BY DEF DestruirSegmento
<1>2. PICK pid \in procesos, sid \in SIDs :
        enCurso' = [hilo |-> h, op |-> "destruir", paso |-> "destruir", pid |-> pid,
                    sid |-> sid, pag |-> 0, desp |-> 0, resta |-> 0, bytes |-> <<>>]
  BY DEF DestruirSegmento
<1>3. enCurso' \in Operaciones
  <2>1. pid \in PIDs /\ 0 \in 0 .. MaxPag /\ 0 \in 0 .. TamPag - 1
    BY Constantes DEF IInv, TypeOK
  <2> QED
    BY <1>2, <2>1 DEF Operaciones
<1>4. TypeOK'
  BY <1>1, <1>3 DEF IInv, TypeOK, tablas, listas
<1>5. MismosMarcos
  BY <1>1 DEF MismosMarcos, listas
<1>6. MismosSegmentos
  <2>1. \A k \in Claves : k[3] \in Nat
    BY Constantes DEF Claves
  <2> QED
    BY <1>1, <1>2, <2>1 DEF MismosSegmentos, YaDestruida, tablas
<1>7. OperacionEnCurso'
  <2>1. enCurso'.op = "destruir" /\ enCurso'.paso = "destruir"
    BY <1>2
  <2> QED
    BY <2>1 DEF OperacionEnCurso
<1> QED
  BY <1>4, <1>5, <1>6, <1>7, MarcacionMismosMarcos, SegmentosMismosSegmentos DEF IInv

-------------------------------------------------------------------------------
\* The steps of an access that fail.
LEMMA FracasarTipo ==
  ASSUME IInv, enCurso # Nada, enCurso.paso # "destruir", NEW codigo \in Int, Fracasar(codigo)
  PROVE  /\ respuesta' \in Respuestas /\ enCurso' = Nada
         /\ enCurso \in Operaciones /\ enCurso.op # "destruir"
<1>1. enCurso \in Operaciones /\ enCurso.op # "destruir"
  BY DEF IInv, TypeOK, OperacionEnCurso
<1>2. enCurso.op \in {"solicitar", "escribir"} /\ enCurso.hilo \in Hilos
  BY <1>1 DEF Operaciones
<1>3. respuesta' \in Respuestas
  BY <1>2 DEF Fracasar, Responder, Respuestas, error_memoria_llena
<1> QED
  BY <1>1, <1>3 DEF Fracasar

\* The swap file is not there.
LEMMA SwapInFallaIInv ==
  ASSUME IInv, SwapInFalla
  PROVE  IInv'
<1>1. /\ respuesta' \in Respuestas /\ enCurso' = Nada
      /\ enCurso \in Operaciones /\ enCurso.op # "destruir"
  BY FracasarTipo DEF SwapInFalla, En, error_general
<1>2. TypeOK'
  BY <1>1 DEF SwapInFalla, IInv, TypeOK, tablas, listas
<1> QED
  BY <1>1, <1>2, SinCambios DEF SwapInFalla, tablas, listas

\* There is neither a free frame nor swap space.
LEMMA MemoriaLlenaIInv ==
  ASSUME IInv, MemoriaLlena
  PROVE  IInv'
<1>1. /\ respuesta' \in Respuestas /\ enCurso' = Nada
      /\ enCurso \in Operaciones /\ enCurso.op # "destruir"
  BY FracasarTipo DEF MemoriaLlena, En, error_memoria_llena
<1>2. TypeOK'
  BY <1>1 DEF MemoriaLlena, IInv, TypeOK, tablas, listas
<1> QED
  BY <1>1, <1>2, SinCambios DEF MemoriaLlena, tablas, listas

\* The search for a victim takes the server down.
LEMMA SinVictimaIInv ==
  ASSUME IInv, SinVictima
  PROVE  IInv'
<1>1. TypeOK'
  BY DEF SinVictima, IInv, TypeOK, tablas, listas
<1> QED
  BY <1>1, SinCambios DEF SinVictima, tablas, listas

-------------------------------------------------------------------------------
\* The access goes on with another step on the same page.
LEMMA CambiarPaso ==
  ASSUME IInv, enCurso \in Operaciones, enCurso.op # "destruir",
         DentroDelSegmento(enCurso, enCurso.resta),
         NEW paso \in {"marco", "copia"},
         enCurso' = [enCurso EXCEPT !.paso = paso], UNCHANGED segmentos
  PROVE  /\ enCurso' \in Operaciones /\ Actual' = Actual
         /\ enCurso'.op = enCurso.op /\ enCurso'.paso = paso
         /\ \A k \in Claves : ~YaDestruida(k)' /\ ~YaDestruida(k)
         /\ /\ paso = "marco"
            /\ pagina'[Actual].marcoID = SinMarco /\ ~pagina'[Actual].swapped
            => OperacionEnCurso'
         /\ paso = "copia" /\ pagina'[Actual].marcoID # SinMarco => OperacionEnCurso'
<1>1. /\ enCurso'.op = enCurso.op /\ enCurso'.resta = enCurso.resta
      /\ enCurso'.bytes = enCurso.bytes /\ enCurso'.pid = enCurso.pid
      /\ enCurso'.sid = enCurso.sid /\ enCurso'.pag = enCurso.pag
      /\ enCurso'.desp = enCurso.desp /\ enCurso'.paso = paso
      /\ enCurso' \in Operaciones
  BY DEF Operaciones
<1>2. DentroDelSegmento(enCurso, enCurso.resta)'
  BY <1>1 DEF DentroDelSegmento
<1>3. Actual' = Actual
  BY <1>1 DEF Actual
<1>4. enCurso.op = "escribir" => Len(enCurso.bytes) = enCurso.resta
  BY NadaEsOtro DEF IInv, OperacionEnCurso
<1>5. \A k \in Claves : ~YaDestruida(k)' /\ ~YaDestruida(k)
  BY <1>1 DEF YaDestruida
<1> QED
  BY <1>1, <1>2, <1>3, <1>4, <1>5 DEF OperacionEnCurso

\* swapInPagina.
LEMMA SwapInIInv ==
  ASSUME IInv, SwapIn
  PROVE  IInv'
<1>1. /\ enCurso # Nada /\ enCurso.paso = "swapin"
      /\ archivos[obtenerFilePath(Actual)] # Nada
      /\ pagina' = [pagina EXCEPT
           ![Actual].data = HastaNul(archivos[obtenerFilePath(Actual)], @),
           ![Actual].swapped = FALSE]
      /\ archivos' = [archivos EXCEPT ![obtenerFilePath(Actual)] = Nada]
      /\ cantidadSwap' = cantidadSwap + TamPag
      /\ enCurso' = [enCurso EXCEPT !.paso = "marco"]
      /\ UNCHANGED <<tablas, listas, memoriaDisponible, contadorLRU, solicitud,
                     respuesta, caida>>
  BY DEF SwapIn, En
<1>2. /\ enCurso \in Operaciones /\ enCurso.op # "destruir"
      /\ Actual \in Claves /\ pagina[Actual] \in Paginas
      /\ DentroDelSegmento(enCurso, enCurso.resta)
  BY <1>1, ActualExiste DEF IInv
<1>3. HastaNul(archivos[obtenerFilePath(Actual)], pagina[Actual].data) \in Datos
  <2>1. archivos[obtenerFilePath(Actual)] \in Datos
    BY <1>1, <1>2 DEF IInv, TypeOK, Rutas
  <2>2. pagina[Actual].data \in Datos
    BY <1>2 DEF Paginas
  <2> QED
    BY <2>1, <2>2 DEF HastaNul, Datos
<1>4. \A k \in Claves : pagina'[k] = IF k = Actual
        THEN [pagina[k] EXCEPT !.data = HastaNul(archivos[obtenerFilePath(Actual)], @),
                               !.swapped = FALSE]
        ELSE pagina[k]
  BY <1>1, <1>2 DEF IInv, TypeOK
<1>5. /\ pagina'[Actual] \in Paginas
      /\ pagina'[Actual].marcoID = pagina[Actual].marcoID
      /\ pagina'[Actual].swapped = FALSE
  <2>1. pagina'[Actual] =
          [pagina[Actual] EXCEPT !.data = HastaNul(archivos[obtenerFilePath(Actual)], @),
                                 !.swapped = FALSE]
    BY <1>2, <1>4
  <2> QED
    BY <1>2, <1>3, <2>1 DEF Paginas
<1>6. \A k \in Claves : k # Actual => pagina'[k] = pagina[k]
  BY <1>4
<1>7. /\ enCurso' \in Operaciones
      /\ \A k \in Claves : ~YaDestruida(k)' /\ ~YaDestruida(k)
      /\ /\ pagina'[Actual].marcoID = SinMarco
         /\ ~pagina'[Actual].swapped
         => OperacionEnCurso'
  BY <1>1, <1>2, CambiarPaso DEF tablas
<1>8. TypeOK'
  <2>1. pagina' \in [Claves -> Paginas \cup {Nada}]
    <3>1. \A k \in Claves : pagina'[k] \in Paginas \cup {Nada}
      BY <1>5, <1>6 DEF IInv, TypeOK
    <3>2. pagina' = [k \in Claves |-> pagina'[k]]
      BY <1>1 DEF IInv, TypeOK
    <3> QED
      BY <3>1, <3>2
  <2>2. archivos' \in [Rutas -> Datos \cup {Nada}]
    BY <1>1 DEF IInv, TypeOK
  <2>3. cantidadSwap' \in Int
    BY <1>1, Constantes DEF IInv, TypeOK
  <2> QED
    BY <1>1, <1>7, <2>1, <2>2, <2>3 DEF IInv, TypeOK, tablas, listas
<1>9. pagina[Actual] # Nada /\ pagina'[Actual] # Nada /\ pagina[Actual].marcoID = SinMarco
  BY <1>1, <1>2, <1>5, NadaEsOtro DEF IInv, OperacionEnCurso
<1>10. MismosMarcos
  BY <1>1, <1>5, <1>6, <1>9 DEF MismosMarcos, listas
<1>11. MismosSegmentos
  BY <1>1, <1>6, <1>7, <1>9 DEF MismosSegmentos, tablas
<1>12. OperacionEnCurso'
  BY <1>5, <1>7, <1>9
<1> QED
  BY <1>8, <1>10, <1>11, <1>12, MarcacionMismosMarcos, SegmentosMismosSegmentos DEF IInv

-------------------------------------------------------------------------------
\* The search for a victim changes nothing but reference bits.
LEMMA RepasarPaginas ==
  ASSUME IInv
  PROVE  /\ Repasar \in [Claves -> Paginas \cup {Nada}]
         /\ \A k \in Claves :
              /\ Repasar[k] = Nada <=> pagina[k] = Nada
              /\ pagina[k] # Nada => /\ Repasar[k] \in Paginas
                                     /\ Repasar[k].marcoID = pagina[k].marcoID
                                     /\ Repasar[k].swapped = pagina[k].swapped
<1> SUFFICES ASSUME NEW k \in Claves
             PROVE  /\ Repasar[k] = Nada <=> pagina[k] = Nada
                    /\ pagina[k] # Nada => /\ Repasar[k] \in Paginas
                                           /\ Repasar[k].marcoID = pagina[k].marcoID
                                           /\ Repasar[k].swapped = pagina[k].swapped
  BY DEF Repasar
<1>1. pagina[k] \in Paginas \cup {Nada} /\ Nada \notin Paginas
  BY NadaEsOtro DEF IInv, TypeOK
<1>2. CASE Repasada(k)
  <2>1. k \in Range(paginasEnMemoria)
    BY <1>2 DEF Repasada, Posiciones, Range
  <2>2. k # Nada
    BY NadaEsOtro
  <2>3. pagina[k] # Nada
    BY <2>1, <2>2 DEF IInv, Marcacion, ListadasResidentes, Existe
  <2>4. Repasar[k] = [pagina[k] EXCEPT !.bitReferencia = 0]
    BY <1>2 DEF Repasar
  <2>5. /\ Repasar[k] \in Paginas /\ Repasar[k].marcoID = pagina[k].marcoID
        /\ Repasar[k].swapped = pagina[k].swapped
    BY <1>1, <2>3, <2>4 DEF Paginas
  <2> QED
    BY <1>1, <2>3, <2>5
<1>3. CASE ~Repasada(k)
  <2>1. Repasar[k] = pagina[k]
    BY <1>3 DEF Repasar
  <2> QED
    BY <1>1, <2>1
<1> QED
  BY <1>2, <1>3

\* A swap file that cannot be created costs a frame, nothing else.
LEMMA SwapOutFallaIInv ==
  ASSUME IInv, NEW m \in Marcos, SwapOutFalla(m)
  PROVE  IInv'
<1>1. /\ DiscoFalla /\ enCurso # Nada /\ enCurso.paso = "marco"
      /\ marcosLlenos' = marcosLlenos \ {m} /\ pagina' = Repasar
      /\ Fracasar(error_general)
      /\ UNCHANGED <<tablas, marco, marcosVacios, paginasEnMemoria, archivos,
                     cantidadSwap, memoriaDisponible, contadorLRU, solicitud, caida>>
  BY DEF SwapOutFalla, BuscaVictima, En
<1>2. /\ respuesta' \in Respuestas /\ enCurso' = Nada
      /\ enCurso \in Operaciones /\ enCurso.op # "destruir"
  BY <1>1, FracasarTipo DEF error_general
<1>3. TypeOK'
  <2>1. pagina' \in [Claves -> Paginas \cup {Nada}]
    BY <1>1, RepasarPaginas
  <2> QED
    BY <1>1, <1>2, <2>1 DEF IInv, TypeOK, tablas
<1>4. MismosMarcos
  BY <1>1, RepasarPaginas DEF MismosMarcos
<1>5. MismosSegmentos
  BY <1>1, <1>2, RepasarPaginas DEF MismosSegmentos, YaDestruida, tablas
<1>6. OperacionEnCurso'
  BY <1>2 DEF OperacionEnCurso
<1> QED
  BY <1>3, <1>4, <1>5, <1>6, MarcacionMismosMarcos, SegmentosMismosSegmentos DEF IInv

-------------------------------------------------------------------------------
\* asignoMarcoAPagina.

\* A page without a frame is not listed as resident.
LEMMA SinMarcoNoListada ==
  ASSUME IInv, NEW k \in Claves, pagina[k].marcoID = SinMarco
  PROVE  k \notin Range(paginasEnMemoria)
<1>1. k # Nada
  BY NadaEsOtro
<1>2. SinMarco \notin Marcos
  BY Constantes DEF SinMarco, Marcos
<1> QED
  BY <1>1, <1>2 DEF IInv, Marcacion, ListadasResidentes

\* asignoMarcoAPagina takes a free frame.
LEMMA TomarMarcoVacioIInv ==
  ASSUME IInv, TomarMarcoVacio
  PROVE  IInv'
<1> DEFINE m == Head(marcosVacios)
<1>1. /\ enCurso # Nada /\ enCurso.paso = "marco" /\ marcosVacios # <<>>
      /\ pagina' = [pagina EXCEPT ![Actual].marcoID = m, ![Actual].bitReferencia = 1]
      /\ marco' = [marco EXCEPT ![m] = Actual]
      /\ marcosLlenos' = marcosLlenos \cup {m}
      /\ marcosVacios' = Tail(marcosVacios)
      /\ paginasEnMemoria' = Append(paginasEnMemoria, Actual)
      /\ enCurso' = [enCurso EXCEPT !.paso = "copia"]
      /\ UNCHANGED <<tablas, archivos, cantidadSwap, memoriaDisponible, contadorLRU,
                     solicitud, respuesta, caida>>
  BY DEF TomarMarcoVacio, En
<1>2. /\ enCurso \in Operaciones /\ enCurso.op # "destruir"
      /\ Actual \in Claves /\ pagina[Actual] \in Paginas
      /\ DentroDelSegmento(enCurso, enCurso.resta)
  BY <1>1, ActualExiste DEF IInv
<1>3. pagina[Actual].marcoID = SinMarco /\ ~pagina[Actual].swapped
  BY <1>1 DEF IInv, OperacionEnCurso
<1>4. /\ m \in Marcos /\ m \in Range(marcosVacios)
      /\ Tail(marcosVacios) \in Seq(Marcos) /\ IsInjective(Tail(marcosVacios))
      /\ Range(marcosVacios) = Range(Tail(marcosVacios)) \cup {m}
      /\ m \notin Range(Tail(marcosVacios))
  BY <1>1, RangoTail DEF IInv, TypeOK, Marcacion, MarcosParticionados
<1> HIDE DEF m
<1>5. m \notin marcosLlenos /\ m # SinMarco
  BY <1>4, Constantes DEF IInv, Marcacion, MarcosParticionados, Marcos, SinMarco
<1>6. /\ pagina'[Actual] \in Paginas /\ pagina'[Actual] # Nada
      /\ pagina'[Actual].marcoID = m /\ ~pagina'[Actual].swapped
  <2>1. pagina'[Actual] = [pagina[Actual] EXCEPT !.marcoID = m, !.bitReferencia = 1]
    BY <1>1, <1>2 DEF IInv, TypeOK
  <2>2. /\ pagina'[Actual] \in Paginas
        /\ pagina'[Actual].marcoID = m /\ ~pagina'[Actual].swapped
    BY <1>2, <1>3, <1>4, <2>1 DEF Paginas
  <2> QED
    BY <2>2, NadaEsOtro
<1>7. \A k \in Claves : k # Actual => pagina'[k] = pagina[k]
  BY <1>1, <1>2 DEF IInv, TypeOK
<1>8. /\ enCurso' \in Operaciones
      /\ \A k \in Claves : ~YaDestruida(k)' /\ ~YaDestruida(k)
      /\ pagina'[Actual].marcoID # SinMarco => OperacionEnCurso'
  BY <1>1, <1>2, CambiarPaso DEF tablas
<1>9. TypeOK'
  <2>1. pagina' \in [Claves -> Paginas \cup {Nada}]
    <3>1. \A k \in Claves : pagina'[k] \in Paginas \cup {Nada}
      BY <1>6, <1>7 DEF IInv, TypeOK
    <3>2. pagina' = [k \in Claves |-> pagina'[k]]
      BY <1>1 DEF IInv, TypeOK
    <3> QED
      BY <3>1, <3>2
  <2>2. marco' \in [Marcos -> Claves \cup {Nada}]
    BY <1>1, <1>2 DEF IInv, TypeOK
  <2>3. paginasEnMemoria' \in Seq(Claves \cup {Nada})
    BY <1>1, <1>2 DEF IInv, TypeOK
  <2>4. marcosLlenos' \subseteq Marcos
    BY <1>1, <1>4 DEF IInv, TypeOK
  <2> QED
    BY <1>1, <1>4, <1>8, <2>1, <2>2, <2>3, <2>4 DEF IInv, TypeOK, tablas
<1>10. MarcosParticionados'
  BY <1>1, <1>4, <1>5 DEF IInv, Marcacion, MarcosParticionados
<1>11. Actual \notin Range(paginasEnMemoria)
  BY <1>2, <1>3, SinMarcoNoListada
<1>12. Range(paginasEnMemoria') = Range(paginasEnMemoria) \cup {Actual}
  BY SMTT(30), <1>1, <1>2, RangoAppend DEF IInv, TypeOK
<1>13. /\ marco'[m] = Actual
       /\ \A n \in Marcos : n # m => marco'[n] = marco[n]
  BY <1>1, <1>4 DEF IInv, TypeOK
<1>14. MarcoYPagina'
  <2>1. ASSUME NEW n \in marcosLlenos'
        PROVE  /\ Existe(marco[n])' /\ pagina'[marco'[n]].marcoID = n
               /\ marco'[n] \in Range(paginasEnMemoria')
    <3>1. CASE n = m
      BY <1>2, <1>6, <1>12, <1>13, <3>1 DEF Existe
    <3>2. CASE n # m
      <4>1. n \in marcosLlenos /\ n \in Marcos /\ n # SinMarco
        BY <1>1, <3>2, Constantes DEF IInv, TypeOK, Marcos, SinMarco
      <4>2. /\ Existe(marco[n]) /\ pagina[marco[n]].marcoID = n
            /\ marco[n] \in Range(paginasEnMemoria)
        BY <4>1 DEF IInv, Marcacion, MarcoYPagina
      <4>3. marco[n] # Actual
        BY <1>3, <4>1, <4>2
      <4> QED
        BY <1>7, <1>12, <1>13, <3>2, <4>1, <4>2, <4>3 DEF Existe
    <3> QED
      BY <3>1, <3>2
  <2>2. ASSUME NEW k \in Claves, Existe(k)', pagina'[k].marcoID # SinMarco
        PROVE  /\ marco'[pagina'[k].marcoID] = k
               /\ pagina'[k].marcoID \notin Range(marcosVacios')
               /\ ~pagina'[k].swapped
    <3>1. CASE k = Actual
      BY <1>1, <1>4, <1>6, <1>13, <3>1
    <3>2. CASE k # Actual
      <4>1. pagina'[k] = pagina[k] /\ Existe(k) /\ pagina[k] \in Paginas
        BY <1>7, <2>2, <3>2 DEF Existe, IInv, TypeOK
      <4>2. /\ marco[pagina[k].marcoID] = k
            /\ pagina[k].marcoID \notin Range(marcosVacios)
            /\ ~pagina[k].swapped
        BY <2>2, <4>1 DEF IInv, Marcacion, MarcoYPagina
      <4>3. pagina[k].marcoID \in Marcos /\ pagina[k].marcoID # m
        BY <1>4, <2>2, <4>1, <4>2 DEF Paginas
      <4> QED
        BY <1>1, <1>4, <1>13, <4>1, <4>2, <4>3
    <3> QED
      BY <3>1, <3>2
  <2> QED
    BY <2>1, <2>2 DEF MarcoYPagina
<1>15. ListadasResidentes'
  <2>1. Unicos(paginasEnMemoria', Nada)
    <3>1. Unicos(paginasEnMemoria, Nada)
      BY DEF IInv, Marcacion, ListadasResidentes, Unicos, Posiciones
    <3> QED
      BY <1>1, <1>2, <1>11, <3>1, UnicosAppend DEF IInv, TypeOK
  <2>2. ASSUME NEW k \in Range(paginasEnMemoria') \ {Nada}
        PROVE  /\ Existe(k)' /\ pagina'[k].marcoID \in Marcos
               /\ marco'[pagina'[k].marcoID] = k
    <3>1. CASE k = Actual
      BY <1>2, <1>4, <1>6, <1>13, <3>1 DEF Existe
    <3>2. CASE k # Actual
      <4>1. /\ Existe(k) /\ pagina[k].marcoID \in Marcos
            /\ marco[pagina[k].marcoID] = k
        BY <1>12, <3>2 DEF IInv, Marcacion, ListadasResidentes
      <4>2. pagina[k].marcoID # m
        BY <1>4, <1>5, <4>1, Constantes
           DEF IInv, Marcacion, MarcoYPagina, Marcos, SinMarco, Existe
      <4> QED
        BY <1>7, <1>13, <3>2, <4>1, <4>2 DEF Existe
    <3> QED
      BY <3>1, <3>2
  <2> QED
    BY <2>1, <2>2 DEF ListadasResidentes, Unicos, Posiciones
<1>16. SIDsCrecientes' /\ PaginasDeSegmentos'
  <2>1. MismosSegmentos
    BY <1>1, <1>2, <1>6, <1>7, <1>8, NadaEsOtro DEF MismosSegmentos, tablas
  <2> QED
    BY <2>1, SegmentosMismosSegmentos DEF IInv
<1> QED
  BY <1>5, <1>6, <1>8, <1>9, <1>10, <1>14, <1>15, <1>16 DEF IInv, Marcacion

-------------------------------------------------------------------------------
\* The copy of one page.

\* The part of the request that lies in the page, and what the copy makes of
\* the page and of the bytes.
LEMMA TramoTipo ==
  ASSUME IInv, En("copia")
  PROVE  /\ Tramo \in Nat /\ Tramo <= enCurso.resta /\ Tramo <= TamPag - enCurso.desp
         /\ Tramo < enCurso.resta => Tramo = TamPag - enCurso.desp
         /\ BytesTrasCopia \in Seq(Bytes)
         /\ enCurso.op = "escribir" => /\ Escrito \in Datos
                                       /\ Len(BytesTrasCopia) = enCurso.resta - Tramo
<1>1. /\ enCurso \in Operaciones /\ enCurso.op # "destruir"
      /\ Actual \in Claves /\ pagina[Actual] \in Paginas
  BY ActualExiste DEF IInv, En
<1>2. /\ enCurso.resta \in Nat /\ enCurso.desp \in 0 .. TamPag - 1
      /\ enCurso.bytes \in Seq(Bytes) /\ enCurso.op \in {"solicitar", "escribir"}
  BY <1>1 DEF Operaciones
<1>3. pagina[Actual].data \in [0 .. TamPag - 1 -> Bytes]
  BY <1>1 DEF Paginas, Datos
<1>4. /\ Tramo \in Nat /\ Tramo <= enCurso.resta /\ Tramo <= TamPag - enCurso.desp
      /\ Tramo < enCurso.resta => Tramo = TamPag - enCurso.desp
  BY <1>2, Constantes DEF Tramo
<1> HIDE DEF Tramo
<1>5. CASE enCurso.op = "solicitar"
  <2>1. \A i \in 1 .. Tramo : enCurso.desp + i - 1 \in 0 .. TamPag - 1
    BY <1>2, <1>4, Constantes
  <2>2. \A i \in 1 .. Tramo : pagina[Actual].data[enCurso.desp + i - 1] \in Bytes
    BY <1>3, <2>1
  <2>3. Leido \in Seq(Bytes)
    BY <1>4, <2>2, IsASeq DEF Leido
  <2>4. BytesTrasCopia \in Seq(Bytes)
    BY <1>2, <1>5, <2>3 DEF BytesTrasCopia
  <2> QED
    BY <1>4, <1>5, <2>4
<1>6. CASE enCurso.op = "escribir"
  <2>1. Len(enCurso.bytes) = enCurso.resta
    BY <1>6 DEF IInv, OperacionEnCurso, En
  <2>2. /\ BytesTrasCopia = SubSeq(enCurso.bytes, Tramo + 1, Len(enCurso.bytes))
        /\ Tramo + 1 \in 1 .. Len(enCurso.bytes) + 1 /\ Len(enCurso.bytes) \in Nat
    BY <1>2, <1>4, <1>6, <2>1 DEF BytesTrasCopia
  <2>3. BytesTrasCopia \in Seq(Bytes) /\ Len(BytesTrasCopia) = enCurso.resta - Tramo
    BY <1>2, <1>4, <2>1, <2>2
  <2>4. \A i \in enCurso.desp .. enCurso.desp + Tramo - 1 :
          i - enCurso.desp + 1 \in 1 .. Len(enCurso.bytes)
    BY <1>2, <1>4, <2>1
  <2>5. \A i \in enCurso.desp .. enCurso.desp + Tramo - 1 :
          enCurso.bytes[i - enCurso.desp + 1] \in Bytes
    BY <1>2, <2>4
  <2>6. Escrito \in Datos
    BY <1>3, <2>5 DEF Escrito, Datos
  <2> QED
    BY <1>4, <2>3, <2>6
<1> QED
  BY <1>2, <1>5, <1>6

\* leoMemoria and escriboMemoria.
LEMMA CopiarPaginaIInv ==
  ASSUME IInv, CopiarPagina
  PROVE  IInv'
<1> DEFINE siguiente == <<enCurso.pid, enCurso.sid, enCurso.pag + 1>>
           solicitada == [hilo |-> enCurso.hilo, op |-> "solicitar",
                          codigo |-> lectura_exitosa, bytes |-> BytesTrasCopia]
           escrita == [hilo |-> enCurso.hilo, op |-> "escribir",
                       codigo |-> operacion_exitosa, bytes |-> <<>>]
<1>1. /\ En("copia") /\ enCurso # Nada /\ enCurso.paso = "copia"
      /\ pagina' = [pagina EXCEPT ![Actual] = Copiada]
      /\ contadorLRU' = contadorLRU + 1
      /\ UNCHANGED <<tablas, listas, archivos, cantidadSwap, memoriaDisponible,
                     solicitud, caida>>
  BY DEF CopiarPagina, En
<1>2. \/ /\ Tramo < enCurso.resta
         /\ enCurso' = [enCurso EXCEPT
              !.pag = @ + 1, !.desp = 0, !.resta = @ - Tramo, !.bytes = BytesTrasCopia,
              !.paso = PrimerPaso(siguiente)]
         /\ UNCHANGED respuesta
      \/ enCurso' = Nada /\ (respuesta' = solicitada \/ respuesta' = escrita)
  BY DEF CopiarPagina, Responder
<1>3. /\ enCurso \in Operaciones /\ enCurso.op # "destruir"
      /\ Actual \in Claves /\ pagina[Actual] \in Paginas
      /\ DentroDelSegmento(enCurso, enCurso.resta)
  BY <1>1, ActualExiste DEF IInv
<1>4. /\ Tramo \in Nat /\ Tramo <= enCurso.resta /\ Tramo <= TamPag - enCurso.desp
      /\ Tramo < enCurso.resta => Tramo = TamPag - enCurso.desp
      /\ BytesTrasCopia \in Seq(Bytes)
      /\ enCurso.op = "escribir" => Escrito \in Datos
                                    /\ Len(BytesTrasCopia) = enCurso.resta - Tramo
  BY <1>1, TramoTipo
<1>5. /\ enCurso.pid \in PIDs /\ enCurso.sid \in SIDs /\ enCurso.pag \in 0 .. MaxPag - 1
      /\ enCurso.desp \in 0 .. TamPag - 1 /\ enCurso.resta \in Nat
      /\ enCurso.hilo \in Hilos
  BY <1>3 DEF Operaciones, Actual, Claves
<1> HIDE DEF siguiente, solicitada, escrita
<1>6. /\ Copiada \in Paginas
      /\ Copiada.marcoID = pagina[Actual].marcoID
      /\ Copiada.swapped = pagina[Actual].swapped
  <2>1. contadorLRU \in Nat
    BY DEF IInv, TypeOK
  <2>2. (IF enCurso.op = "escribir" THEN Escrito ELSE pagina[Actual].data) \in Datos
    BY <1>3, <1>4 DEF Paginas
  <2> QED
    BY <1>3, <2>1, <2>2 DEF Paginas, Copiada
<1>7. pagina'[Actual] = Copiada
  BY <1>1, <1>3 DEF IInv, TypeOK
<1>8. \A k \in Claves : k # Actual => pagina'[k] = pagina[k]
  BY <1>1, <1>3 DEF IInv, TypeOK
<1>9. pagina[Actual] # Nada /\ pagina'[Actual] # Nada
  BY <1>3, <1>6, <1>7, NadaEsOtro
<1>10. Marcacion'
  <2>1. MismosMarcos
    BY <1>1, <1>6, <1>7, <1>8, <1>9 DEF MismosMarcos, listas
  <2> QED
    BY <2>1, MarcacionMismosMarcos DEF IInv
<1>11. pagina' \in [Claves -> Paginas \cup {Nada}]
  <2>1. \A k \in Claves : pagina'[k] \in Paginas \cup {Nada}
    BY <1>6, <1>7, <1>8 DEF IInv, TypeOK
  <2>2. pagina' = [k \in Claves |-> pagina'[k]]
    BY <1>1 DEF IInv, TypeOK
  <2> QED
    BY <2>1, <2>2
<1>12. CASE enCurso' = Nada /\ (respuesta' = solicitada \/ respuesta' = escrita)
  <2>1. respuesta' \in Respuestas
    <3>1. lectura_exitosa \in Int /\ operacion_exitosa \in Int
      BY DEF lectura_exitosa, operacion_exitosa
    <3>2. solicitada \in Respuestas
      BY <1>4, <1>5, <3>1 DEF Respuestas, solicitada
    <3>3. escrita \in Respuestas
      BY <1>5, <3>1 DEF Respuestas, escrita
    <3> QED
      BY <1>12, <3>2, <3>3
  <2>2. TypeOK'
    BY <1>1, <1>11, <1>12, <2>1 DEF IInv, TypeOK, tablas, listas
  <2>3. MismosSegmentos
    BY <1>1, <1>3, <1>8, <1>9, <1>12 DEF MismosSegmentos, YaDestruida, tablas
  <2>4. OperacionEnCurso'
    BY <1>12 DEF OperacionEnCurso
  <2> QED
    BY <1>10, <2>2, <2>3, <2>4, SegmentosMismosSegmentos DEF IInv
<1>13. CASE /\ Tramo < enCurso.resta
            /\ enCurso' = [enCurso EXCEPT
                 !.pag = @ + 1, !.desp = 0, !.resta = @ - Tramo, !.bytes = BytesTrasCopia,
                 !.paso = PrimerPaso(siguiente)]
            /\ UNCHANGED respuesta
  <2>1. PrimerPaso(siguiente) \in {"swapin", "marco", "copia"}
    BY DEF PrimerPaso
  <2>2. enCurso.resta - Tramo \in Nat /\ enCurso.pag + 1 \in 0 .. MaxPag /\ 0 \in 0 .. TamPag - 1
    BY <1>4, <1>5, Constantes
  <2>3. /\ enCurso'.op = enCurso.op /\ enCurso'.resta = enCurso.resta - Tramo
        /\ enCurso'.bytes = BytesTrasCopia /\ enCurso'.pid = enCurso.pid
        /\ enCurso'.sid = enCurso.sid /\ enCurso'.pag = enCurso.pag + 1
        /\ enCurso'.desp = 0 /\ enCurso'.paso = PrimerPaso(siguiente)
        /\ enCurso' \in Operaciones
    BY <1>3, <1>4, <1>13, <2>1, <2>2 DEF Operaciones
  <2>4. TypeOK'
    BY <1>1, <1>11, <1>13, <2>3 DEF IInv, TypeOK, tablas, listas
  <2>5. MismosSegmentos
    BY <1>1, <1>3, <1>8, <1>9, <2>3 DEF MismosSegmentos, YaDestruida, tablas
\* The rest of the request lies in the segment, from its next page on.
  <2>6. /\ DentroDelSegmento(enCurso, enCurso.resta)'
        /\ enCurso.pag + 1 \in 0 .. MaxPag - 1
    <3>1. PICK i \in DOMAIN segmentos[enCurso.pid] :
            /\ segmentos[enCurso.pid][i].sid = enCurso.sid
            /\ TamPag * enCurso.pag + enCurso.desp + enCurso.resta
                 <= segmentos[enCurso.pid][i].tamanio
      BY <1>3 DEF DentroDelSegmento
    <3> DEFINE t == segmentos[enCurso.pid][i].tamanio
               x == TamPag * enCurso.pag
               p == enCurso.pag + 1
    <3>2. t \in Nat /\ NumPaginas(t) <= MaxPag
      <4>1. segmentos[enCurso.pid][i] \in Segmentos
        BY <1>5 DEF IInv, TypeOK
      <4> QED
        BY <4>1 DEF Segmentos
    <3>3. x \in Nat /\ p \in Nat /\ TamPag * p = x + TamPag
      BY SMTT(30), <1>5, Constantes
    <3>4. x + enCurso.desp + enCurso.resta <= t
      BY <3>1
    <3>5. p = enCurso.pag + 1
      OBVIOUS
    <3> HIDE DEF x, t, p
    <3>6. x + TamPag < t /\ x + TamPag + (enCurso.resta - Tramo) <= t
      <4>1. /\ Tramo = TamPag - enCurso.desp /\ enCurso.desp < TamPag
            /\ enCurso.resta > TamPag - enCurso.desp
            /\ TamPag \in Nat /\ enCurso.desp \in Nat /\ enCurso.resta \in Nat
        BY SMTT(30), <1>4, <1>5, <1>13, Constantes
      <4> QED
        BY <3>2, <3>3, <3>4, <4>1
    <3>7. TamPag * p < t
      BY <3>3, <3>6
    <3>8. p < NumPaginas(t)
      BY <3>2, <3>3, <3>7, Constantes, DivisionHaciaArriba DEF NumPaginas
    <3>9. TamPag * p + 0 + (enCurso.resta - Tramo) <= t
      <4>1. (x + TamPag) + 0 + (enCurso.resta - Tramo) <= t
        BY <1>4, <1>5, <3>2, <3>3, <3>6, Constantes
      <4> QED
        BY <3>3, <4>1
    <3>10. segmentos' = segmentos
      BY <1>1 DEF tablas
    <3>11. DentroDelSegmento(enCurso, enCurso.resta)'
      BY <2>3, <3>1, <3>5, <3>8, <3>9, <3>10 DEF DentroDelSegmento, t
    <3>12. p \in 0 .. MaxPag - 1
      BY SMTT(30), <3>2, <3>3, <3>8, NumPaginasNat, Constantes
    <3> QED
      BY <3>5, <3>11, <3>12
  <2>7. Actual' = siguiente
    BY <2>3 DEF Actual, siguiente
  <2>8. pagina'[siguiente] = pagina[siguiente]
    <3>1. siguiente \in Claves
      BY <1>5, <2>6 DEF Claves, siguiente
    <3>2. siguiente # Actual
      BY <1>5 DEF siguiente, Actual
    <3> QED
      BY <1>8, <3>1, <3>2
  <2>9. OperacionEnCurso'
    <3>1. /\ enCurso'.paso = "swapin" => pagina'[Actual'].marcoID = SinMarco
          /\ enCurso'.paso = "marco" => /\ pagina'[Actual'].marcoID = SinMarco
                                        /\ ~pagina'[Actual'].swapped
          /\ enCurso'.paso = "copia" => pagina'[Actual'].marcoID # SinMarco
      BY <2>3, <2>7, <2>8 DEF PrimerPaso
    <3> QED
      BY <1>3, <1>4, <2>1, <2>3, <2>6, <3>1 DEF OperacionEnCurso
  <2> QED
    BY <1>10, <2>4, <2>5, <2>9, SegmentosMismosSegmentos DEF IInv
<1> QED
  BY <1>2, <1>12, <1>13

-------------------------------------------------------------------------------
\* swapOutPagina.

\* The page removed from paginasEnMemoria is the victim: every listed page has
\* a frame but the one that has just lost it.
LEMMA SaleLaVictima ==
  ASSUME IInv, NEW m \in marcosLlenos, ~PaginaLiberada
  PROVE  /\ SinPrimeraSwappeada(marco[m]) \in Seq(Claves \cup {Nada})
         /\ Range(SinPrimeraSwappeada(marco[m])) = Range(paginasEnMemoria) \ {marco[m]}
         /\ Unicos(SinPrimeraSwappeada(marco[m]), Nada)
<1> DEFINE swappeadas == {i \in Posiciones : \/ paginasEnMemoria[i] = marco[m]
                                             \/ Res(i).marcoID = SinMarco}
           i0 == Min(swappeadas)
<1>1. /\ paginasEnMemoria \in Seq(Claves \cup {Nada})
      /\ Posiciones = 1 .. Len(paginasEnMemoria) /\ Len(paginasEnMemoria) \in Nat
  BY DEF IInv, TypeOK, Posiciones
<1>2. ASSUME NEW i \in Posiciones
      PROVE  Res(i).marcoID # SinMarco
  <2>1. paginasEnMemoria[i] \in Range(paginasEnMemoria) \ {Nada}
    BY DEF PaginaLiberada, Range, Posiciones
  <2>2. Res(i).marcoID \in Marcos
    BY <2>1 DEF IInv, Marcacion, ListadasResidentes, Res
  <2> QED
    BY <2>2, Constantes DEF Marcos, SinMarco
<1>3. swappeadas = {i \in Posiciones : paginasEnMemoria[i] = marco[m]}
  BY <1>2
<1>4. marco[m] \in Range(paginasEnMemoria) /\ marco[m] \in Claves /\ marco[m] # Nada
  BY NadaEsOtro DEF IInv, Marcacion, MarcoYPagina, Existe
<1>5. swappeadas # {}
  BY <1>3, <1>4 DEF Range, Posiciones
<1>6. i0 \in swappeadas
  BY <1>1, <1>5, MinDeIndices
<1>7. i0 \in 1 .. Len(paginasEnMemoria) /\ paginasEnMemoria[i0] = marco[m]
  BY <1>1, <1>3, <1>6
<1>8. SinPrimeraSwappeada(marco[m]) = RemoveAt(paginasEnMemoria, i0)
  BY DEF SinPrimeraSwappeada
<1> HIDE DEF swappeadas, i0
<1>9. Unicos(paginasEnMemoria, Nada)
  BY DEF IInv, Marcacion, ListadasResidentes, Unicos, Posiciones
<1>10. \A j \in 1 .. Len(paginasEnMemoria) : paginasEnMemoria[j] = paginasEnMemoria[i0] => j = i0
  BY <1>1, <1>4, <1>7, <1>9 DEF Unicos, Posiciones
<1>11. Range(RemoveAt(paginasEnMemoria, i0)) = Range(paginasEnMemoria) \ {marco[m]}
  BY <1>1, <1>7, <1>10, RangoQuitar
<1>12. Unicos(RemoveAt(paginasEnMemoria, i0), Nada)
  BY <1>1, <1>7, <1>9, UnicosQuitar
<1>13. RemoveAt(paginasEnMemoria, i0) \in Seq(Claves \cup {Nada})
  BY <1>1, <1>7, QuitarPosicion
<1> QED
  BY <1>8, <1>11, <1>12, <1>13

\* asignoMarcoAPagina evicts a page and takes its frame.
LEMMA DesalojarIInv ==
  ASSUME IInv, NEW m \in Marcos, Desalojar(m)
  PROVE  IInv'
<1> DEFINE v == marco[m]
           r == Repasar
           sin == SinPrimeraSwappeada(v)
<1>1. /\ enCurso # Nada /\ enCurso.paso = "marco" /\ ~PaginaLiberada
      /\ m \in marcosLlenos
      /\ archivos' = [archivos EXCEPT ![obtenerFilePath(v)] = pagina[v].data]
      /\ pagina' = [r EXCEPT
           ![v].swapped = TRUE,
           ![v].marcoID = SinMarco,
           ![v].data = PaginaVacia.data,
           ![Actual].marcoID = m,
           ![Actual].bitReferencia = 1]
      /\ paginasEnMemoria' = Append(sin, Actual)
      /\ marco' = [marco EXCEPT ![m] = Actual]
      /\ cantidadSwap' = cantidadSwap - TamPag
      /\ enCurso' = [enCurso EXCEPT !.paso = "copia"]
      /\ UNCHANGED <<tablas, marcosVacios, marcosLlenos, memoriaDisponible,
                     contadorLRU, solicitud, respuesta, caida>>
  BY DEF Desalojar, BuscaVictima, En
<1>2. /\ enCurso \in Operaciones /\ enCurso.op # "destruir"
      /\ Actual \in Claves /\ pagina[Actual] \in Paginas
      /\ DentroDelSegmento(enCurso, enCurso.resta)
  BY <1>1, ActualExiste DEF IInv
<1>3. pagina[Actual].marcoID = SinMarco /\ ~pagina[Actual].swapped
  BY <1>1 DEF IInv, OperacionEnCurso
<1>4. /\ v \in Claves /\ pagina[v] \in Paginas /\ pagina[v].marcoID = m
      /\ v \in Range(paginasEnMemoria)
  BY <1>1 DEF IInv, TypeOK, Marcacion, MarcoYPagina, Existe
<1>5. m # SinMarco /\ m \notin Range(marcosVacios)
  <2>1. m # SinMarco
    BY Constantes DEF Marcos, SinMarco
  <2>2. m \in marcosLlenos
    BY <1>1
  <2>3. Range(marcosVacios) \cap marcosLlenos = {}
    BY DEF IInv, Marcacion, MarcosParticionados
  <2> QED
    BY <2>1, <2>2, <2>3
<1>6. v # Actual
  BY <1>3, <1>4, <1>5
<1>7. /\ sin \in Seq(Claves \cup {Nada}) /\ Unicos(sin, Nada)
      /\ Range(sin) = Range(paginasEnMemoria) \ {v}
  BY <1>1, SaleLaVictima
<1>8. /\ r \in [Claves -> Paginas \cup {Nada}]
      /\ \A k \in Claves :
           /\ r[k] = Nada <=> pagina[k] = Nada
           /\ pagina[k] # Nada => /\ r[k] \in Paginas
                                  /\ r[k].marcoID = pagina[k].marcoID
                                  /\ r[k].swapped = pagina[k].swapped
  BY RepasarPaginas
<1> HIDE DEF v, r, sin
<1>9. /\ pagina'[v] = [r[v] EXCEPT !.swapped = TRUE, !.marcoID = SinMarco,
                                   !.data = PaginaVacia.data]
      /\ pagina'[Actual] = [r[Actual] EXCEPT !.marcoID = m, !.bitReferencia = 1]
      /\ \A k \in Claves : k # v /\ k # Actual => pagina'[k] = r[k]
      /\ DOMAIN pagina' = Claves
  BY <1>1, <1>2, <1>4, <1>6, <1>8
<1>10. /\ r[v] \in Paginas /\ r[Actual] \in Paginas /\ r[Actual].swapped = FALSE
  BY <1>2, <1>3, <1>4, <1>8, NadaEsOtro DEF Paginas
<1>11. PaginaVacia.data \in Datos /\ SinMarco \in Marcos \cup {SinMarco}
  BY PaginaVaciaTipo DEF Paginas
<1>12. pagina'[v] \in Paginas /\ pagina'[v] # Nada /\ pagina'[v].marcoID = SinMarco
  <2>1. pagina'[v] \in Paginas /\ pagina'[v].marcoID = SinMarco
    BY <1>9, <1>10, <1>11 DEF Paginas
  <2> QED
    BY <2>1, NadaEsOtro
<1>13. /\ pagina'[Actual] \in Paginas /\ pagina'[Actual] # Nada
       /\ pagina'[Actual].marcoID = m /\ ~pagina'[Actual].swapped
  <2>1. /\ pagina'[Actual] \in Paginas
        /\ pagina'[Actual].marcoID = m /\ ~pagina'[Actual].swapped
    BY <1>9, <1>10 DEF Paginas
  <2> QED
    BY <2>1, NadaEsOtro
<1>14. ASSUME NEW k \in Claves, k # v, k # Actual
       PROVE  /\ pagina'[k] \in Paginas \cup {Nada}
              /\ pagina'[k] = Nada <=> pagina[k] = Nada
              /\ pagina[k] # Nada => /\ pagina'[k].marcoID = pagina[k].marcoID
                                     /\ pagina'[k].swapped = pagina[k].swapped
  BY <1>8, <1>9, <1>14
<1>15. /\ enCurso' \in Operaciones
       /\ \A k \in Claves : ~YaDestruida(k)' /\ ~YaDestruida(k)
       /\ pagina'[Actual].marcoID # SinMarco => OperacionEnCurso'
  BY <1>1, <1>2, CambiarPaso DEF tablas
<1>16. TypeOK'
  <2>1. pagina' \in [Claves -> Paginas \cup {Nada}]
    <3>1. \A k \in Claves : pagina'[k] \in Paginas \cup {Nada}
      BY <1>12, <1>13, <1>14
    <3>2. pagina' = [k \in Claves |-> pagina'[k]]
      BY <1>1, <1>8
    <3> QED
      BY <3>1, <3>2
  <2>2. marco' \in [Marcos -> Claves \cup {Nada}]
    BY <1>1, <1>2 DEF IInv, TypeOK
  <2>3. paginasEnMemoria' \in Seq(Claves \cup {Nada})
    BY <1>1, <1>2, <1>7
  <2>4. archivos' \in [Rutas -> Datos \cup {Nada}]
    <3>1. pagina[v].data \in Datos
      BY <1>4 DEF Paginas
    <3> QED
      BY <1>1, <3>1 DEF IInv, TypeOK
  <2>5. cantidadSwap' \in Int
    BY <1>1, Constantes DEF IInv, TypeOK
  <2> QED
    BY <1>1, <1>15, <2>1, <2>2, <2>3, <2>4, <2>5 DEF IInv, TypeOK, tablas
<1>17. MarcosParticionados'
  BY <1>1 DEF IInv, Marcacion, MarcosParticionados
<1>18. Actual \notin Range(paginasEnMemoria)
  BY <1>2, <1>3, SinMarcoNoListada
<1>19. Range(paginasEnMemoria') = (Range(paginasEnMemoria) \ {v}) \cup {Actual}
  BY <1>1, <1>2, <1>7, RangoAppend
<1>20. /\ marco'[m] = Actual
       /\ \A n \in Marcos : n # m => marco'[n] = marco[n]
  BY <1>1 DEF IInv, TypeOK
<1>21. MarcoYPagina'
  <2>1. ASSUME NEW n \in marcosLlenos'
        PROVE  /\ Existe(marco[n])' /\ pagina'[marco'[n]].marcoID = n
               /\ marco'[n] \in Range(paginasEnMemoria')
    <3>1. CASE n = m
      BY <1>2, <1>13, <1>19, <1>20, <3>1 DEF Existe
    <3>2. CASE n # m
      <4>1. n \in marcosLlenos /\ n \in Marcos /\ n # SinMarco
        BY <1>1, Constantes DEF IInv, TypeOK, Marcos, SinMarco
      <4>2. /\ Existe(marco[n]) /\ pagina[marco[n]].marcoID = n
            /\ marco[n] \in Range(paginasEnMemoria)
        BY <4>1 DEF IInv, Marcacion, MarcoYPagina
      <4>3. marco[n] # Actual /\ marco[n] # v
        BY <1>3, <1>4, <3>2, <4>1, <4>2
      <4> QED
        BY <1>14, <1>19, <1>20, <3>2, <4>1, <4>2, <4>3 DEF Existe
    <3> QED
      BY <3>1, <3>2
  <2>2. ASSUME NEW k \in Claves, Existe(k)', pagina'[k].marcoID # SinMarco
        PROVE  /\ marco'[pagina'[k].marcoID] = k
               /\ pagina'[k].marcoID \notin Range(marcosVacios')
               /\ ~pagina'[k].swapped
    <3>1. CASE k = Actual
      BY <1>1, <1>5, <1>13, <1>20, <3>1
    <3>2. CASE k # Actual
      <4>1. k # v
        BY <1>12, <2>2
      <4>2. /\ Existe(k) /\ pagina[k] \in Paginas
            /\ pagina'[k].marcoID = pagina[k].marcoID
            /\ pagina'[k].swapped = pagina[k].swapped
        BY <1>14, <2>2, <3>2, <4>1 DEF Existe, IInv, TypeOK
      <4>3. /\ marco[pagina[k].marcoID] = k
            /\ pagina[k].marcoID \notin Range(marcosVacios)
            /\ ~pagina[k].swapped
        BY <2>2, <4>2 DEF IInv, Marcacion, MarcoYPagina
      <4>4. pagina[k].marcoID \in Marcos /\ pagina[k].marcoID # m
        BY <2>2, <4>1, <4>2, <4>3 DEF Paginas, v
      <4> QED
        BY <1>1, <1>20, <4>2, <4>3, <4>4
    <3> QED
      BY <3>1, <3>2
  <2> QED
    BY <2>1, <2>2 DEF MarcoYPagina
<1>22. ListadasResidentes'
  <2>1. Unicos(paginasEnMemoria', Nada)
    BY <1>1, <1>2, <1>7, <1>18, UnicosAppend
  <2>2. ASSUME NEW k \in Range(paginasEnMemoria') \ {Nada}
        PROVE  /\ Existe(k)' /\ pagina'[k].marcoID \in Marcos
               /\ marco'[pagina'[k].marcoID] = k
    <3>1. CASE k = Actual
      BY <1>2, <1>13, <1>20, <3>1 DEF Existe
    <3>2. CASE k # Actual
      <4>1. /\ Existe(k) /\ pagina[k].marcoID \in Marcos
            /\ marco[pagina[k].marcoID] = k /\ k # v
        BY <1>19, <3>2 DEF IInv, Marcacion, ListadasResidentes
      <4>2. pagina[k].marcoID # m
        BY <4>1 DEF v
      <4> QED
        BY <1>14, <1>20, <3>2, <4>1, <4>2 DEF Existe
    <3> QED
      BY <3>1, <3>2
  <2> QED
    BY <2>1, <2>2 DEF ListadasResidentes, Unicos, Posiciones
<1>23. SIDsCrecientes' /\ PaginasDeSegmentos'
  <2>1. \A k \in Claves : pagina'[k] = Nada <=> pagina[k] = Nada
    BY <1>2, <1>4, <1>12, <1>13, <1>14, NadaEsOtro
  <2>2. MismosSegmentos
    BY <1>1, <1>15, <2>1 DEF MismosSegmentos, tablas
  <2> QED
    BY <2>2, SegmentosMismosSegmentos DEF IInv
<1> QED
  BY <1>5, <1>13, <1>15, <1>16, <1>17, <1>21, <1>22, <1>23 DEF IInv, Marcacion

-------------------------------------------------------------------------------
\* destruirPag and the end of destruirSegmento.

\* The frame of the destroyed page goes from marcosLlenos to marcosVacios.
LEMMA MarcoLiberado ==
  ASSUME IInv, Actual \in Claves, pagina' = [pagina EXCEPT ![Actual] = Nada],
         NEW m \in marcosLlenos, marco[m] = Actual,
         marcosLlenos' = marcosLlenos \ {m}, marco' = [marco EXCEPT ![m] = Nada],
         marcosVacios' = Append(marcosVacios, m),
         paginasEnMemoria' = RemoveFirst(paginasEnMemoria, Actual)
  PROVE  /\ Marcacion'
         /\ marco' \in [Marcos -> Claves \cup {Nada}] /\ marcosVacios' \in Seq(Marcos)
         /\ marcosLlenos' \subseteq Marcos
         /\ paginasEnMemoria' \in Seq(Claves \cup {Nada})
<1> DEFINE S == Claves \cup {Nada}
           pem == paginasEnMemoria
<1>1. /\ m \in Marcos /\ marco \in [Marcos -> S] /\ marcosVacios \in Seq(Marcos)
      /\ pem \in Seq(S) /\ marcosLlenos \subseteq Marcos
  BY DEF IInv, TypeOK
<1>2. /\ Existe(Actual) /\ pagina[Actual].marcoID = m /\ Actual \in Range(pem)
      /\ Actual # Nada
  BY NadaEsOtro DEF IInv, Marcacion, MarcoYPagina
<1>3. Unicos(pem, Nada)
  BY DEF IInv, Marcacion, ListadasResidentes, Unicos, Posiciones
<1>4. PICK i \in 1 .. Len(pem) : pem[i] = Actual /\ paginasEnMemoria' = RemoveAt(pem, i)
  <2>1. \E i \in 1 .. Len(pem) : pem[i] = Actual
    BY <1>1, <1>2 DEF Range
  <2> QED
    BY <1>1, <2>1, QuitarPrimero
<1>5. /\ Range(paginasEnMemoria') = Range(pem) \ {Actual}
      /\ Unicos(paginasEnMemoria', Nada) /\ paginasEnMemoria' \in Seq(S)
  <2>1. \A j \in 1 .. Len(pem) : pem[j] = pem[i] => j = i
    BY <1>1, <1>2, <1>3, <1>4 DEF Unicos
  <2>2. Range(paginasEnMemoria') = Range(pem) \ {Actual}
    BY <1>1, <1>4, <2>1, RangoQuitar
  <2>3. Unicos(paginasEnMemoria', Nada)
    BY <1>1, <1>3, <1>4, UnicosQuitar
  <2>4. paginasEnMemoria' \in Seq(S)
    BY <1>1, <1>4, QuitarPosicion
  <2> QED
    BY <2>2, <2>3, <2>4
<1>6. m \notin Range(marcosVacios) /\ IsInjective(marcosVacios)
  BY DEF IInv, Marcacion, MarcosParticionados
<1>7. /\ Range(marcosVacios') = Range(marcosVacios) \cup {m}
      /\ IsInjective(marcosVacios') /\ marcosVacios' \in Seq(Marcos)
  BY <1>1, <1>6, RangoAppend, InjectivaAppend
<1>8. MarcosParticionados'
  BY <1>1, <1>7 DEF IInv, Marcacion, MarcosParticionados
<1>9. \A n \in Marcos : n # m => marco'[n] = marco[n]
  BY <1>1
<1>10. /\ pagina'[Actual] = Nada
       /\ \A k \in Claves : k # Actual => pagina'[k] = pagina[k]
  BY DEF IInv, TypeOK
<1>11. MarcoYPagina'
  <2>1. ASSUME NEW n \in marcosLlenos'
        PROVE  /\ Existe(marco[n])' /\ pagina'[marco'[n]].marcoID = n
               /\ marco'[n] \in Range(paginasEnMemoria')
    <3>1. n \in marcosLlenos /\ n # m /\ n \in Marcos
      BY <1>1
    <3>2. /\ Existe(marco[n]) /\ pagina[marco[n]].marcoID = n
          /\ marco[n] \in Range(pem)
      BY <3>1 DEF IInv, Marcacion, MarcoYPagina
    <3>3. marco[n] # Actual
      BY <1>2, <3>1, <3>2
    <3> QED
      BY <1>5, <1>9, <1>10, <3>1, <3>2, <3>3 DEF Existe
  <2>2. ASSUME NEW k \in Claves, Existe(k)', pagina'[k].marcoID # SinMarco
        PROVE  /\ marco'[pagina'[k].marcoID] = k
               /\ pagina'[k].marcoID \notin Range(marcosVacios')
               /\ ~pagina'[k].swapped
    <3>1. k # Actual /\ pagina'[k] = pagina[k] /\ Existe(k) /\ pagina[k] \in Paginas
      BY <1>10, <2>2 DEF Existe, IInv, TypeOK
    <3>2. /\ marco[pagina[k].marcoID] = k
          /\ pagina[k].marcoID \notin Range(marcosVacios)
          /\ ~pagina[k].swapped
      BY <2>2, <3>1 DEF IInv, Marcacion, MarcoYPagina
    <3>3. pagina[k].marcoID \in Marcos /\ pagina[k].marcoID # m
      BY <2>2, <3>1, <3>2 DEF Paginas
    <3> QED
      BY <1>7, <1>9, <3>1, <3>2, <3>3
  <2> QED
    BY <2>1, <2>2 DEF MarcoYPagina
<1>12. ListadasResidentes'
  <2>1. ASSUME NEW k \in Range(paginasEnMemoria') \ {Nada}
        PROVE  /\ Existe(k)' /\ pagina'[k].marcoID \in Marcos
               /\ marco'[pagina'[k].marcoID] = k
    <3>1. /\ Existe(k) /\ pagina[k].marcoID \in Marcos
          /\ marco[pagina[k].marcoID] = k /\ k # Actual
      BY <1>5 DEF IInv, Marcacion, ListadasResidentes
    <3>2. pagina[k].marcoID # m
      BY <3>1
    <3> QED
      BY <1>9, <1>10, <3>1, <3>2 DEF Existe
  <2> QED
    BY <1>5, <2>1 DEF ListadasResidentes, Unicos, Posiciones
<1>13. marco' \in [Marcos -> S] /\ marcosLlenos' \subseteq Marcos
  BY <1>1
<1> QED
  BY <1>5, <1>7, <1>8, <1>11, <1>12, <1>13 DEF Marcacion

\* The destroyed page had no frame in use; if it is listed, it was in a frame
\* lost to a swap file that could not be created.
LEMMA SinMarcoQueLiberar ==
  ASSUME IInv, Actual \in Claves, pagina' = [pagina EXCEPT ![Actual] = Nada],
         \A m \in marcosLlenos : marco[m] # Actual,
         paginasEnMemoria' = [i \in Posiciones |->
           IF paginasEnMemoria[i] = Actual THEN Nada ELSE paginasEnMemoria[i]],
         UNCHANGED <<marco, marcosVacios, marcosLlenos>>
  PROVE  Marcacion' /\ paginasEnMemoria' \in Seq(Claves \cup {Nada})
<1> DEFINE S == Claves \cup {Nada}
           pem == paginasEnMemoria
<1>1. pem \in Seq(S) /\ Posiciones = 1 .. Len(pem) /\ Len(pem) \in Nat
  BY DEF IInv, TypeOK, Posiciones
<1>2. paginasEnMemoria' \in Seq(S) /\ DOMAIN paginasEnMemoria' = Posiciones
  <2>1. \A i \in 1 .. Len(pem) :
          (IF pem[i] = Actual THEN Nada ELSE pem[i]) \in S
    BY <1>1
  <2> QED
    BY <1>1, <2>1, IsASeq
<1>3. Actual # Nada
  BY NadaEsOtro
<1>4. Range(paginasEnMemoria') \ {Nada} = Range(pem) \ {Actual, Nada}
  BY <1>2, <1>3 DEF Range, Posiciones
<1>5. \A i, j \in Posiciones' :
        paginasEnMemoria'[i] = paginasEnMemoria'[j] /\ paginasEnMemoria'[i] # Nada => i = j
  BY <1>2 DEF IInv, Marcacion, ListadasResidentes, Posiciones
<1>6. /\ pagina'[Actual] = Nada
      /\ \A k \in Claves : k # Actual => pagina'[k] = pagina[k]
  BY DEF IInv, TypeOK
<1>7. MarcosParticionados'
  BY DEF IInv, Marcacion, MarcosParticionados
<1>8. MarcoYPagina'
  <2>1. ASSUME NEW n \in marcosLlenos'
        PROVE  /\ Existe(marco[n])' /\ pagina'[marco'[n]].marcoID = n
               /\ marco'[n] \in Range(paginasEnMemoria')
    <3>1. /\ Existe(marco[n]) /\ pagina[marco[n]].marcoID = n
          /\ marco[n] \in Range(pem) /\ marco[n] # Actual
      BY DEF IInv, Marcacion, MarcoYPagina
    <3>2. marco[n] # Nada
      BY <3>1, NadaEsOtro DEF Existe
    <3> QED
      BY <1>4, <1>6, <3>1, <3>2 DEF Existe
  <2>2. ASSUME NEW k \in Claves, Existe(k)', pagina'[k].marcoID # SinMarco
        PROVE  /\ marco'[pagina'[k].marcoID] = k
               /\ pagina'[k].marcoID \notin Range(marcosVacios')
               /\ ~pagina'[k].swapped
    <3>1. pagina'[k] = pagina[k] /\ Existe(k)
      BY <1>6, <2>2 DEF Existe
    <3> QED
      BY <2>2, <3>1 DEF IInv, Marcacion, MarcoYPagina
  <2> QED
    BY <2>1, <2>2 DEF MarcoYPagina
<1>9. ListadasResidentes'
  <2>1. ASSUME NEW k \in Range(paginasEnMemoria') \ {Nada}
        PROVE  /\ Existe(k)' /\ pagina'[k].marcoID \in Marcos
               /\ marco'[pagina'[k].marcoID] = k
    <3>1. /\ Existe(k) /\ pagina[k].marcoID \in Marcos
          /\ marco[pagina[k].marcoID] = k /\ k # Actual
      BY <1>4 DEF IInv, Marcacion, ListadasResidentes
    <3> QED
      BY <1>6, <3>1 DEF Existe
  <2> QED
    BY <1>5, <2>1 DEF ListadasResidentes
<1> QED
  BY <1>2, <1>7, <1>8, <1>9 DEF Marcacion

\* destruirPag.
LEMMA DestruirPagIInv ==
  ASSUME IInv, DestruirPag
  PROVE  IInv'
<1>1. /\ enCurso # Nada /\ enCurso.paso = "destruir"
      /\ Actual \in Claves /\ pagina[Actual] # Nada
      /\ LiberarMarco /\ BorrarArchivo
      /\ pagina' = [pagina EXCEPT ![Actual] = Nada]
      /\ enCurso' = [enCurso EXCEPT !.pag = @ + 1]
      /\ UNCHANGED <<tablas, memoriaDisponible, contadorLRU, solicitud, respuesta, caida>>
  BY DEF DestruirPag, En
<1>2. enCurso \in Operaciones /\ enCurso.op = "destruir"
  BY <1>1 DEF IInv, TypeOK, OperacionEnCurso
<1>3. /\ Marcacion'
      /\ marco' \in [Marcos -> Claves \cup {Nada}] /\ marcosVacios' \in Seq(Marcos)
      /\ marcosLlenos' \subseteq Marcos
      /\ paginasEnMemoria' \in Seq(Claves \cup {Nada})
  <2>1. CASE \E m \in marcosLlenos :
               /\ marco[m] = Actual
               /\ marcosLlenos' = marcosLlenos \ {m}
               /\ marco' = [marco EXCEPT ![m] = Nada]
               /\ marcosVacios' = Append(marcosVacios, m)
               /\ paginasEnMemoria' = RemoveFirst(paginasEnMemoria, Actual)
    BY <1>1, <2>1, MarcoLiberado
  <2>2. CASE /\ \A m \in marcosLlenos : marco[m] # Actual
             /\ paginasEnMemoria' = [i \in Posiciones |->
                  IF paginasEnMemoria[i] = Actual THEN Nada ELSE paginasEnMemoria[i]]
             /\ UNCHANGED <<marco, marcosVacios, marcosLlenos>>
    BY <1>1, <2>2, SinMarcoQueLiberar DEF IInv, TypeOK
  <2> QED
    BY <1>1, <2>1, <2>2 DEF LiberarMarco
<1>4. archivos' \in [Rutas -> Datos \cup {Nada}] /\ cantidadSwap' \in Int
  <2>1. TamPag \in Int
    BY Constantes
  <2>2. archivos \in [Rutas -> Datos \cup {Nada}] /\ cantidadSwap \in Int
    BY DEF IInv, TypeOK
  <2>3. CASE UNCHANGED <<archivos, cantidadSwap>>
    BY <2>2, <2>3
  <2>4. CASE /\ archivos' = [archivos EXCEPT ![obtenerFilePath(Actual)] = Nada]
             /\ cantidadSwap' = cantidadSwap + TamPag
    <3>1. archivos' \in [Rutas -> Datos \cup {Nada}]
      BY <2>2, <2>4
    <3>2. cantidadSwap' \in Int
      BY <2>1, <2>2, <2>4
    <3> QED
      BY <3>1, <3>2
  <2> QED
    BY <1>1, <2>3, <2>4 DEF BorrarArchivo
<1>5. /\ enCurso'.pid = enCurso.pid /\ enCurso'.sid = enCurso.sid
      /\ enCurso'.pag = enCurso.pag + 1 /\ enCurso'.op = "destruir"
      /\ enCurso'.paso = "destruir" /\ enCurso' \in Operaciones
  <2>1. enCurso.pag + 1 \in 0 .. MaxPag
    BY <1>1, Constantes DEF Actual, Claves
  <2> QED
    BY <1>1, <1>2, <2>1 DEF Operaciones
<1>6. pagina' \in [Claves -> Paginas \cup {Nada}]
  BY <1>1 DEF IInv, TypeOK
<1>7. TypeOK'
  BY <1>1, <1>3, <1>4, <1>5, <1>6 DEF IInv, TypeOK, tablas
<1>8. OperacionEnCurso'
  BY <1>5 DEF OperacionEnCurso
<1>9. SIDsCrecientes'
  BY <1>1 DEF IInv, SIDsCrecientes, tablas
<1>10. PaginasDeSegmentos'
  <2> SUFFICES ASSUME NEW k \in Claves
               PROVE  Existe(k)' <=> DeUnSegmento(k)' /\ ~YaDestruida(k)'
    BY DEF PaginasDeSegmentos
  <2>1. DeUnSegmento(k)' <=> DeUnSegmento(k)
    BY <1>1 DEF DeUnSegmento, tablas
  <2>2. enCurso' # Nada
    BY <1>5, NadaEsOtro
  <2>3. enCurso.pag \in Nat /\ k[3] \in Nat
    BY <1>2, Constantes DEF Operaciones, Claves
  <2>4. k = Actual <=> /\ enCurso.pid = k[1] /\ enCurso.sid = k[2]
                       /\ k[3] = enCurso.pag
    BY DEF Actual, Claves
  <2>5. YaDestruida(k)' <=> YaDestruida(k) \/ k = Actual
    BY <1>1, <1>2, <1>5, <2>2, <2>3, <2>4 DEF YaDestruida
  <2>6. Existe(k)' <=> Existe(k) /\ k # Actual
    BY <1>1 DEF Existe, IInv, TypeOK
  <2> QED
    BY <2>1, <2>5, <2>6 DEF IInv, PaginasDeSegmentos
<1> QED
  BY <1>3, <1>7, <1>8, <1>9, <1>10 DEF IInv

\* destruirSegmento takes the segment out of the list.
LEMMA QuitarSegmentoIInv ==
  ASSUME IInv, QuitarSegmento
  PROVE  IInv'
<1> DEFINE pid == enCurso.pid
           sid == enCurso.sid
           s == segmentos[enCurso.pid]
<1>1. PICK i \in DOMAIN segmentos[enCurso.pid] :
        /\ segmentos[enCurso.pid][i].sid = enCurso.sid
        /\ segmentos' = [segmentos EXCEPT ![enCurso.pid] = RemoveAt(@, i)]
        /\ memoriaDisponible' = memoriaDisponible + segmentos[enCurso.pid][i].tamanio
  BY DEF QuitarSegmento, PosicionSegmento, MemoriaDevuelta
<1>2. /\ enCurso # Nada /\ enCurso.paso = "destruir"
      /\ Actual \in Claves => pagina[Actual] = Nada
      /\ enCurso' = Nada
      /\ UNCHANGED <<procesos, pagina, listas, archivos, cantidadSwap, contadorLRU,
                     solicitud, respuesta, caida>>
  BY DEF QuitarSegmento, En
<1>3. /\ enCurso \in Operaciones /\ enCurso.op = "destruir"
      /\ pid \in PIDs /\ sid \in SIDs /\ enCurso.pag \in 0 .. MaxPag
  BY <1>2 DEF IInv, TypeOK, OperacionEnCurso, Operaciones
<1>4. s \in Seq(Segmentos) /\ DOMAIN s = 1 .. Len(s) /\ Len(s) \in Nat /\ i \in 1 .. Len(s)
  BY <1>1, <1>3 DEF IInv, TypeOK
<1>5. /\ RemoveAt(s, i) \in Seq(Segmentos)
      /\ Len(RemoveAt(s, i)) = Len(s) - 1
      /\ \A j \in 1 .. Len(s) - 1 : RemoveAt(s, i)[j] = IF j < i THEN s[j] ELSE s[j + 1]
  BY <1>4, QuitarPosicion
<1>6. s[i].tamanio \in Nat /\ NumPaginas(s[i].tamanio) <= MaxPag
  <2>1. s[i] \in Segmentos
    BY <1>4
  <2> QED
    BY <2>1 DEF Segmentos
<1>7. /\ segmentos'[pid] = RemoveAt(s, i)
      /\ \A p \in PIDs : p # pid => segmentos'[p] = segmentos[p]
  BY <1>1, <1>3 DEF IInv, TypeOK
<1>8. TypeOK'
  <2>1. segmentos' \in [PIDs -> Seq(Segmentos)]
    BY <1>1, <1>5 DEF IInv, TypeOK
  <2>2. memoriaDisponible' \in Int
    BY <1>1, <1>6 DEF IInv, TypeOK
  <2> QED
    BY <1>2, <2>1, <2>2 DEF IInv, TypeOK, listas
<1>9. \A j, l \in 1 .. Len(s) : j < l => s[j].sid < s[l].sid
  BY <1>3, <1>4 DEF IInv, SIDsCrecientes
<1>10. \A j \in 1 .. Len(s) : s[j].sid \in Int
  <2>1. \A j \in 1 .. Len(s) : s[j] \in Segmentos
    BY <1>4
  <2> QED
    BY <2>1, Constantes DEF Segmentos, SIDs
<1> HIDE DEF pid, sid, s
<1>11. SIDsCrecientes'
  <2> SUFFICES ASSUME NEW p \in PIDs, NEW j \in DOMAIN segmentos'[p],
                      NEW l \in DOMAIN segmentos'[p], j < l
               PROVE  segmentos'[p][j].sid < segmentos'[p][l].sid
    BY DEF SIDsCrecientes
  <2>1. CASE p # pid
    BY <1>7, <2>1 DEF IInv, SIDsCrecientes
  <2>2. CASE p = pid
    <3> DEFINE g(x) == IF x < i THEN x ELSE x + 1
    <3>1. j \in 1 .. Len(s) - 1 /\ l \in 1 .. Len(s) - 1
      BY <1>5, <1>7, <2>2
    <3>2. g(j) \in 1 .. Len(s) /\ g(l) \in 1 .. Len(s) /\ g(j) < g(l)
      BY <1>4, <3>1
    <3>3. segmentos'[p][j] = s[g(j)] /\ segmentos'[p][l] = s[g(l)]
      BY <1>5, <1>7, <2>2, <3>1
    <3> QED
      BY <1>9, <3>2, <3>3
  <2> QED
    BY <2>1, <2>2
\* No other segment of the process has the SID of the one that goes.
<1>12. Range(RemoveAt(s, i)) = Range(s) \ {s[i]}
       /\ \A j \in 1 .. Len(s) : s[j].sid = s[i].sid => s[j] = s[i]
  <2>1. \A j \in 1 .. Len(s) : s[j].sid = s[i].sid => j = i
    BY <1>4, <1>9, <1>10
  <2> QED
    BY <1>4, <2>1, RangoQuitar
<1>13. ASSUME NEW k \in Claves
       PROVE  /\ k[1] = pid /\ k[2] = sid =>
                   /\ ~DeUnSegmento(k)'
                   /\ DeUnSegmento(k) <=> k[3] < NumPaginas(s[i].tamanio)
              /\ ~(k[1] = pid /\ k[2] = sid) => (DeUnSegmento(k)' <=> DeUnSegmento(k))
  <2>1. k[1] \in PIDs
    BY DEF Claves
  <2>2. CASE k[1] # pid
    BY <1>7, <2>1, <2>2 DEF DeUnSegmento
  <2>3. CASE k[1] = pid
    <3>1. DeUnSegmento(k) <=> \E g \in Range(s) : g.sid = k[2] /\ k[3] < NumPaginas(g.tamanio)
      BY <2>3 DEF DeUnSegmento, Range, s, pid
    <3>2. DeUnSegmento(k)' <=> \E g \in Range(RemoveAt(s, i)) :
            g.sid = k[2] /\ k[3] < NumPaginas(g.tamanio)
      BY <1>7, <2>3 DEF DeUnSegmento, Range
    <3>3. s[i] \in Range(s) /\ s[i].sid = sid
      BY <1>1, <1>4 DEF Range, s, sid
    <3>4. \A g \in Range(s) : g.sid = sid => g = s[i]
      BY <1>4, <1>12, <3>3 DEF Range
    <3> QED
      BY <1>12, <2>3, <3>1, <3>2, <3>3, <3>4
  <2> QED
    BY <2>2, <2>3
\* The destruction has reached the end of the segment.
<1>14. enCurso.pag >= NumPaginas(s[i].tamanio)
  <2>1. CASE Actual \in Claves
    <3>1. ~Existe(Actual) /\ ~YaDestruida(Actual)
      BY <1>2, <1>3, <2>1 DEF Existe, YaDestruida, Actual
    <3>2. ~DeUnSegmento(Actual)
      BY <2>1, <3>1 DEF IInv, PaginasDeSegmentos
    <3>3. Actual[1] = pid /\ Actual[2] = sid /\ Actual[3] = enCurso.pag
      BY DEF Actual, pid, sid
    <3> QED
      BY <1>3, <1>6, <1>13, <2>1, <3>2, <3>3, NumPaginasNat
  <2>2. CASE Actual \notin Claves
    <3>1. enCurso.pag = MaxPag
      BY <1>3, <2>2, Constantes DEF Actual, Claves, pid, sid
    <3> QED
      BY <1>6, <3>1
  <2> QED
    BY <2>1, <2>2
<1>15. PaginasDeSegmentos'
  <2> SUFFICES ASSUME NEW k \in Claves
               PROVE  Existe(k)' <=> DeUnSegmento(k)' /\ ~YaDestruida(k)'
    BY DEF PaginasDeSegmentos
  <2>1. ~YaDestruida(k)' /\ (Existe(k)' <=> Existe(k))
    BY <1>2 DEF YaDestruida, Existe
  <2>2. CASE k[1] = pid /\ k[2] = sid
    <3>1. YaDestruida(k) <=> k[3] < enCurso.pag
      BY <1>2, <1>3, <2>2 DEF YaDestruida, pid, sid
    <3>2. k[3] \in Nat
      BY Constantes DEF Claves
    <3>3. ~(DeUnSegmento(k) /\ ~YaDestruida(k))
      BY <1>3, <1>6, <1>13, <1>14, <2>2, <3>1, <3>2, NumPaginasNat
    <3> QED
      BY <1>13, <2>1, <2>2, <3>3 DEF IInv, PaginasDeSegmentos
  <2>3. CASE ~(k[1] = pid /\ k[2] = sid)
    <3>1. ~YaDestruida(k)
      BY <2>3 DEF YaDestruida, pid, sid
    <3> QED
      BY <1>13, <2>1, <2>3, <3>1 DEF IInv, PaginasDeSegmentos
  <2> QED
    BY <2>2, <2>3
<1>16. Marcacion'
  <2>1. MismosMarcos
    BY <1>2 DEF MismosMarcos, listas
  <2> QED
    BY <2>1, MarcacionMismosMarcos DEF IInv
<1>17. OperacionEnCurso'
  BY <1>2 DEF OperacionEnCurso
<1> QED
  BY <1>8, <1>11, <1>15, <1>16, <1>17 DEF IInv

-------------------------------------------------------------------------------
\* Every step preserves the inductive invariant.
LEMMA NextIInv == IInv /\ [Next]_vars => IInv'
<1> SUFFICES ASSUME IInv, [Next]_vars PROVE IInv'
  OBVIOUS
<1>1. CASE UNCHANGED vars
  <2>1. TypeOK'
    BY <1>1 DEF vars, IInv, TypeOK
  <2> QED
    BY <1>1, <2>1, SinCambios DEF vars
<1>2. ASSUME NEW h \in Hilos,
             \/ AdmitirSegmento(h) \/ AgregarSegmento(h)
             \/ SolicitarMemoria(h) \/ EscribirMemoria(h) \/ DestruirSegmento(h)
      PROVE  IInv'
  BY <1>2, AdmitirSegmentoIInv, AgregarSegmentoIInv, SolicitarMemoriaIInv,
     EscribirMemoriaIInv, DestruirSegmentoIInv
<1>3. CASE Paso
  <2>1. ASSUME NEW m \in Marcos, Desalojar(m) \/ SwapOutFalla(m)
        PROVE  IInv'
    BY <2>1, DesalojarIInv, SwapOutFallaIInv
  <2> QED
    BY <1>3, <2>1, SwapInIInv, SwapInFallaIInv, TomarMarcoVacioIInv, MemoriaLlenaIInv,
       SinVictimaIInv, CopiarPaginaIInv, DestruirPagIInv, QuitarSegmentoIInv DEF Paso
<1> QED
  BY <1>1, <1>2, <1>3 DEF Next

\* What the steps above add up to: the memory server keeps its inductive
\* invariant whatever threads, requests, evictions and failures of the disk.
THEOREM Inductivo == Spec => []IInv
  BY InitIInv, NextIInv, PTL DEF Spec

\* Every variable of the server keeps its type.
THEOREM TiposCorrectos == Spec => []TypeOK
<1>1. IInv => TypeOK
  BY DEF IInv
<1> QED
  BY <1>1, Inductivo, PTL

\* No frame is in both lists, none is listed twice, and none is lost unless a
\* swap file could not be created (crearMarcos, asignoMarcoAPagina, destruirPag).
THEOREM MarcosSiempreParticionados == Spec => []MarcosParticionados
<1>1. IInv => MarcosParticionados
  BY DEF IInv, Marcacion
<1> QED
  BY <1>1, Inductivo, PTL

\* A frame in use and its page name each other, and the page is listed for the
\* replacement algorithms (asignoMarcoAPagina, swapOutPagina, destruirPag).
THEOREM MarcoYPaginaSiempre == Spec => []MarcoYPagina
<1>1. IInv => MarcoYPagina
  BY DEF IInv, Marcacion
<1> QED
  BY <1>1, Inductivo, PTL

\* paginasEnMemoria lists resident pages only, each once (swapOutPagina removes
\* the victim although it looks for any page without a frame).
THEOREM ListadasSiempreResidentes == Spec => []ListadasResidentes
<1>1. IInv => ListadasResidentes
  BY DEF IInv, Marcacion
<1> QED
  BY <1>1, Inductivo, PTL

\* The pages are those of the segments, minus those a destruction in progress
\* has gone past (crearSegmento, destruirSegmento).
THEOREM PaginasSiempreDeSegmentos == Spec => []PaginasDeSegmentos
<1>1. IInv => PaginasDeSegmentos
  BY DEF IInv
<1> QED
  BY <1>1, Inductivo, PTL

\* The access in progress stays inside its segment and finds each page in the
\* situation its next step expects (solicitarMemoria, escribirMemoria).
THEOREM OperacionSiempreEnCurso == Spec => []OperacionEnCurso
<1>1. IInv => OperacionEnCurso
  BY DEF IInv
<1> QED
  BY <1>1, Inductivo, PTL

\* Two live segments of a process never share a SID (calcularProximoSID).
THEOREM SIDsSiempreCrecientes == Spec => []SIDsCrecientes
<1>1. IInv => SIDsCrecientes
  BY DEF IInv
<1> QED
  BY <1>1, Inductivo, PTL

-------------------------------------------------------------------------------
(* What is stored *)

\* No two pages have the same swap file.  The decimal numbers in the name are not
\* separated, so this is not so for every set of PIDs, SIDs and pages
\* (obtenerFilePath); it is when each has one digit (RutasDeUnaCifra).
RutasDistintas ==
  \A k, l \in Claves : obtenerFilePath(k) = obtenerFilePath(l) => k = l

Archivo(k) == archivos[obtenerFilePath(k)]

\* A page has a swap file when it is in swap, and then its frame of bytes is blank.
Disco ==
  \A k \in Claves :
    /\ Archivo(k) # Nada <=> Existe(k) /\ pagina[k].swapped
    /\ Existe(k) /\ pagina[k].swapped => pagina[k].data = PaginaVacia.data

\* The free swap space, with what makes the pages in swap countable.
Cuenta == IsFiniteSet(PaginasEnSwap) /\ SwapConservado

\* The bytes of a page, in memory and in swap, and those of a write in progress,
\* are bytes that its process writes.
PaginasPropias ==
  \A k \in Claves : \A d \in 0 .. TamPag - 1 :
    /\ Existe(k) => pagina[k].data[d] \in BytesDe(k[1])
    /\ Archivo(k) # Nada => Archivo(k)[d] \in BytesDe(k[1])

EscrituraPropia ==
  enCurso # Nada /\ enCurso.op = "escribir" =>
    \A i \in 1 .. Len(enCurso.bytes) : enCurso.bytes[i] \in BytesDe(enCurso.pid)

\* The inductive invariant about the contents of pages and files.
DInv == IInv /\ Disco /\ Cuenta /\ PaginasPropias /\ EscrituraPropia

-------------------------------------------------------------------------------
\* The initial states: no page, no file, all the swap space free.
LEMMA InitDInv == Init => DInv
<1> SUFFICES ASSUME Init PROVE DInv
  OBVIOUS
<1>1. IInv
  BY InitIInv
<1>2. \A k \in Claves : ~Existe(k) /\ Archivo(k) = Nada
  BY DEF Init, Existe, Archivo, Rutas
<1>3. PaginasEnSwap = {}
  BY <1>2 DEF PaginasEnSwap
<1>4. Cuenta
  <2>1. IsFiniteSet(PaginasEnSwap) /\ Cardinality(PaginasEnSwap) = 0
    BY <1>3, FS_EmptySet
  <2>2. cantidadSwap = CantidadSwap /\ CantidadSwap \in Nat /\ TamPag \in Nat
    BY Constantes DEF Init
  <2> QED
    BY <1>3, <2>1, <2>2 DEF Cuenta, SwapConservado
<1>5. Disco /\ PaginasPropias /\ EscrituraPropia
  BY <1>2 DEF Disco, PaginasPropias, EscrituraPropia, Init
<1> QED
  BY <1>1, <1>4, <1>5 DEF DInv

-------------------------------------------------------------------------------
\* The three ways in which the swap space and the pages in swap move together.

\* Nothing moves.
LEMMA CuentaIgual ==
  ASSUME Cuenta, PaginasEnSwap' = PaginasEnSwap, cantidadSwap' = cantidadSwap
  PROVE  Cuenta'
BY DEF Cuenta, SwapConservado

\* A page leaves the swap (swapInPagina, destruirPag).
LEMMA CuentaMenos ==
  ASSUME TypeOK, Cuenta, NEW k \in PaginasEnSwap,
         PaginasEnSwap' = PaginasEnSwap \ {k}, cantidadSwap' = cantidadSwap + TamPag
  PROVE  Cuenta'
<1> DEFINE c == Cardinality(PaginasEnSwap)
<1>1. /\ IsFiniteSet(PaginasEnSwap) /\ c \in Nat
      /\ IsFiniteSet(PaginasEnSwap \ {k}) /\ Cardinality(PaginasEnSwap \ {k}) = c - 1
  BY FS_RemoveElement, FS_CardinalityType DEF Cuenta
<1>2. Cardinality(PaginasEnSwap)' = c - 1 /\ IsFiniteSet(PaginasEnSwap)'
  BY <1>1
<1>3. /\ cantidadSwap \in Int /\ cantidadSwap >= 0 /\ cantidadSwap + TamPag * c = CantidadSwap
      /\ TamPag \in Nat \ {0} /\ CantidadSwap \in Nat
  BY Constantes DEF TypeOK, Cuenta, SwapConservado
<1> HIDE DEF c
<1>4. /\ cantidadSwap' + TamPag * (c - 1) = CantidadSwap
      /\ cantidadSwap' >= 0 /\ cantidadSwap' > 0
  BY <1>1, <1>3
<1> QED
  BY <1>2, <1>4 DEF Cuenta, SwapConservado

\* A page goes to swap, where there is more than one free page (swapOutPagina).
LEMMA CuentaMas ==
  ASSUME TypeOK, Cuenta, NEW k, k \notin PaginasEnSwap, HaySwap,
         PaginasEnSwap' = PaginasEnSwap \cup {k}, cantidadSwap' = cantidadSwap - TamPag
  PROVE  Cuenta'
<1> DEFINE c == Cardinality(PaginasEnSwap)
<1>1. /\ IsFiniteSet(PaginasEnSwap) /\ c \in Nat
      /\ IsFiniteSet(PaginasEnSwap \cup {k}) /\ Cardinality(PaginasEnSwap \cup {k}) = c + 1
  BY FS_AddElement, FS_CardinalityType DEF Cuenta
<1>2. Cardinality(PaginasEnSwap)' = c + 1 /\ IsFiniteSet(PaginasEnSwap)'
  BY <1>1
<1>3. /\ cantidadSwap \in Int /\ cantidadSwap > TamPag
      /\ cantidadSwap + TamPag * c = CantidadSwap
      /\ TamPag \in Nat \ {0} /\ CantidadSwap \in Nat
  BY Constantes DEF TypeOK, Cuenta, SwapConservado, HaySwap
<1> HIDE DEF c
<1>4. /\ cantidadSwap' + TamPag * (c + 1) = CantidadSwap
      /\ cantidadSwap' >= 0 /\ cantidadSwap' > 0
  BY <1>1, <1>3
<1> QED
  BY <1>2, <1>4 DEF Cuenta, SwapConservado

-------------------------------------------------------------------------------
\* A step that moves no bytes: neither what a page holds, nor which pages are in
\* swap, nor the files.
MismosDatos ==
  /\ UNCHANGED <<archivos, cantidadSwap>>
  /\ \A k \in Claves :
       /\ Existe(k)' <=> Existe(k)
       /\ Existe(k) => /\ pagina'[k].swapped = pagina[k].swapped
                       /\ pagina'[k].data = pagina[k].data

\* Such a step keeps what holds of pages and files.
LEMMA DatosMismosDatos ==
  ASSUME DInv, MismosDatos
  PROVE  Disco' /\ Cuenta' /\ PaginasPropias'
<1>1. \A k \in Claves : Archivo(k)' = Archivo(k)
  BY DEF MismosDatos, Archivo
<1>2. PaginasEnSwap' = PaginasEnSwap
  BY DEF MismosDatos, PaginasEnSwap
<1>3. Disco'
  BY <1>1 DEF DInv, Disco, MismosDatos
<1>4. Cuenta'
  BY <1>2, CuentaIgual DEF DInv, MismosDatos
<1>5. PaginasPropias'
  <2> SUFFICES ASSUME NEW k \in Claves, NEW d \in 0 .. TamPag - 1
               PROVE  /\ Existe(k)' => pagina'[k].data[d] \in BytesDe(k[1])
                      /\ Archivo(k)' # Nada => Archivo(k)'[d] \in BytesDe(k[1])
    BY DEF PaginasPropias
  <2> QED
    BY <1>1 DEF DInv, PaginasPropias, MismosDatos
<1> QED
  BY <1>3, <1>4, <1>5

\* A step that leaves the pages alone moves no bytes.
LEMMA SinTocarPaginas ==
  ASSUME UNCHANGED <<pagina, archivos, cantidadSwap>>
  PROVE  MismosDatos
BY DEF MismosDatos, Existe

\* The bytes of a write in progress stay its process's.
LEMMA MismaEscritura ==
  ASSUME EscrituraPropia,
         \/ enCurso' = Nada \/ enCurso' = enCurso
         \/ enCurso'.op # "escribir"
         \/ /\ enCurso # Nada /\ enCurso.op = "escribir"
            /\ enCurso'.bytes = enCurso.bytes /\ enCurso'.pid = enCurso.pid
  PROVE  EscrituraPropia'
<1>1. \A pid : BytesDe(pid)' = BytesDe(pid)
  BY DEF BytesDe
<1> QED
  BY <1>1 DEF EscrituraPropia

-------------------------------------------------------------------------------
\* The requests, and the steps that touch no page.

\* crearSegmento, up to its admission test.
LEMMA AdmitirSegmentoDInv ==
  ASSUME DInv, NEW h \in Hilos, AdmitirSegmento(h)
  PROVE  Disco' /\ Cuenta' /\ PaginasPropias' /\ EscrituraPropia'
<1>1. UNCHANGED <<pagina, archivos, cantidadSwap, enCurso>>
  BY DEF AdmitirSegmento
<1> QED
  BY <1>1, SinTocarPaginas, DatosMismosDatos, MismaEscritura DEF DInv

\* The validation of a request: what a write brings is its process's.
LEMMA AccederDInv ==
  ASSUME DInv, NEW h \in Hilos, SolicitarMemoria(h) \/ EscribirMemoria(h)
  PROVE  Disco' /\ Cuenta' /\ PaginasPropias' /\ EscrituraPropia'
<1>1. UNCHANGED <<pagina, archivos, cantidadSwap>>
  BY DEF SolicitarMemoria, EscribirMemoria, Acceder
<1>2. CASE SolicitarMemoria(h)
  <2>1. enCurso' = enCurso \/ enCurso'.op = "solicitar"
    BY <1>2 DEF SolicitarMemoria, Acceder
  <2>2. EscrituraPropia'
    BY <2>1, MismaEscritura DEF DInv
  <2> QED
    BY <1>1, <2>2, SinTocarPaginas, DatosMismosDatos
<1>3. CASE EscribirMemoria(h)
  <2>1. PICK r \in Escrituras : Acceder(h, "escribir", r, Len(r.bytes), r.bytes)
    BY <1>3 DEF EscribirMemoria
  <2>2. \A i \in 1 .. Len(r.bytes) : r.bytes[i] \in BytesDe(r.pid)
    <3>1. r.bytes \in Seq(Bytes)
      BY Constantes
    <3>2. \A i \in 1 .. Len(r.bytes) : r.bytes[i] \in Range(r.bytes)
      BY <3>1 DEF Range
    <3> QED
      BY <3>2 DEF BytesDe
  <2>3. EscrituraPropia'
    <3>1. CASE UNCHANGED enCurso
      BY <3>1, MismaEscritura DEF DInv
    <3>2. CASE enCurso'.bytes = r.bytes /\ enCurso'.pid = r.pid
      <4>1. BytesDe(enCurso.pid)' = BytesDe(r.pid)
        BY <3>2 DEF BytesDe
      <4> QED
        BY <2>2, <3>2, <4>1 DEF EscrituraPropia
    <3> QED
      BY <2>1, <3>1, <3>2 DEF Acceder
  <2> QED
    BY <1>1, <2>3, SinTocarPaginas, DatosMismosDatos
<1> QED
  BY <1>2, <1>3

\* Failures, and the requests and the end of destruirSegmento.
LEMMA SinPaginasDInv ==
  ASSUME DInv,
         \/ SwapInFalla \/ MemoriaLlena \/ SinVictima \/ QuitarSegmento
         \/ \E h \in Hilos : DestruirSegmento(h)
         \/ UNCHANGED vars
  PROVE  Disco' /\ Cuenta' /\ PaginasPropias' /\ EscrituraPropia'
<1>1. UNCHANGED <<pagina, archivos, cantidadSwap>>
  BY DEF SwapInFalla, MemoriaLlena, SinVictima, QuitarSegmento, DestruirSegmento, vars, listas
<1>2. enCurso' = Nada \/ enCurso' = enCurso \/ enCurso'.op = "destruir"
  BY DEF SwapInFalla, MemoriaLlena, SinVictima, QuitarSegmento, DestruirSegmento, vars, Fracasar
<1>3. EscrituraPropia'
  BY <1>2, MismaEscritura DEF DInv
<1> QED
  BY <1>1, <1>3, SinTocarPaginas, DatosMismosDatos

-------------------------------------------------------------------------------
\* The steps that move pages but no bytes.

\* asignoMarcoAPagina with a free frame.
LEMMA TomarMarcoVacioDatos ==
  ASSUME DInv, TomarMarcoVacio
  PROVE  MismosDatos
<1>1. /\ enCurso # Nada /\ enCurso.paso = "marco"
      /\ pagina' = [pagina EXCEPT ![Actual].marcoID = Head(marcosVacios),
                                  ![Actual].bitReferencia = 1]
      /\ UNCHANGED <<archivos, cantidadSwap>>
      /\ enCurso' = [enCurso EXCEPT !.paso = "copia"]
  BY DEF TomarMarcoVacio, En
<1>2. /\ enCurso \in Operaciones /\ Actual \in Claves /\ pagina[Actual] \in Paginas
  BY <1>1, ActualExiste DEF DInv, IInv
<1>3. /\ pagina'[Actual] = [pagina[Actual] EXCEPT !.marcoID = Head(marcosVacios),
                                                  !.bitReferencia = 1]
      /\ \A k \in Claves : k # Actual => pagina'[k] = pagina[k]
  BY <1>1, <1>2 DEF DInv, IInv, TypeOK
<1>4. /\ pagina'[Actual].swapped = pagina[Actual].swapped
      /\ pagina'[Actual].data = pagina[Actual].data
  BY <1>2, <1>3 DEF Paginas
<1>5. pagina[Actual] # Nada
  BY <1>2, NadaEsOtro
<1>6. pagina'[Actual] # Nada
  <2>1. Head(marcosVacios) \in Marcos
    BY RangoTail DEF DInv, IInv, TypeOK, TomarMarcoVacio
  <2>2. pagina'[Actual] \in Paginas
    BY <1>2, <1>3, <2>1 DEF Paginas
  <2> QED
    BY <2>2, NadaEsOtro
<1> QED
  BY <1>1, <1>3, <1>4, <1>5, <1>6 DEF MismosDatos, Existe

\* asignoMarcoAPagina with a free frame: the write goes on.
LEMMA TomarMarcoVacioDInv ==
  ASSUME DInv, TomarMarcoVacio
  PROVE  Disco' /\ Cuenta' /\ PaginasPropias' /\ EscrituraPropia'
<1>1. /\ enCurso # Nada /\ enCurso.paso = "marco"
      /\ enCurso' = [enCurso EXCEPT !.paso = "copia"]
  BY DEF TomarMarcoVacio, En
<1>2. enCurso \in Operaciones
  BY <1>1, ActualExiste DEF DInv, IInv
<1>7. MismosDatos
  BY TomarMarcoVacioDatos
<1>8. EscrituraPropia'
  <2>1. enCurso'.bytes = enCurso.bytes /\ enCurso'.pid = enCurso.pid /\ enCurso'.op = enCurso.op
    BY <1>1, <1>2 DEF Operaciones
  <2> QED
    BY <1>1, <2>1, MismaEscritura DEF DInv
<1> QED
  BY <1>7, <1>8, DatosMismosDatos

\* The search for a victim leaves the bytes and the counters alone.
LEMMA RepasarDatos ==
  ASSUME IInv
  PROVE  \A k \in Claves : pagina[k] # Nada =>
           /\ Repasar[k].data = pagina[k].data
           /\ Repasar[k].contadorLRU = pagina[k].contadorLRU
<1> SUFFICES ASSUME NEW k \in Claves, pagina[k] # Nada
             PROVE  /\ Repasar[k].data = pagina[k].data
                    /\ Repasar[k].contadorLRU = pagina[k].contadorLRU
  OBVIOUS
<1>1. pagina[k] \in Paginas
  BY DEF IInv, TypeOK
<1> QED
  BY <1>1 DEF Repasar, Paginas

\* A swap file that cannot be created.
LEMMA SwapOutFallaDatos ==
  ASSUME DInv, NEW m \in Marcos, SwapOutFalla(m)
  PROVE  MismosDatos
<1>1. pagina' = Repasar /\ UNCHANGED <<archivos, cantidadSwap>>
  BY DEF SwapOutFalla
<1> QED
  BY <1>1, RepasarPaginas, RepasarDatos DEF MismosDatos, Existe, DInv

\* The access fails with it.
LEMMA SwapOutFallaDInv ==
  ASSUME DInv, NEW m \in Marcos, SwapOutFalla(m)
  PROVE  Disco' /\ Cuenta' /\ PaginasPropias' /\ EscrituraPropia'
<1>1. enCurso' = Nada
  BY DEF SwapOutFalla, Fracasar
<1> QED
  BY <1>1, SwapOutFallaDatos, DatosMismosDatos, MismaEscritura DEF DInv

-------------------------------------------------------------------------------
\* calcularProximoSID gives a SID that no segment of the process has.
LEMMA SIDNuevo ==
  ASSUME IInv, NEW pid \in PIDs
  PROVE  /\ calcularProximoSID(pid) \in Nat
         /\ \A i \in DOMAIN segmentos[pid] : segmentos[pid][i].sid < calcularProximoSID(pid)
<1> DEFINE s == segmentos[pid]
           u == Len(s)
<1>1. s \in Seq(Segmentos) /\ u \in Nat /\ DOMAIN s = 1 .. u
  BY DEF IInv, TypeOK
<1>2. \A i, j \in DOMAIN s : i < j => s[i].sid < s[j].sid
  BY DEF IInv, SIDsCrecientes
<1>3. calcularProximoSID(pid) = IF s = <<>> THEN 0 ELSE s[u].sid + 1
  BY DEF calcularProximoSID
<1> HIDE DEF s, u
<1>4. \A i \in DOMAIN s : s[i].sid \in Nat
  <2>1. \A i \in DOMAIN s : s[i] \in Segmentos
    BY <1>1
  <2> QED
    BY <2>1, Constantes DEF Segmentos, SIDs
<1>5. CASE s = <<>>
  <2>1. DOMAIN s = {}
    BY <1>5
  <2> QED
    BY <1>3, <1>5, <2>1 DEF s
<1>6. CASE s # <<>>
  <2>1. u \in DOMAIN s
    BY <1>1, <1>6 DEF u
  <2>2. \A i \in DOMAIN s : s[i].sid <= s[u].sid
    <3> SUFFICES ASSUME NEW i \in 1 .. u PROVE s[i].sid <= s[u].sid
      BY <1>1
    <3>1. CASE i = u
      BY <1>4, <2>1, <3>1
    <3>2. CASE i < u
      BY <1>1, <1>2, <1>4, <2>1, <3>2
    <3> QED
      BY <1>1, <3>1, <3>2
  <2>3. s[u].sid \in Nat
    BY <1>4, <2>1
  <2>4. \A i \in DOMAIN s : s[i].sid < s[u].sid + 1
    BY <1>4, <2>2, <2>3
  <2> QED
    BY <1>3, <1>6, <2>3, <2>4 DEF s
<1> QED
  BY <1>5, <1>6

\* crearSegmento: its pages are blank, and they were not there.
LEMMA AgregarSegmentoDInv ==
  ASSUME DInv, NEW h \in Hilos, AgregarSegmento(h)
  PROVE  Disco' /\ Cuenta' /\ PaginasPropias' /\ EscrituraPropia'
<1> DEFINE pid == solicitud[h].pid
           sid == calcularProximoSID(pid)
           n == NumPaginas(solicitud[h].tamanio)
           nueva(k) == k[1] = pid /\ k[2] = sid /\ k[3] < n
<1>1. /\ solicitud[h] # Nada
      /\ pagina' = [k \in Claves |-> IF nueva(k) THEN PaginaVacia ELSE pagina[k]]
      /\ UNCHANGED <<archivos, cantidadSwap, enCurso>>
  BY DEF AgregarSegmento, crearPaginasPorTamanioSegmento
<1>2. \A k \in Claves : nueva(k) => ~Existe(k)
  <2> SUFFICES ASSUME NEW k \in Claves, nueva(k), Existe(k) PROVE FALSE
    OBVIOUS
  <2>1. pid \in PIDs
    BY <1>1 DEF DInv, IInv, TypeOK, Solicitudes
  <2>2. PICK i \in DOMAIN segmentos[pid] : segmentos[pid][i].sid = sid
    BY DEF DInv, IInv, PaginasDeSegmentos, DeUnSegmento
  <2>3. segmentos[pid][i].sid < sid /\ sid \in Nat
    BY <2>1, <2>2, SIDNuevo DEF DInv
  <2> HIDE DEF sid
  <2> QED
    BY <2>2, <2>3
<1> HIDE DEF nueva
<1>3. \A k \in Claves : pagina'[k] = IF nueva(k) THEN PaginaVacia ELSE pagina[k]
  BY <1>1
<1>4. /\ PaginaVacia # Nada /\ PaginaVacia.swapped = FALSE
      /\ \A d \in 0 .. TamPag - 1 : PaginaVacia.data[d] = 0
  BY PaginaVaciaTipo, NadaEsOtro DEF PaginaVacia
<1>5. \A k \in Claves : Archivo(k)' = Archivo(k)
  BY <1>1 DEF Archivo
<1>6. \A k \in Claves : Existe(k)' <=> Existe(k) \/ nueva(k)
  BY <1>3, <1>4 DEF Existe
<1>7. Disco'
  BY <1>2, <1>3, <1>4, <1>5, <1>6 DEF DInv, Disco
<1>8. Cuenta'
  <2>1. PaginasEnSwap' = PaginasEnSwap
    BY <1>2, <1>3, <1>4, <1>6 DEF PaginasEnSwap
  <2> QED
    BY <1>1, <2>1, CuentaIgual DEF DInv
<1>9. PaginasPropias'
  <2> SUFFICES ASSUME NEW k \in Claves, NEW d \in 0 .. TamPag - 1
               PROVE  /\ Existe(k)' => pagina'[k].data[d] \in BytesDe(k[1])
                      /\ Archivo(k)' # Nada => Archivo(k)'[d] \in BytesDe(k[1])
    BY DEF PaginasPropias
  <2>1. 0 \in BytesDe(k[1])
    BY DEF BytesDe
  <2> QED
    BY <1>3, <1>4, <1>5, <1>6, <2>1 DEF DInv, PaginasPropias
<1>10. EscrituraPropia'
  BY <1>1, MismaEscritura DEF DInv
<1> QED
  BY <1>7, <1>8, <1>9, <1>10

-------------------------------------------------------------------------------
\* The steps that move bytes.

\* The swap file of one page changes, and of no other.
LEMMA UnSoloArchivo ==
  ASSUME RutasDistintas, TypeOK, NEW a \in Claves, NEW x,
         archivos' = [archivos EXCEPT ![obtenerFilePath(a)] = x]
  PROVE  \A k \in Claves : Archivo(k)' = IF k = a THEN x ELSE Archivo(k)
<1> SUFFICES ASSUME NEW k \in Claves
             PROVE  archivos'[obtenerFilePath(k)] =
                      IF k = a THEN x ELSE archivos[obtenerFilePath(k)]
  BY DEF Archivo
<1>1. obtenerFilePath(k) \in Rutas /\ obtenerFilePath(a) \in Rutas
  BY DEF Rutas
<1>2. obtenerFilePath(k) = obtenerFilePath(a) => k = a
  BY DEF RutasDistintas
<1> QED
  BY <1>1, <1>2 DEF TypeOK

\* What swapInPagina makes of pages and files.
LEMMA SwapInPaginas ==
  ASSUME RutasDistintas, DInv, SwapIn
  PROVE  /\ enCurso # Nada /\ enCurso \in Operaciones /\ enCurso.op # "destruir"
         /\ enCurso' = [enCurso EXCEPT !.paso = "marco"]
         /\ Actual \in Claves /\ pagina[Actual] \in Paginas
         /\ Existe(Actual) /\ pagina[Actual].swapped /\ Archivo(Actual) # Nada
         /\ pagina'[Actual].data = HastaNul(Archivo(Actual), pagina[Actual].data)
         /\ pagina'[Actual].swapped = FALSE
         /\ \A k \in Claves : k # Actual => pagina'[k] = pagina[k]
         /\ \A k \in Claves : Archivo(k)' = IF k = Actual THEN Nada ELSE Archivo(k)
         /\ cantidadSwap' = cantidadSwap + TamPag
<1> DEFINE traidos == HastaNul(Archivo(Actual), pagina[Actual].data)
<1>1. /\ enCurso # Nada /\ enCurso.paso = "swapin" /\ Archivo(Actual) # Nada
      /\ pagina' = [pagina EXCEPT ![Actual].data = HastaNul(Archivo(Actual), @),
                                  ![Actual].swapped = FALSE]
      /\ archivos' = [archivos EXCEPT ![obtenerFilePath(Actual)] = Nada]
      /\ cantidadSwap' = cantidadSwap + TamPag
      /\ enCurso' = [enCurso EXCEPT !.paso = "marco"]
  BY DEF SwapIn, En, Archivo
<1>2. /\ enCurso \in Operaciones /\ enCurso.op # "destruir"
      /\ Actual \in Claves /\ pagina[Actual] \in Paginas
  BY <1>1, ActualExiste DEF DInv, IInv
<1>3. Existe(Actual) /\ pagina[Actual].swapped
  BY <1>1, <1>2 DEF DInv, Disco
<1>4. pagina'[Actual] = [pagina[Actual] EXCEPT !.data = traidos, !.swapped = FALSE]
  BY <1>1, <1>2 DEF DInv, IInv, TypeOK
<1>5. pagina'[Actual].data = traidos /\ pagina'[Actual].swapped = FALSE
  BY <1>2, <1>4 DEF Paginas
<1>6. \A k \in Claves : k # Actual => pagina'[k] = pagina[k]
  BY <1>1, <1>2 DEF DInv, IInv, TypeOK
<1>7. \A k \in Claves : Archivo(k)' = IF k = Actual THEN Nada ELSE Archivo(k)
  BY <1>1, <1>2, UnSoloArchivo DEF DInv, IInv
<1> QED
  BY <1>1, <1>2, <1>3, <1>5, <1>6, <1>7

\* swapInPagina: the bytes come back from the page's own file.
LEMMA SwapInDInv ==
  ASSUME RutasDistintas, DInv, SwapIn
  PROVE  Disco' /\ Cuenta' /\ PaginasPropias' /\ EscrituraPropia'
<1> DEFINE traidos == HastaNul(Archivo(Actual), pagina[Actual].data)
<1>1. /\ enCurso # Nada /\ Archivo(Actual) # Nada
      /\ cantidadSwap' = cantidadSwap + TamPag
      /\ enCurso' = [enCurso EXCEPT !.paso = "marco"]
  BY SwapInPaginas
<1>2. /\ enCurso \in Operaciones /\ Actual \in Claves /\ pagina[Actual] \in Paginas
  BY SwapInPaginas
<1>3. Existe(Actual) /\ pagina[Actual].swapped
  BY SwapInPaginas
<1>5. pagina'[Actual].data = traidos /\ pagina'[Actual].swapped = FALSE
  BY SwapInPaginas
<1>6. \A k \in Claves : k # Actual => pagina'[k] = pagina[k]
  BY SwapInPaginas
<1>7. \A k \in Claves : Archivo(k)' = IF k = Actual THEN Nada ELSE Archivo(k)
  BY SwapInPaginas
<1>8. Disco'
  <2> SUFFICES ASSUME NEW k \in Claves
               PROVE  /\ Archivo(k)' # Nada <=> Existe(k)' /\ pagina'[k].swapped
                      /\ Existe(k)' /\ pagina'[k].swapped => pagina'[k].data = PaginaVacia.data
    BY DEF Disco, PaginaVacia
  <2>1. CASE k = Actual
    BY <1>5, <1>7, <2>1
  <2>2. CASE k # Actual
    BY <1>6, <1>7, <2>2 DEF DInv, Disco, Existe
  <2> QED
    BY <2>1, <2>2
<1>9. Cuenta'
  <2>1. Actual \in PaginasEnSwap
    BY <1>2, <1>3 DEF PaginasEnSwap
  <2>2. PaginasEnSwap' = PaginasEnSwap \ {Actual}
    BY <1>5, <1>6 DEF PaginasEnSwap, Existe
  <2> QED
    BY <1>1, <2>1, <2>2, CuentaMenos DEF DInv, IInv
<1>10. PaginasPropias'
  <2> SUFFICES ASSUME NEW k \in Claves, NEW d \in 0 .. TamPag - 1
               PROVE  /\ Existe(k)' => pagina'[k].data[d] \in BytesDe(k[1])
                      /\ Archivo(k)' # Nada => Archivo(k)'[d] \in BytesDe(k[1])
    BY DEF PaginasPropias, BytesDe
  <2>1. CASE k = Actual
    <3>1. traidos[d] = Archivo(k)[d] \/ traidos[d] = pagina[k].data[d]
      BY <2>1 DEF HastaNul
    <3>2. Archivo(k)[d] \in BytesDe(k[1]) /\ pagina[k].data[d] \in BytesDe(k[1])
      BY <1>1, <1>3, <2>1 DEF DInv, PaginasPropias
    <3> QED
      BY <1>5, <1>7, <2>1, <3>1, <3>2
  <2>2. CASE k # Actual
    BY <1>6, <1>7, <2>2 DEF DInv, PaginasPropias, Existe
  <2> QED
    BY <2>1, <2>2
<1>11. EscrituraPropia'
  <2>1. enCurso'.bytes = enCurso.bytes /\ enCurso'.pid = enCurso.pid /\ enCurso'.op = enCurso.op
    BY <1>1, <1>2 DEF Operaciones
  <2> QED
    BY <1>1, <2>1, MismaEscritura DEF DInv
<1> QED
  BY <1>8, <1>9, <1>10, <1>11

\* What swapOutPagina and the assignment of the frame make of the pages.
LEMMA DesalojarPaginas ==
  ASSUME IInv, NEW m \in Marcos, Desalojar(m)
  PROVE  /\ enCurso \in Operaciones /\ Actual \in Claves /\ pagina[Actual] \in Paginas
         /\ enCurso' = [enCurso EXCEPT !.paso = "copia"]
         /\ marco[m] \in Claves /\ pagina[marco[m]] \in Paginas /\ marco[m] # Actual
         /\ ~pagina[marco[m]].swapped /\ ~pagina[Actual].swapped
         /\ archivos' = [archivos EXCEPT ![obtenerFilePath(marco[m])] = pagina[marco[m]].data]
         /\ cantidadSwap' = cantidadSwap - TamPag /\ HaySwap
         /\ \A k \in Claves : Existe(k)' <=> Existe(k)
         /\ pagina'[marco[m]].swapped = TRUE /\ pagina'[marco[m]].data = PaginaVacia.data
         /\ \A k \in Claves : Existe(k) /\ k # marco[m] =>
              /\ pagina'[k].swapped = pagina[k].swapped
              /\ pagina'[k].data = pagina[k].data
         /\ \A k \in Claves : Existe(k) => pagina'[k].contadorLRU = pagina[k].contadorLRU
         /\ pagina[marco[m]].marcoID = m /\ pagina'[marco[m]].marcoID = SinMarco
<1> DEFINE v == marco[m]
           r == Repasar
<1>1. /\ enCurso # Nada /\ enCurso.paso = "marco" /\ ~PaginaLiberada
      /\ m \in marcosLlenos /\ HaySwap
      /\ archivos' = [archivos EXCEPT ![obtenerFilePath(v)] = pagina[v].data]
      /\ pagina' = [r EXCEPT
           ![v].swapped = TRUE,
           ![v].marcoID = SinMarco,
           ![v].data = PaginaVacia.data,
           ![Actual].marcoID = m,
           ![Actual].bitReferencia = 1]
      /\ cantidadSwap' = cantidadSwap - TamPag
      /\ enCurso' = [enCurso EXCEPT !.paso = "copia"]
  BY DEF Desalojar, BuscaVictima, En
<1>2. enCurso \in Operaciones /\ Actual \in Claves /\ pagina[Actual] \in Paginas
  BY <1>1, ActualExiste DEF IInv
<1>3. pagina[Actual].marcoID = SinMarco /\ ~pagina[Actual].swapped
  BY <1>1 DEF IInv, OperacionEnCurso
<1>4. /\ v \in Claves /\ pagina[v] \in Paginas /\ pagina[v].marcoID = m
      /\ m # SinMarco
  <2>1. v \in Claves /\ pagina[v] \in Paginas /\ pagina[v].marcoID = m
    BY <1>1 DEF IInv, TypeOK, Marcacion, MarcoYPagina, Existe
  <2>2. m # SinMarco
    BY Constantes DEF Marcos, SinMarco
  <2> QED
    BY <2>1, <2>2
<1>5. v # Actual
  BY <1>3, <1>4
<1>6. ~pagina[v].swapped
  BY <1>4, NadaEsOtro DEF IInv, Marcacion, MarcoYPagina, Existe
<1>7. /\ r \in [Claves -> Paginas \cup {Nada}]
      /\ \A k \in Claves :
           /\ r[k] = Nada <=> pagina[k] = Nada
           /\ pagina[k] # Nada => /\ r[k] \in Paginas
                                  /\ r[k].marcoID = pagina[k].marcoID
                                  /\ r[k].swapped = pagina[k].swapped
                                  /\ r[k].data = pagina[k].data
                                  /\ r[k].contadorLRU = pagina[k].contadorLRU
  BY RepasarPaginas, RepasarDatos
<1> HIDE DEF v, r
<1>8. /\ pagina'[v] = [r[v] EXCEPT !.swapped = TRUE, !.marcoID = SinMarco,
                                   !.data = PaginaVacia.data]
      /\ pagina'[Actual] = [r[Actual] EXCEPT !.marcoID = m, !.bitReferencia = 1]
      /\ \A k \in Claves : k # v /\ k # Actual => pagina'[k] = r[k]
  BY <1>1, <1>2, <1>4, <1>5, <1>7
<1>9. r[v] \in Paginas /\ r[Actual] \in Paginas
  BY <1>2, <1>4, <1>7, NadaEsOtro
<1>10. /\ pagina'[v].swapped = TRUE /\ pagina'[v].data = PaginaVacia.data
       /\ pagina'[Actual].swapped = r[Actual].swapped
       /\ pagina'[Actual].data = r[Actual].data
       /\ pagina'[v].contadorLRU = r[v].contadorLRU
       /\ pagina'[Actual].contadorLRU = r[Actual].contadorLRU
  BY <1>8, <1>9 DEF Paginas
<1>11. pagina'[v] # Nada /\ pagina'[Actual] # Nada
  <2>1. PaginaVacia.data \in Datos
    BY PaginaVaciaTipo DEF Paginas
  <2>2. pagina'[v] \in Paginas /\ pagina'[Actual] \in Paginas
    BY <1>8, <1>9, <2>1 DEF Paginas
  <2> QED
    BY <2>2, NadaEsOtro
<1>12. pagina[v] # Nada /\ pagina[Actual] # Nada
  BY <1>2, <1>4, NadaEsOtro
<1>13. \A k \in Claves : Existe(k)' <=> Existe(k)
  BY <1>7, <1>8, <1>11, <1>12 DEF Existe
<1>14. \A k \in Claves : Existe(k) /\ k # v =>
         /\ pagina'[k].swapped = pagina[k].swapped
         /\ pagina'[k].data = pagina[k].data
  <2> SUFFICES ASSUME NEW k \in Claves, pagina[k] # Nada, k # v
               PROVE  /\ pagina'[k].swapped = pagina[k].swapped
                      /\ pagina'[k].data = pagina[k].data
    BY DEF Existe
  <2>1. r[k].swapped = pagina[k].swapped /\ r[k].data = pagina[k].data
    BY <1>7
  <2>2. pagina'[k].swapped = r[k].swapped /\ pagina'[k].data = r[k].data
    BY <1>8, <1>10
  <2> QED
    BY <2>1, <2>2
<1>15. \A k \in Claves : Existe(k) => pagina'[k].contadorLRU = pagina[k].contadorLRU
  <2> SUFFICES ASSUME NEW k \in Claves, pagina[k] # Nada
               PROVE  pagina'[k].contadorLRU = pagina[k].contadorLRU
    BY DEF Existe
  <2>1. r[k].contadorLRU = pagina[k].contadorLRU
    BY <1>7
  <2>2. pagina'[k].contadorLRU = r[k].contadorLRU
    BY <1>8, <1>10
  <2> QED
    BY <2>1, <2>2
<1>16. pagina'[v].marcoID = SinMarco
  BY <1>8, <1>9 DEF Paginas
<1> QED
  BY <1>1, <1>2, <1>3, <1>4, <1>5, <1>6, <1>10, <1>13, <1>14, <1>15, <1>16 DEF v

\* The pages other than the victim and the one that gets the frame keep theirs.
LEMMA DesalojarMarcos ==
  ASSUME IInv, NEW m \in Marcos, Desalojar(m),
         NEW k \in Claves, Existe(k), k # marco[m], k # Actual
  PROVE  pagina'[k].marcoID = pagina[k].marcoID
<1> DEFINE v == marco[m]
           r == Repasar
<1>1. pagina' = [r EXCEPT
           ![v].swapped = TRUE,
           ![v].marcoID = SinMarco,
           ![v].data = PaginaVacia.data,
           ![Actual].marcoID = m,
           ![Actual].bitReferencia = 1]
  BY DEF Desalojar, BuscaVictima
<1>2. r \in [Claves -> Paginas \cup {Nada}] /\ r[k].marcoID = pagina[k].marcoID
  BY RepasarPaginas DEF Existe
<1>3. k # v
  OBVIOUS
<1> HIDE DEF v, r
<1>4. pagina'[k] = r[k]
  BY <1>1, <1>2, <1>3
<1> QED
  BY <1>2, <1>4

\* The evicted page's bytes go to its own file.
LEMMA DesalojarArchivo ==
  ASSUME RutasDistintas, IInv, NEW m \in Marcos, Desalojar(m)
  PROVE  /\ Existe(marco[m]) /\ pagina[marco[m]].data \in Datos /\ pagina[marco[m]].data # Nada
         /\ \A k \in Claves :
              Archivo(k)' = IF k = marco[m] THEN pagina[marco[m]].data ELSE Archivo(k)
<1>1. /\ marco[m] \in Claves /\ pagina[marco[m]] \in Paginas
      /\ archivos' = [archivos EXCEPT ![obtenerFilePath(marco[m])] = pagina[marco[m]].data]
  BY DesalojarPaginas
<1>2. pagina[marco[m]].data \in Datos
  BY <1>1 DEF Paginas
<1>3. Existe(marco[m]) /\ pagina[marco[m]].data # Nada
  BY <1>1, <1>2, NadaEsOtro DEF Existe
<1> QED
  BY <1>1, <1>2, <1>3, UnSoloArchivo DEF IInv

\* asignoMarcoAPagina evicts a page, which goes to swap.
LEMMA DesalojarDInv ==
  ASSUME RutasDistintas, DInv, NEW m \in Marcos, Desalojar(m)
  PROVE  Disco' /\ Cuenta' /\ PaginasPropias' /\ EscrituraPropia'
<1> DEFINE v == marco[m]
<1>1. /\ enCurso \in Operaciones /\ enCurso' = [enCurso EXCEPT !.paso = "copia"]
      /\ v \in Claves /\ pagina[v] \in Paginas /\ ~pagina[v].swapped
      /\ cantidadSwap' = cantidadSwap - TamPag /\ HaySwap
      /\ \A k \in Claves : Existe(k)' <=> Existe(k)
      /\ pagina'[v].swapped = TRUE /\ pagina'[v].data = PaginaVacia.data
      /\ \A k \in Claves : Existe(k) /\ k # v =>
           /\ pagina'[k].swapped = pagina[k].swapped
           /\ pagina'[k].data = pagina[k].data
  BY DesalojarPaginas DEF DInv
<1>2. Existe(v) /\ pagina[v].data \in Datos /\ pagina[v].data # Nada
  BY DesalojarArchivo DEF DInv
<1>3. \A k \in Claves : Archivo(k)' = IF k = v THEN pagina[v].data ELSE Archivo(k)
  BY DesalojarArchivo DEF DInv
<1> HIDE DEF v
<1>4. Disco'
  <2> SUFFICES ASSUME NEW k \in Claves
               PROVE  /\ Archivo(k)' # Nada <=> Existe(k)' /\ pagina'[k].swapped
                      /\ Existe(k)' /\ pagina'[k].swapped => pagina'[k].data = PaginaVacia.data
    BY DEF Disco, PaginaVacia
  <2>1. CASE k = v
    BY <1>1, <1>2, <1>3, <2>1
  <2>2. CASE k # v
    BY <1>1, <1>3, <2>2 DEF DInv, Disco
  <2> QED
    BY <2>1, <2>2
<1>5. Cuenta'
  <2>1. v \notin PaginasEnSwap
    BY <1>1 DEF PaginasEnSwap
  <2>2. PaginasEnSwap' = PaginasEnSwap \cup {v}
    BY <1>1, <1>2 DEF PaginasEnSwap
  <2> QED
    BY <1>1, <2>1, <2>2, CuentaMas DEF DInv, IInv
<1>6. PaginasPropias'
  <2> SUFFICES ASSUME NEW k \in Claves, NEW d \in 0 .. TamPag - 1
               PROVE  /\ Existe(k)' => pagina'[k].data[d] \in BytesDe(k[1])
                      /\ Archivo(k)' # Nada => Archivo(k)'[d] \in BytesDe(k[1])
    BY DEF PaginasPropias, BytesDe
  <2>1. CASE k = v
    <3>1. PaginaVacia.data[d] = 0 /\ 0 \in BytesDe(k[1])
      BY DEF PaginaVacia, BytesDe
    <3>2. pagina[v].data[d] \in BytesDe(k[1])
      BY <1>2, <2>1 DEF DInv, PaginasPropias
    <3> QED
      BY <1>1, <1>3, <2>1, <3>1, <3>2
  <2>2. CASE k # v
    BY <1>1, <1>3, <2>2 DEF DInv, PaginasPropias
  <2> QED
    BY <2>1, <2>2
<1>7. EscrituraPropia'
  <2>1. enCurso'.bytes = enCurso.bytes /\ enCurso'.pid = enCurso.pid /\ enCurso'.op = enCurso.op
    BY <1>1 DEF Operaciones
  <2>2. enCurso # Nada
    BY <1>1, NadaEsOtro
  <2> QED
    BY <2>1, <2>2, MismaEscritura DEF DInv
<1> QED
  BY <1>4, <1>5, <1>6, <1>7

\* What leoMemoria and escriboMemoria make of pages.
LEMMA CopiarPaginas ==
  ASSUME IInv, CopiarPagina
  PROVE  /\ enCurso # Nada /\ enCurso \in Operaciones
         /\ enCurso.op \in {"solicitar", "escribir"}
         /\ Actual \in Claves /\ pagina[Actual] \in Paginas /\ Existe(Actual)
         /\ ~pagina[Actual].swapped
         /\ Copiada \in Paginas /\ Copiada.swapped = pagina[Actual].swapped
         /\ Copiada.data = IF enCurso.op = "escribir" THEN Escrito ELSE pagina[Actual].data
         /\ \A k \in Claves : pagina'[k] = IF k = Actual THEN Copiada ELSE pagina[k]
         /\ \A k \in Claves : Existe(k)' <=> Existe(k)
         /\ \A k \in Claves : Archivo(k)' = Archivo(k)
         /\ Tramo \in Nat /\ Tramo <= enCurso.resta /\ Tramo <= TamPag - enCurso.desp
         /\ Tramo < enCurso.resta => Tramo = TamPag - enCurso.desp
         /\ enCurso.desp \in Nat /\ enCurso.resta \in Nat /\ enCurso.bytes \in Seq(Bytes)
         /\ enCurso.op = "escribir" => Len(enCurso.bytes) = enCurso.resta
<1>1. /\ En("copia") /\ enCurso # Nada /\ enCurso.paso = "copia"
      /\ pagina' = [pagina EXCEPT ![Actual] = Copiada]
      /\ UNCHANGED archivos
  BY DEF CopiarPagina, En
<1>2. /\ enCurso \in Operaciones /\ Actual \in Claves /\ pagina[Actual] \in Paginas
      /\ enCurso.op \in {"solicitar", "escribir"}
  BY <1>1, ActualExiste DEF IInv, Operaciones
<1>3. /\ Tramo \in Nat /\ Tramo <= enCurso.resta /\ Tramo <= TamPag - enCurso.desp
      /\ Tramo < enCurso.resta => Tramo = TamPag - enCurso.desp
      /\ enCurso.op = "escribir" => Escrito \in Datos
  BY <1>1, TramoTipo
<1>4. /\ enCurso.desp \in Nat /\ enCurso.resta \in Nat /\ enCurso.bytes \in Seq(Bytes)
      /\ enCurso.pid \in PIDs /\ contadorLRU \in Nat
  BY <1>2, Constantes DEF IInv, TypeOK, Operaciones
<1>5. enCurso.op = "escribir" => Len(enCurso.bytes) = enCurso.resta
  BY <1>1 DEF IInv, OperacionEnCurso
<1> HIDE DEF Tramo
<1>6. /\ Copiada \in Paginas /\ Copiada.swapped = pagina[Actual].swapped
      /\ Copiada.data = IF enCurso.op = "escribir" THEN Escrito ELSE pagina[Actual].data
  BY <1>2, <1>3, <1>4 DEF Copiada, Paginas
<1>7. \A k \in Claves : pagina'[k] = IF k = Actual THEN Copiada ELSE pagina[k]
  BY <1>1, <1>2 DEF IInv, TypeOK
<1>8. pagina[Actual].marcoID # SinMarco
  BY <1>1 DEF IInv, OperacionEnCurso
<1>9. ~pagina[Actual].swapped /\ Existe(Actual)
  BY <1>2, <1>8, NadaEsOtro DEF IInv, Marcacion, MarcoYPagina, Existe
<1>10. \A k \in Claves : Archivo(k)' = Archivo(k)
  BY <1>1 DEF Archivo
<1>11. \A k \in Claves : Existe(k)' <=> Existe(k)
  BY <1>2, <1>6, <1>7, NadaEsOtro DEF Existe
<1> QED
  BY <1>1, <1>2, <1>3, <1>4, <1>5, <1>6, <1>7, <1>9, <1>10, <1>11

\* leoMemoria and escriboMemoria: what a write brings goes into its own page.
LEMMA CopiarPaginaDInv ==
  ASSUME DInv, CopiarPagina
  PROVE  Disco' /\ Cuenta' /\ PaginasPropias' /\ EscrituraPropia'
<1>1. enCurso # Nada /\ UNCHANGED cantidadSwap
  BY DEF CopiarPagina, En
<1>2. /\ enCurso \in Operaciones /\ Actual \in Claves /\ pagina[Actual] \in Paginas
      /\ enCurso.op \in {"solicitar", "escribir"}
  BY CopiarPaginas DEF DInv
<1>3. Tramo \in Nat /\ Tramo <= enCurso.resta
  BY CopiarPaginas DEF DInv
<1>4. enCurso.desp \in Nat /\ enCurso.resta \in Nat /\ enCurso.bytes \in Seq(Bytes)
  BY CopiarPaginas DEF DInv
<1>5. enCurso.op = "escribir" => Len(enCurso.bytes) = enCurso.resta
  BY CopiarPaginas DEF DInv
<1>6. /\ Copiada \in Paginas /\ Copiada.swapped = pagina[Actual].swapped
      /\ Copiada.data = IF enCurso.op = "escribir" THEN Escrito ELSE pagina[Actual].data
  BY CopiarPaginas DEF DInv
<1>7. \A k \in Claves : pagina'[k] = IF k = Actual THEN Copiada ELSE pagina[k]
  BY CopiarPaginas DEF DInv
<1>9. ~pagina[Actual].swapped
  BY CopiarPaginas DEF DInv
<1>10. \A k \in Claves : Archivo(k)' = Archivo(k)
  BY CopiarPaginas DEF DInv
<1>11. \A k \in Claves : Existe(k)' <=> Existe(k)
  BY CopiarPaginas DEF DInv
<1> HIDE DEF Tramo
<1>12. Disco'
  <2> SUFFICES ASSUME NEW k \in Claves
               PROVE  /\ Archivo(k)' # Nada <=> Existe(k)' /\ pagina'[k].swapped
                      /\ Existe(k)' /\ pagina'[k].swapped => pagina'[k].data = PaginaVacia.data
    BY DEF Disco, PaginaVacia
  <2>1. CASE k = Actual
    BY <1>6, <1>7, <1>9, <1>10, <1>11, <2>1 DEF DInv, Disco
  <2>2. CASE k # Actual
    BY <1>7, <1>10, <1>11, <2>2 DEF DInv, Disco
  <2> QED
    BY <2>1, <2>2
<1>13. Cuenta'
  <2>1. PaginasEnSwap' = PaginasEnSwap
    BY <1>6, <1>7, <1>11 DEF PaginasEnSwap
  <2> QED
    BY <1>1, <2>1, CuentaIgual DEF DInv
<1>14. PaginasPropias'
  <2> SUFFICES ASSUME NEW k \in Claves, NEW d \in 0 .. TamPag - 1
               PROVE  /\ Existe(k)' => pagina'[k].data[d] \in BytesDe(k[1])
                      /\ Archivo(k)' # Nada => Archivo(k)'[d] \in BytesDe(k[1])
    BY DEF PaginasPropias, BytesDe
  <2>1. Archivo(k)' # Nada => Archivo(k)'[d] \in BytesDe(k[1])
    BY <1>10 DEF DInv, PaginasPropias
  <2>2. Existe(k) => pagina[k].data[d] \in BytesDe(k[1])
    BY DEF DInv, PaginasPropias
  <2>3. CASE k = Actual /\ enCurso.op = "escribir"
    <3>1. Existe(k) /\ k[1] = enCurso.pid /\ pagina'[k].data = Escrito
      BY <1>2, <1>6, <1>7, <2>3, NadaEsOtro DEF Existe, Actual
    <3>2. CASE d \in enCurso.desp .. enCurso.desp + Tramo - 1
      <4> DEFINE i == d - enCurso.desp + 1
      <4>1. i \in 1 .. Len(enCurso.bytes)
        BY <1>3, <1>4, <1>5, <2>3, <3>2
      <4>2. Escrito[d] = enCurso.bytes[i]
        BY <3>2 DEF Escrito
      <4> HIDE DEF i
      <4> QED
        BY <1>1, <2>1, <2>3, <3>1, <4>1, <4>2 DEF DInv, EscrituraPropia
    <3>3. CASE d \notin enCurso.desp .. enCurso.desp + Tramo - 1
      <4>1. Escrito[d] = pagina[Actual].data[d]
        BY <3>3 DEF Escrito
      <4> QED
        BY <2>1, <2>2, <2>3, <3>1, <4>1
    <3> QED
      BY <3>2, <3>3
  <2>4. CASE k = Actual /\ enCurso.op # "escribir"
    BY <1>6, <1>7, <1>11, <2>1, <2>2, <2>4
  <2>5. CASE k # Actual
    BY <1>7, <1>11, <2>1, <2>2, <2>5
  <2> QED
    BY <2>3, <2>4, <2>5
<1>15. EscrituraPropia'
  <2>1. CASE enCurso' = Nada
    BY <2>1, MismaEscritura DEF DInv
  <2>2. CASE enCurso' = [enCurso EXCEPT
             !.pag = @ + 1, !.desp = 0, !.resta = @ - Tramo, !.bytes = BytesTrasCopia,
             !.paso = PrimerPaso(<<enCurso.pid, enCurso.sid, enCurso.pag + 1>>)]
    <3>1. /\ enCurso'.op = enCurso.op /\ enCurso'.pid = enCurso.pid
          /\ enCurso'.bytes = BytesTrasCopia
      BY <1>2, <2>2 DEF Operaciones
    <3>2. ASSUME enCurso.op = "escribir", NEW i \in 1 .. Len(BytesTrasCopia)
          PROVE  BytesTrasCopia[i] \in BytesDe(enCurso.pid)
      <4> DEFINE b == enCurso.bytes
      <4>1. b \in Seq(Bytes) /\ Len(b) = enCurso.resta
        BY <1>4, <1>5, <3>2
      <4>2. BytesTrasCopia = SubSeq(b, Tramo + 1, Len(b))
        BY <3>2 DEF BytesTrasCopia
      <4> HIDE DEF b
      <4>3. Len(SubSeq(b, Tramo + 1, Len(b))) = Len(b) - Tramo
        BY <1>3, <1>4, <4>1
      <4>4. i \in 1 .. Len(b) - Tramo
        BY <3>2, <4>2, <4>3
      <4>5. BytesTrasCopia[i] = b[Tramo + i] /\ Tramo + i \in 1 .. Len(b)
        BY <1>3, <1>4, <4>1, <4>2, <4>4
      <4> QED
        BY <1>1, <3>2, <4>5 DEF DInv, EscrituraPropia, b
    <3> QED
      BY <3>1, <3>2 DEF EscrituraPropia, BytesDe
  <2> QED
    BY <2>1, <2>2 DEF CopiarPagina
<1> QED
  BY <1>12, <1>13, <1>14, <1>15

\* What destruirPag makes of pages and files.
LEMMA DestruirPaginas ==
  ASSUME RutasDistintas, DInv, DestruirPag
  PROVE  /\ Actual \in Claves /\ pagina[Actual] # Nada
         /\ enCurso \in Operaciones /\ enCurso.op = "destruir"
         /\ enCurso' = [enCurso EXCEPT !.pag = @ + 1]
         /\ \A k \in Claves : pagina'[k] = IF k = Actual THEN Nada ELSE pagina[k]
         /\ \A k \in Claves : Archivo(k)' = IF k = Actual THEN Nada ELSE Archivo(k)
         /\ cantidadSwap' = cantidadSwap + IF pagina[Actual].swapped THEN TamPag ELSE 0
<1>1. /\ enCurso # Nada /\ enCurso.paso = "destruir"
      /\ Actual \in Claves /\ pagina[Actual] # Nada /\ BorrarArchivo
      /\ pagina' = [pagina EXCEPT ![Actual] = Nada]
      /\ enCurso' = [enCurso EXCEPT !.pag = @ + 1]
  BY DEF DestruirPag, En
<1>2. \A k \in Claves : pagina'[k] = IF k = Actual THEN Nada ELSE pagina[k]
  BY <1>1 DEF DInv, IInv, TypeOK
<1>3. Archivo(Actual) # Nada <=> pagina[Actual].swapped
  BY <1>1 DEF DInv, Disco, Existe
<1>4. \A k \in Claves : Archivo(k)' = IF k = Actual THEN Nada ELSE Archivo(k)
  <2>1. CASE archivos' = [archivos EXCEPT ![obtenerFilePath(Actual)] = Nada]
    BY <1>1, <2>1, UnSoloArchivo DEF DInv, IInv
  <2>2. CASE archivos' = archivos /\ Archivo(Actual) = Nada
    BY <2>2 DEF Archivo
  <2> QED
    BY <1>1, <1>3, <2>1, <2>2 DEF BorrarArchivo, Archivo
<1>5. cantidadSwap' = cantidadSwap + IF pagina[Actual].swapped THEN TamPag ELSE 0
  <2>1. cantidadSwap \in Int
    BY DEF DInv, IInv, TypeOK
  <2> QED
    BY <1>1, <1>3, <2>1 DEF BorrarArchivo, Archivo
<1>6. enCurso \in Operaciones /\ enCurso.op = "destruir"
  BY <1>1 DEF DInv, IInv, TypeOK, OperacionEnCurso
<1> QED
  BY <1>1, <1>2, <1>4, <1>5, <1>6

\* destruirPag: the page goes, and its file with it.
LEMMA DestruirPagDInv ==
  ASSUME RutasDistintas, DInv, DestruirPag
  PROVE  Disco' /\ Cuenta' /\ PaginasPropias' /\ EscrituraPropia'
<1>1. Actual \in Claves /\ pagina[Actual] # Nada /\ enCurso' = [enCurso EXCEPT !.pag = @ + 1]
  BY DestruirPaginas
<1>2. \A k \in Claves : pagina'[k] = IF k = Actual THEN Nada ELSE pagina[k]
  BY DestruirPaginas
<1>4. \A k \in Claves : Archivo(k)' = IF k = Actual THEN Nada ELSE Archivo(k)
  BY DestruirPaginas
<1>5. \A k \in Claves : Existe(k)' <=> Existe(k) /\ k # Actual
  BY <1>2 DEF Existe
<1>6. Disco'
  <2> SUFFICES ASSUME NEW k \in Claves
               PROVE  /\ Archivo(k)' # Nada <=> Existe(k)' /\ pagina'[k].swapped
                      /\ Existe(k)' /\ pagina'[k].swapped => pagina'[k].data = PaginaVacia.data
    BY DEF Disco, PaginaVacia
  <2> QED
    BY <1>2, <1>4, <1>5 DEF DInv, Disco
<1>7. Cuenta'
  <2>1. CASE pagina[Actual].swapped
    <3>1. Actual \in PaginasEnSwap
      BY <1>1, <2>1 DEF PaginasEnSwap, Existe
    <3>2. PaginasEnSwap' = PaginasEnSwap \ {Actual}
      BY <1>2, <1>5 DEF PaginasEnSwap
    <3>3. cantidadSwap' = cantidadSwap + TamPag
      BY <2>1, DestruirPaginas
    <3> QED
      BY <3>1, <3>2, <3>3, CuentaMenos DEF DInv, IInv
  <2>2. CASE ~pagina[Actual].swapped
    <3>1. PaginasEnSwap' = PaginasEnSwap
      BY <1>2, <1>5, <2>2 DEF PaginasEnSwap
    <3>2. cantidadSwap' = cantidadSwap
      <4>1. cantidadSwap' = cantidadSwap + 0 /\ cantidadSwap \in Int
        BY <2>2, DestruirPaginas DEF DInv, IInv, TypeOK
      <4> QED
        BY <4>1
    <3> QED
      BY <3>1, <3>2, CuentaIgual DEF DInv
  <2> QED
    BY <2>1, <2>2
<1>8. PaginasPropias'
  <2> SUFFICES ASSUME NEW k \in Claves, NEW d \in 0 .. TamPag - 1
               PROVE  /\ Existe(k)' => pagina'[k].data[d] \in BytesDe(k[1])
                      /\ Archivo(k)' # Nada => Archivo(k)'[d] \in BytesDe(k[1])
    BY DEF PaginasPropias, BytesDe
  <2> QED
    BY <1>2, <1>4, <1>5 DEF DInv, PaginasPropias
<1>9. EscrituraPropia'
  <2>1. enCurso \in Operaciones /\ enCurso.op = "destruir"
    BY DestruirPaginas
  <2>2. enCurso'.op = "destruir"
    BY <1>1, <2>1 DEF Operaciones
  <2> QED
    BY <2>2, MismaEscritura DEF DInv
<1> QED
  BY <1>6, <1>7, <1>8, <1>9

-------------------------------------------------------------------------------
\* Every step keeps it, if no two pages have the same swap file.
LEMMA NextDInv == RutasDistintas /\ DInv /\ [Next]_vars => DInv'
<1> SUFFICES ASSUME RutasDistintas, DInv, [Next]_vars PROVE DInv'
  OBVIOUS
<1>1. IInv'
  BY NextIInv DEF DInv
<1>2. ASSUME NEW h \in Hilos,
             \/ AdmitirSegmento(h) \/ AgregarSegmento(h)
             \/ SolicitarMemoria(h) \/ EscribirMemoria(h) \/ DestruirSegmento(h)
      PROVE  Disco' /\ Cuenta' /\ PaginasPropias' /\ EscrituraPropia'
  BY <1>2, AdmitirSegmentoDInv, AgregarSegmentoDInv, AccederDInv, SinPaginasDInv
<1>3. ASSUME Paso
      PROVE  Disco' /\ Cuenta' /\ PaginasPropias' /\ EscrituraPropia'
  <2>1. ASSUME NEW m \in Marcos, Desalojar(m) \/ SwapOutFalla(m)
        PROVE  Disco' /\ Cuenta' /\ PaginasPropias' /\ EscrituraPropia'
    BY <2>1, DesalojarDInv, SwapOutFallaDInv
  <2> QED
    BY <1>3, <2>1, SwapInDInv, TomarMarcoVacioDInv, CopiarPaginaDInv, DestruirPagDInv,
       SinPaginasDInv DEF Paso
<1> QED
  BY <1>1, <1>2, <1>3, SinPaginasDInv DEF Next, DInv

\* The memory server keeps it.
THEOREM InductivoDatos == RutasDistintas /\ Spec => []DInv
<1> SUFFICES ASSUME RutasDistintas PROVE Spec => []DInv
  OBVIOUS
<1>1. DInv /\ [Next]_vars => DInv'
  BY NextDInv
<1> QED
  BY <1>1, InitDInv, PTL DEF Spec

\* The free swap space and the pages in swap always add up to the whole, and a
\* page in swap finds room for the page that will make way for it, through
\* evictions, returns and destructions in any order (swapOutPagina, swapInPagina,
\* destruirPag).
THEOREM SwapSiempreConservado == RutasDistintas /\ Spec => []SwapConservado
<1> SUFFICES ASSUME RutasDistintas PROVE Spec => []SwapConservado
  OBVIOUS
<1>1. DInv => SwapConservado
  BY DEF DInv, Cuenta
<1> QED
  BY <1>1, InductivoDatos, PTL

\* The swap directory always holds one file for each page in swap and nothing
\* else: none is lost, and none is left behind by a destroyed segment.
THEOREM SiempreUnArchivoPorPagina == RutasDistintas /\ Spec => []UnArchivoPorPagina
<1> SUFFICES ASSUME RutasDistintas PROVE Spec => []UnArchivoPorPagina
  OBVIOUS
<1>1. DInv => UnArchivoPorPagina
  <2> SUFFICES ASSUME DInv PROVE UnArchivoPorPagina
    OBVIOUS
  <2>1. \A k, l \in PaginasEnSwap : obtenerFilePath(k) = obtenerFilePath(l) => k = l
    BY DEF RutasDistintas, PaginasEnSwap
  <2>2. {r \in Rutas : archivos[r] # Nada} = {obtenerFilePath(k) : k \in PaginasEnSwap}
    <3>1. \A k \in Claves : archivos[obtenerFilePath(k)] # Nada <=> k \in PaginasEnSwap
      BY DEF DInv, Disco, Archivo, PaginasEnSwap
    <3>2. PaginasEnSwap \subseteq Claves
      BY DEF PaginasEnSwap
    <3> QED
      BY <3>1, <3>2 DEF Rutas
  <2> QED
    BY <2>1, <2>2 DEF UnArchivoPorPagina
<1> QED
  BY <1>1, InductivoDatos, PTL

\* What one process writes never shows in a page of another, in whatever order
\* their pages share frames and come and go from swap.
THEOREM AislamientoSiempre == RutasDistintas /\ Spec => []Aislamiento
<1> SUFFICES ASSUME RutasDistintas PROVE Spec => []Aislamiento
  OBVIOUS
<1>1. DInv => Aislamiento
  <2> SUFFICES ASSUME DInv, NEW k \in Claves, Existe(k)
               PROVE  Range(pagina[k].data) \subseteq BytesDe(k[1])
    BY DEF Aislamiento
  <2>1. pagina[k] \in Paginas
    BY DEF DInv, IInv, TypeOK, Existe
  <2>2. DOMAIN pagina[k].data = 0 .. TamPag - 1
    BY <2>1 DEF Paginas, Datos
  <2> QED
    BY <2>2 DEF DInv, PaginasPropias, Range
<1> QED
  BY <1>1, InductivoDatos, PTL

-------------------------------------------------------------------------------
\* What brings the server down.

EnListas == Range(marcosVacios) \cup marcosLlenos

\* The list of resident pages holds a freed one only if a frame has been lost,
\* no page is newer than the counter of accesses, and when the server is down
\* either a frame was lost or every counter of LRU had reached its top.
Caidas ==
  /\ Nada \in Range(paginasEnMemoria) => EnListas # Marcos
  /\ \A k \in Claves : Existe(k) => pagina[k].contadorLRU <= contadorLRU
  /\ caida => \/ EnListas # Marcos
              \/ NumMarcos = 0
              \/ Algoritmo = "LRU" /\ contadorLRU >= TopeLRU

\* With every frame in its list and some counter below the top, the search finds
\* a frame in use.
LEMMA HayVictima ==
  ASSUME IInv, Caidas, NEW m \in Marcos \cup {SinMarco}, BuscaVictima, ~PaginaLiberada,
         seleccionarMarcoVictima(m), m \notin marcosLlenos, EnListas = Marcos, NumMarcos # 0
  PROVE  Algoritmo = "LRU" /\ contadorLRU >= TopeLRU
<1>1. marcosLlenos = Marcos
  BY DEF BuscaVictima, EnListas, Range
<1>2. \A i \in Posiciones : /\ paginasEnMemoria[i] \in Claves /\ Existe(paginasEnMemoria[i])
                            /\ Res(i).marcoID \in marcosLlenos
  <2> SUFFICES ASSUME NEW i \in Posiciones
               PROVE  /\ paginasEnMemoria[i] \in Claves /\ Existe(paginasEnMemoria[i])
                      /\ Res(i).marcoID \in marcosLlenos
    OBVIOUS
  <2>1. paginasEnMemoria[i] \in Range(paginasEnMemoria) \ {Nada}
    BY DEF PaginaLiberada, Range, Posiciones
  <2> QED
    BY <1>1, <2>1 DEF IInv, Marcacion, ListadasResidentes, Res, Existe
<1>3. Posiciones # {}
  <2>1. 0 \in marcosLlenos
    BY <1>1, Constantes DEF Marcos
  <2>2. marco[0] \in Range(paginasEnMemoria)
    BY <2>1 DEF IInv, Marcacion, MarcoYPagina
  <2> QED
    BY <2>2 DEF Range, Posiciones
<1>4. Algoritmo = "LRU"
  <2> SUFFICES ASSUME Algoritmo # "LRU" PROVE FALSE
    OBVIOUS
  <2>1. VictimaCLOCK(m)
    BY DEF seleccionarMarcoVictima
  <2>2. \E i \in Posiciones : m = Res(i).marcoID
    BY <1>3, <2>1 DEF VictimaCLOCK, Posiciones
  <2> QED
    BY <1>2, <2>2
<1>5. VictimaLRU(m)
  BY <1>4 DEF seleccionarMarcoVictima
<1>6. ~\E i \in Posiciones : Res(i).contadorLRU < TopeLRU
  <2> SUFFICES ASSUME \E i \in Posiciones : Res(i).contadorLRU < TopeLRU PROVE FALSE
    OBVIOUS
  <2>1. \E i \in Posiciones : m = Res(i).marcoID
    BY <1>5 DEF VictimaLRU
  <2> QED
    BY <1>2, <2>1
<1>7. PICK i \in Posiciones : TRUE
  BY <1>3
<1>8. Res(i) \in Paginas /\ Res(i).contadorLRU <= contadorLRU
  BY <1>2 DEF Caidas, Res, IInv, TypeOK, Existe
<1>9. Res(i).contadorLRU \in Nat /\ contadorLRU \in Nat /\ TopeLRU \in Nat
  BY <1>8, Constantes DEF Paginas, IInv, TypeOK
<1>10. ~(Res(i).contadorLRU < TopeLRU)
  BY <1>6
<1> QED
  BY <1>4, <1>8, <1>9, <1>10

\* A step after which pages have counters they had, the value of the counter of
\* accesses, or 0, leaves them all up to that counter.
LEMMA ContadorAcotado ==
  ASSUME IInv, Caidas, contadorLRU' \in Nat, contadorLRU' >= contadorLRU,
         \A k \in Claves : pagina'[k] # Nada =>
           \/ pagina'[k].contadorLRU = 0 \/ pagina'[k].contadorLRU = contadorLRU
           \/ pagina[k] # Nada /\ pagina'[k].contadorLRU = pagina[k].contadorLRU
  PROVE  \A k \in Claves : Existe(k)' => pagina'[k].contadorLRU <= contadorLRU'
<1>1. contadorLRU \in Nat
  BY DEF IInv, TypeOK
<1> SUFFICES ASSUME NEW k \in Claves, pagina'[k] # Nada
             PROVE  pagina'[k].contadorLRU <= contadorLRU'
  BY DEF Existe
<1>2. CASE pagina'[k].contadorLRU = 0 \/ pagina'[k].contadorLRU = contadorLRU
  BY <1>1, <1>2
<1>3. CASE pagina[k] # Nada /\ pagina'[k].contadorLRU = pagina[k].contadorLRU
  <2>1. pagina[k].contadorLRU <= contadorLRU /\ pagina[k] \in Paginas
    BY <1>3 DEF Caidas, Existe, IInv, TypeOK
  <2>2. pagina[k].contadorLRU \in Nat
    BY <2>1 DEF Paginas
  <2> QED
    BY <1>1, <1>3, <2>1, <2>2
<1> QED
  BY <1>2, <1>3

\* No step adds a frame to the lists.
LEMMA ListasNoCrecen ==
  ASSUME IInv, Next
  PROVE  EnListas' \subseteq EnListas
<1>1. CASE UNCHANGED <<marcosVacios, marcosLlenos>>
  BY <1>1 DEF EnListas
<1>2. ASSUME TomarMarcoVacio
      PROVE  EnListas' \subseteq EnListas
  <2>1. Range(marcosVacios) = Range(Tail(marcosVacios)) \cup {Head(marcosVacios)}
    BY <1>2, RangoTail DEF IInv, TypeOK, TomarMarcoVacio
  <2>2. /\ marcosVacios' = Tail(marcosVacios)
        /\ marcosLlenos' = marcosLlenos \cup {Head(marcosVacios)}
    BY <1>2 DEF TomarMarcoVacio
  <2> QED
    BY <2>1, <2>2 DEF EnListas
<1>3. ASSUME NEW m \in Marcos, SwapOutFalla(m)
      PROVE  EnListas' \subseteq EnListas
  <2>1. marcosLlenos' \subseteq marcosLlenos /\ marcosVacios' = marcosVacios
    BY <1>3 DEF SwapOutFalla
  <2> QED
    BY <2>1 DEF EnListas
<1>4. ASSUME NEW m \in marcosLlenos,
             marcosLlenos' = marcosLlenos \ {m}, marcosVacios' = Append(marcosVacios, m)
      PROVE  EnListas' \subseteq EnListas
  <2>1. Range(marcosVacios)' = Range(marcosVacios) \cup {m}
    <3>1. m \in Marcos /\ marcosVacios \in Seq(Marcos)
      BY DEF IInv, TypeOK
    <3> QED
      BY <1>4, <3>1, RangoAppend
  <2> QED
    BY <1>4, <2>1 DEF EnListas
<1>5. ASSUME DestruirPag
      PROVE  EnListas' \subseteq EnListas
  BY <1>1, <1>4, <1>5 DEF DestruirPag, LiberarMarco
<1>6. ASSUME NEW h \in Hilos,
             \/ AdmitirSegmento(h) \/ AgregarSegmento(h)
             \/ SolicitarMemoria(h) \/ EscribirMemoria(h) \/ DestruirSegmento(h)
      PROVE  UNCHANGED <<marcosVacios, marcosLlenos>>
  BY <1>6 DEF AdmitirSegmento, AgregarSegmento, SolicitarMemoria, EscribirMemoria,
              DestruirSegmento, Acceder, listas
<1>7. ASSUME \/ SwapIn \/ SwapInFalla \/ MemoriaLlena \/ SinVictima
             \/ CopiarPagina \/ QuitarSegmento
      PROVE  UNCHANGED <<marcosVacios, marcosLlenos>>
  BY <1>7 DEF SwapIn, SwapInFalla, MemoriaLlena, SinVictima, CopiarPagina, QuitarSegmento,
              listas
<1>8. ASSUME NEW m \in Marcos, Desalojar(m)
      PROVE  UNCHANGED <<marcosVacios, marcosLlenos>>
  BY <1>8 DEF Desalojar
<1> QED
  BY <1>1, <1>2, <1>3, <1>5, <1>6, <1>7, <1>8 DEF Next, Paso

\* The counters of the pages that are there stay, or take the value of the counter
\* of accesses, and a new page starts from 0.
LEMMA ContadoresDePaginas ==
  ASSUME IInv, Next
  PROVE  /\ contadorLRU' >= contadorLRU
         /\ \A k \in Claves : pagina'[k] # Nada =>
              \/ pagina'[k].contadorLRU = 0 \/ pagina'[k].contadorLRU = contadorLRU
              \/ pagina[k] # Nada /\ pagina'[k].contadorLRU = pagina[k].contadorLRU
<1> DEFINE Contadas ==
      \A k \in Claves : pagina'[k] # Nada =>
        \/ pagina'[k].contadorLRU = 0 \/ pagina'[k].contadorLRU = contadorLRU
        \/ pagina[k] # Nada /\ pagina'[k].contadorLRU = pagina[k].contadorLRU
<1>1. contadorLRU \in Nat
  BY DEF IInv, TypeOK
<1>2. CASE UNCHANGED <<pagina, contadorLRU>>
  BY <1>1, <1>2
<1>3. ASSUME NEW h \in Hilos, AgregarSegmento(h)
      PROVE  contadorLRU' = contadorLRU /\ Contadas
  <2>1. /\ contadorLRU' = contadorLRU
        /\ \A k \in Claves : pagina'[k] = PaginaVacia \/ pagina'[k] = pagina[k]
    BY <1>3 DEF AgregarSegmento, crearPaginasPorTamanioSegmento
  <2> QED
    BY <2>1 DEF PaginaVacia
<1>4. ASSUME SwapIn \/ TomarMarcoVacio \/ CopiarPagina
      PROVE  contadorLRU' >= contadorLRU /\ Contadas
  <2>1. enCurso # Nada /\ enCurso.paso # "destruir"
    BY <1>4 DEF SwapIn, TomarMarcoVacio, CopiarPagina, En
  <2>2. Actual \in Claves /\ pagina[Actual] \in Paginas
    BY <2>1, ActualExiste DEF IInv
  <2>3. pagina[Actual] # Nada
    BY <2>2, NadaEsOtro
  <2> DEFINE p == pagina'[Actual]
  <2>4. \A k \in Claves : k # Actual => pagina'[k] = pagina[k]
    BY <1>4, <2>2 DEF SwapIn, TomarMarcoVacio, CopiarPagina, IInv, TypeOK
  <2>5. CASE SwapIn
    <3>1. p = [pagina[Actual] EXCEPT !.data = HastaNul(archivos[obtenerFilePath(Actual)], @),
                                     !.swapped = FALSE]
      BY <2>2, <2>5 DEF SwapIn, IInv, TypeOK
    <3>2. p.contadorLRU = pagina[Actual].contadorLRU
      BY <2>2, <3>1 DEF Paginas
    <3>3. contadorLRU' = contadorLRU
      BY <2>5 DEF SwapIn
    <3> HIDE DEF p
    <3>4. contadorLRU' >= contadorLRU
      BY <1>1, <3>3
    <3>5. Contadas
      BY <2>3, <2>4, <3>2 DEF p
    <3> QED
      BY <3>4, <3>5
  <2>6. CASE TomarMarcoVacio
    <3>1. p = [pagina[Actual] EXCEPT !.marcoID = Head(marcosVacios), !.bitReferencia = 1]
      BY <2>2, <2>6 DEF TomarMarcoVacio, IInv, TypeOK
    <3>2. p.contadorLRU = pagina[Actual].contadorLRU
      BY <2>2, <3>1 DEF Paginas
    <3>3. contadorLRU' = contadorLRU
      BY <2>6 DEF TomarMarcoVacio
    <3> HIDE DEF p
    <3>4. contadorLRU' >= contadorLRU
      BY <1>1, <3>3
    <3>5. Contadas
      BY <2>3, <2>4, <3>2 DEF p
    <3> QED
      BY <3>4, <3>5
  <2>7. CASE CopiarPagina
    <3>1. p = Copiada /\ contadorLRU' = contadorLRU + 1
      BY <2>2, <2>7 DEF CopiarPagina, IInv, TypeOK
    <3>2. p.contadorLRU = contadorLRU
      BY <2>2, <3>1 DEF Paginas, Copiada
    <3> QED
      BY <1>1, <2>4, <3>1, <3>2
  <2> QED
    BY <1>4, <2>5, <2>6, <2>7
<1>5. ASSUME NEW m \in Marcos, Desalojar(m)
      PROVE  contadorLRU' = contadorLRU /\ Contadas
  <2>1. \A k \in Claves : /\ Existe(k)' <=> Existe(k)
                          /\ Existe(k) => pagina'[k].contadorLRU = pagina[k].contadorLRU
    BY <1>5, DesalojarPaginas
  <2>2. contadorLRU' = contadorLRU
    BY <1>5 DEF Desalojar
  <2> QED
    BY <2>1, <2>2 DEF Existe
<1>6. ASSUME NEW m \in Marcos, SwapOutFalla(m)
      PROVE  contadorLRU' = contadorLRU /\ Contadas
  <2>1. pagina' = Repasar /\ contadorLRU' = contadorLRU
    BY <1>6 DEF SwapOutFalla
  <2> QED
    BY <2>1, RepasarPaginas, RepasarDatos
<1>7. ASSUME DestruirPag
      PROVE  contadorLRU' = contadorLRU /\ Contadas
  <2>1. /\ Actual \in Claves /\ pagina' = [pagina EXCEPT ![Actual] = Nada]
        /\ contadorLRU' = contadorLRU
    BY <1>7 DEF DestruirPag
  <2> QED
    BY <2>1 DEF IInv, TypeOK
<1>8. ASSUME NEW h \in Hilos,
             \/ AdmitirSegmento(h) \/ SolicitarMemoria(h) \/ EscribirMemoria(h)
             \/ DestruirSegmento(h)
      PROVE  UNCHANGED <<pagina, contadorLRU>>
  BY <1>8 DEF AdmitirSegmento, SolicitarMemoria, EscribirMemoria, DestruirSegmento, Acceder
<1>9. ASSUME SwapInFalla \/ MemoriaLlena \/ SinVictima \/ QuitarSegmento
      PROVE  UNCHANGED <<pagina, contadorLRU>>
  BY <1>9 DEF SwapInFalla, MemoriaLlena, SinVictima, QuitarSegmento
<1> HIDE DEF Contadas
<1>10. contadorLRU' >= contadorLRU /\ Contadas
  <2>1. contadorLRU' = contadorLRU => contadorLRU' >= contadorLRU
    BY <1>1
  <2>2. UNCHANGED <<pagina, contadorLRU>> => Contadas
    BY DEF Contadas
  <2> QED
    BY <1>3, <1>4, <1>5, <1>6, <1>7, <1>8, <1>9, <2>1, <2>2 DEF Next, Paso
<1> QED
  BY <1>10 DEF Contadas

\* The list of resident pages gets a freed page only from destruirPag, which finds
\* the page listed though its frame is in no list: a lost frame.
LEMMA ListadasLiberadas ==
  ASSUME IInv, Next, Nada \notin Range(paginasEnMemoria), Nada \in Range(paginasEnMemoria)'
  PROVE  EnListas' # Marcos
<1> DEFINE pem == paginasEnMemoria
           S == Claves \cup {Nada}
<1>1. pem \in Seq(S) /\ Nada \notin Claves
  BY NadaEsOtro DEF IInv, TypeOK
<1>2. ASSUME TomarMarcoVacio
      PROVE  FALSE
  <2>1. Actual \in Claves
    BY <1>2, ActualExiste DEF IInv, TomarMarcoVacio, En
  <2>2. Range(pem)' = Range(pem) \cup {Actual}
    <3>1. pem' = Append(pem, Actual)
      BY <1>2 DEF TomarMarcoVacio
    <3> HIDE DEF pem
    <3>2. Range(Append(pem, Actual)) = Range(pem) \cup {Actual}
      BY <1>1, <2>1, RangoAppend
    <3> QED
      BY <3>1, <3>2
  <2> QED
    BY <1>1, <2>1, <2>2
<1>3. ASSUME NEW m \in Marcos, Desalojar(m)
      PROVE  FALSE
  <2> DEFINE sin == SinPrimeraSwappeada(marco[m])
  <2>1. Actual \in Claves
    BY <1>3, DesalojarPaginas
  <2>2. sin \in Seq(S) /\ Range(sin) = Range(pem) \ {marco[m]}
    BY <1>3, SaleLaVictima DEF Desalojar
  <2>3. pem' = Append(sin, Actual)
    BY <1>3 DEF Desalojar
  <2> HIDE DEF sin
  <2>4. Range(pem)' = Range(sin) \cup {Actual}
    BY <2>1, <2>2, <2>3, RangoAppend
  <2> QED
    BY <1>1, <2>1, <2>2, <2>4
<1>4. ASSUME DestruirPag
      PROVE  EnListas' # Marcos
  <2>1. CASE \E m \in marcosLlenos : marco[m] = Actual /\ pem' = RemoveFirst(pem, Actual)
    <3>1. Actual \in Range(pem)
      BY <2>1 DEF IInv, Marcacion, MarcoYPagina
    <3>2. \E i \in 1 .. Len(pem) : pem[i] = Actual
      BY <1>1, <3>1 DEF Range
    <3>3. PICK i \in 1 .. Len(pem) : pem' = RemoveAt(pem, i)
      BY <1>1, <2>1, <3>2, QuitarPrimero
    <3> HIDE DEF pem
    <3>4. /\ pem' \in Seq(S) /\ Len(pem') = Len(pem) - 1
          /\ \A j \in 1 .. Len(pem) - 1 : pem'[j] = IF j < i THEN pem[j] ELSE pem[j + 1]
      BY <1>1, <3>3, QuitarPosicion
    <3>5. PICK j \in 1 .. Len(pem) - 1 : pem'[j] = Nada
      BY <3>4 DEF Range, pem
    <3>6. PICK l \in 1 .. Len(pem) : pem[l] = Nada
      BY <1>1, <3>4, <3>5
    <3> QED
      BY <1>1, <3>6 DEF Range, pem
  <2>2. CASE /\ \A m \in marcosLlenos : marco[m] # Actual
             /\ pem' = [i \in Posiciones |-> IF pem[i] = Actual THEN Nada ELSE pem[i]]
             /\ UNCHANGED <<marcosVacios, marcosLlenos>>
    <3>1. PICK i \in Posiciones : pem'[i] = Nada
      BY <2>2 DEF Range
    <3>2. pem[i] # Nada
      BY DEF Range, Posiciones
    <3>3. pem[i] = Actual
      BY <2>2, <3>1, <3>2
    <3>4. Actual \in Range(pem) \ {Nada}
      BY <3>2, <3>3 DEF Range, Posiciones
    <3> DEFINE m == pagina[Actual].marcoID
    <3>5. Existe(Actual) /\ m \in Marcos /\ marco[m] = Actual
      BY <3>4 DEF IInv, Marcacion, ListadasResidentes
    <3>6. m \notin marcosLlenos
      BY <2>2, <3>5
    <3>7. m # SinMarco
      BY <3>5, Constantes DEF Marcos, SinMarco
    <3>8. m \notin Range(marcosVacios)
      BY <3>5, <3>7 DEF IInv, Marcacion, MarcoYPagina, Existe
    <3> QED
      BY <2>2, <3>5, <3>6, <3>8 DEF EnListas
  <2> QED
    BY <1>4, <2>1, <2>2 DEF DestruirPag, LiberarMarco
<1>5. ASSUME NEW h \in Hilos,
             \/ AdmitirSegmento(h) \/ AgregarSegmento(h)
             \/ SolicitarMemoria(h) \/ EscribirMemoria(h) \/ DestruirSegmento(h)
      PROVE  UNCHANGED pem
  BY <1>5 DEF AdmitirSegmento, AgregarSegmento, SolicitarMemoria, EscribirMemoria,
              DestruirSegmento, Acceder, listas
<1>6. ASSUME \/ SwapIn \/ SwapInFalla \/ MemoriaLlena \/ SinVictima
             \/ CopiarPagina \/ QuitarSegmento
             \/ \E m \in Marcos : SwapOutFalla(m)
      PROVE  UNCHANGED pem
  BY <1>6 DEF SwapIn, SwapInFalla, MemoriaLlena, SinVictima, CopiarPagina, QuitarSegmento,
              SwapOutFalla, listas
<1> QED
  BY <1>2, <1>3, <1>4, <1>5, <1>6 DEF Next, Paso

\* Every step keeps what is known of a server that is down.
LEMMA NextCaidas == IInv /\ Caidas /\ [Next]_vars => Caidas'
<1> SUFFICES ASSUME IInv, Caidas, [Next]_vars PROVE Caidas'
  OBVIOUS
<1>1. contadorLRU' \in Nat /\ contadorLRU \in Nat /\ TopeLRU \in Nat
  BY NextIInv, Constantes DEF IInv, TypeOK
<1>2. CASE UNCHANGED vars
  BY <1>2 DEF vars, Caidas, EnListas, Existe
<1>3. CASE Next
  <2>1. EnListas' = Marcos => EnListas = Marcos
    <3>1. EnListas' \subseteq EnListas
      BY <1>3, ListasNoCrecen
    <3>2. EnListas \subseteq Marcos
      BY DEF EnListas, IInv, TypeOK, Range
    <3> QED
      BY <3>1, <3>2
  <2>2. /\ contadorLRU' >= contadorLRU
        /\ \A k \in Claves : pagina'[k] # Nada =>
             \/ pagina'[k].contadorLRU = 0 \/ pagina'[k].contadorLRU = contadorLRU
             \/ pagina[k] # Nada /\ pagina'[k].contadorLRU = pagina[k].contadorLRU
    BY <1>3, ContadoresDePaginas
  <2>3. \A k \in Claves : Existe(k)' => pagina'[k].contadorLRU <= contadorLRU'
    BY <1>1, <2>2, ContadorAcotado
  <2>4. Nada \in Range(paginasEnMemoria)' => EnListas' # Marcos
    BY <1>3, <2>1, ListadasLiberadas DEF Caidas
  <2>5. caida' => \/ EnListas' # Marcos
                  \/ NumMarcos = 0
                  \/ Algoritmo = "LRU" /\ contadorLRU' >= TopeLRU
    <3>1. CASE caida' = caida
      BY <1>1, <2>1, <2>2, <3>1 DEF Caidas
    <3>2. CASE SinVictima
      <4>1. BuscaVictima
        BY <3>2 DEF SinVictima
      <4>2. CASE PaginaLiberada
        <5>1. Nada \in Range(paginasEnMemoria)
          BY <4>2 DEF PaginaLiberada, Posiciones, Range
        <5> QED
          BY <2>1, <5>1 DEF Caidas
      <4>3. CASE ~PaginaLiberada /\ \E m \in Marcos \cup {SinMarco} :
                             seleccionarMarcoVictima(m) /\ m \notin marcosLlenos
        BY <1>1, <2>1, <2>2, <4>1, <4>3, HayVictima
      <4> QED
        BY <3>2, <4>2, <4>3 DEF SinVictima
    <3>3. ASSUME NEW h \in Hilos,
                 \/ AdmitirSegmento(h) \/ AgregarSegmento(h)
                 \/ SolicitarMemoria(h) \/ EscribirMemoria(h) \/ DestruirSegmento(h)
          PROVE  caida' = caida
      BY <3>3 DEF AdmitirSegmento, AgregarSegmento, SolicitarMemoria, EscribirMemoria,
                  DestruirSegmento, Acceder
    <3>4. ASSUME \/ SwapIn \/ SwapInFalla \/ TomarMarcoVacio \/ MemoriaLlena
                 \/ CopiarPagina \/ DestruirPag \/ QuitarSegmento
                 \/ \E m \in Marcos : Desalojar(m) \/ SwapOutFalla(m)
          PROVE  caida' = caida
      BY <3>4 DEF SwapIn, SwapInFalla, TomarMarcoVacio, MemoriaLlena, CopiarPagina,
                  DestruirPag, QuitarSegmento, Desalojar, SwapOutFalla
    <3> QED
      BY <1>3, <3>1, <3>2, <3>3, <3>4 DEF Next, Paso
  <2> QED
    BY <2>3, <2>4, <2>5 DEF Caidas
<1> QED
  BY <1>2, <1>3

\* The server, once down, was brought down by a lost frame or, with LRU, by counters
\* that have all reached their top; if it has at least one frame.
THEOREM CaidasJustificadas == Spec => []Caidas
<1>1. Init => Caidas
  BY DEF Init, Caidas, Existe, Range
<1> QED
  BY <1>1, Inductivo, NextCaidas, PTL DEF Spec

\* The server goes down only after a frame has been lost to a swap file that could
\* not be created, as long as its counter of accesses has not reached the value
\* algoritmoLRU starts from; with CLOCK always (seleccionarMarcoVictima).
THEOREM CaidaSiempreSoloPorDisco ==
  NumMarcos # 0 /\ Spec => []((Algoritmo = "LRU" => contadorLRU < TopeLRU) => CaidaSoloPorDisco)
<1> SUFFICES ASSUME NumMarcos # 0
             PROVE  Spec => []((Algoritmo = "LRU" => contadorLRU < TopeLRU) => CaidaSoloPorDisco)
  OBVIOUS
<1>1. IInv /\ Caidas => ((Algoritmo = "LRU" => contadorLRU < TopeLRU) => CaidaSoloPorDisco)
  <2>1. IInv => contadorLRU \in Nat /\ TopeLRU \in Nat
    BY Constantes DEF IInv, TypeOK
  <2> QED
    BY <2>1 DEF Caidas, CaidaSoloPorDisco, EnListas
<1> QED
  BY <1>1, Inductivo, CaidasJustificadas, PTL

-------------------------------------------------------------------------------
\* The clients between the admission test and the subtraction of crearSegmento.
Admitidos == {h \in Hilos : solicitud[h] # Nada}

\* What the k clients in between can still take leaves the memory no more than a segment
\* for each client but one below zero: either the memory itself is above what all of them
\* may take, or it covers the request of one of them, the last one admitted.
Exceso ==
  LET k == Cardinality(Admitidos)
      n == Cardinality(Hilos)
  IN \/ memoriaDisponible >= (k + 1 - n) * MaxSegmento
     \/ \E h \in Admitidos : memoriaDisponible - solicitud[h].tamanio >= (k - n) * MaxSegmento

\* Multiples of a size.
LEMMA Multiplos ==
  ASSUME NEW m \in Nat, NEW a \in Int
  PROVE  /\ a * m \in Int /\ (a + 1) * m = a * m + m
         /\ \A b \in Int : a <= b => a * m <= b * m
<1>1. a * m \in Int /\ (a + 1) * m = a * m + m
  OBVIOUS
<1>2. ASSUME NEW b \in Int, a <= b
      PROVE  a * m <= b * m
  <2>1. (b - a) * m >= 0 /\ (b - a) * m = b * m - a * m
    BY <1>2
  <2> QED
    BY <2>1
<1> QED
  BY <1>1, <1>2

\* A client is admitted: the memory covers its request.
LEMMA ExcesoAdmite ==
  ASSUME IInv, NEW h \in Hilos, solicitud[h] = Nada, NEW s \in Solicitudes, s # Nada,
         s.tamanio <= memoriaDisponible, memoriaDisponible' = memoriaDisponible,
         solicitud' = [solicitud EXCEPT ![h] = s]
  PROVE  Exceso'
<1>1. memoriaDisponible \in Int /\ s.tamanio \in Nat /\ MaxSegmento \in Nat
  BY Constantes DEF IInv, TypeOK, Solicitudes
<1>2. IsFiniteSet(Admitidos') /\ Admitidos' \subseteq Hilos
  BY HayHilos, FS_Subset DEF Admitidos
<1>3. Cardinality(Admitidos') \in Nat /\ Cardinality(Hilos) \in Nat
      /\ Cardinality(Admitidos') <= Cardinality(Hilos)
  BY <1>2, HayHilos, FS_CardinalityType, FS_Subset
<1>4. h \in Admitidos' /\ solicitud'[h] = s
  BY DEF Admitidos, IInv, TypeOK
<1> DEFINE c == Cardinality(Admitidos') - Cardinality(Hilos)
<1>5. c * MaxSegmento <= 0 * MaxSegmento /\ c * MaxSegmento \in Int
  BY <1>1, <1>3, Multiplos
<1>6. memoriaDisponible - s.tamanio >= c * MaxSegmento
  BY <1>1, <1>5
<1> QED
  BY <1>4, <1>6 DEF Exceso

\* A client takes what it asked for.
LEMMA ExcesoToma ==
  ASSUME IInv, Exceso, NEW g \in Hilos, solicitud[g] # Nada,
         memoriaDisponible' = memoriaDisponible - solicitud[g].tamanio,
         solicitud' = [solicitud EXCEPT ![g] = Nada]
  PROVE  Exceso'
<1> DEFINE k == Cardinality(Admitidos)
           n == Cardinality(Hilos)
           M == MaxSegmento
           D == memoriaDisponible
           t(h) == solicitud[h].tamanio
<1>1. D \in Int /\ M \in Nat /\ \A h \in Admitidos : t(h) \in Nat /\ t(h) <= M
  BY Constantes DEF IInv, TypeOK, Solicitudes, Admitidos
<1>2. IsFiniteSet(Admitidos) /\ g \in Admitidos
  BY HayHilos, FS_Subset DEF Admitidos
<1>3. Admitidos' = Admitidos \ {g}
  BY DEF Admitidos, IInv, TypeOK
<1>4. k \in Nat /\ n \in Nat /\ Cardinality(Admitidos') = k - 1
  BY <1>2, <1>3, HayHilos, FS_CardinalityType, FS_RemoveElement
<1>5. \A h \in Admitidos : h # g => h \in Admitidos' /\ solicitud'[h] = solicitud[h]
  BY <1>3 DEF Admitidos, IInv, TypeOK
<1>6. /\ (k - n) * M \in Int /\ (k - n + 1) * M = (k - n) * M + M
      /\ (k - 1 - n) * M \in Int /\ (k - 1 - n + 1) * M = (k - 1 - n) * M + M
  BY <1>1, <1>4, Multiplos
<1>7. k - 1 - n + 1 = k - n /\ k - n + 1 = k + 1 - n /\ k - 1 + 1 - n = k - n
  BY <1>4
<1>8. t(g) \in Nat /\ t(g) <= M /\ D' = D - t(g)
  BY <1>1, <1>2
<1>9. CASE D >= (k + 1 - n) * M
  <2> DEFINE a == (k - n) * M
             b == (k + 1 - n) * M
  <2>1. b = a + M /\ a \in Int
    BY <1>6, <1>7
  <2> HIDE DEF a, b
  <2>2. D' >= a
    BY <1>1, <1>8, <1>9, <2>1 DEF b
  <2>3. D' >= (k - 1 + 1 - n) * M
    BY <1>7, <2>2 DEF a
  <2> QED
    BY <1>4, <2>3 DEF Exceso
<1>10. ASSUME NEW h \in Admitidos, D - t(h) >= (k - n) * M
       PROVE  Exceso'
  <2>1. CASE h = g
    <3>1. D' >= (k - 1 + 1 - n) * M
      BY <1>7, <1>8, <1>10, <2>1
    <3> QED
      BY <1>4, <3>1 DEF Exceso
  <2>2. CASE h # g
    <3> DEFINE a == (k - 1 - n) * M
               b == (k - n) * M
    <3>1. b = a + M /\ a \in Int
      BY <1>6, <1>7
    <3>2. t(h) \in Nat
      BY <1>1
    <3> HIDE DEF a, b, t
    <3>3. D' - t(h) >= a
      BY <1>1, <1>8, <1>10, <3>1, <3>2 DEF b
    <3>4. h \in Admitidos' /\ solicitud'[h].tamanio = t(h)
      BY <1>5, <2>2 DEF t
    <3>5. memoriaDisponible' - solicitud'[h].tamanio >= (k - 1 - n) * M
      BY <3>3, <3>4 DEF a
    <3> QED
      BY <1>4, <3>4, <3>5 DEF Exceso
  <2> QED
    BY <2>1, <2>2
<1> QED
  BY <1>9, <1>10 DEF Exceso

\* Memory that is given back.
LEMMA ExcesoDevuelve ==
  ASSUME IInv, Exceso, UNCHANGED solicitud, memoriaDisponible' \in Int,
         memoriaDisponible' >= memoriaDisponible
  PROVE  Exceso'
<1>1. memoriaDisponible \in Int /\ MaxSegmento \in Nat
      /\ \A h \in Admitidos : solicitud[h].tamanio \in Nat
  BY Constantes DEF IInv, TypeOK, Solicitudes, Admitidos
<1>2. Admitidos' = Admitidos
  BY DEF Admitidos
<1>3. Cardinality(Admitidos) \in Nat /\ Cardinality(Hilos) \in Nat
  BY HayHilos, FS_Subset, FS_CardinalityType DEF Admitidos
<1> DEFINE a == (Cardinality(Admitidos) + 1 - Cardinality(Hilos)) * MaxSegmento
           b == (Cardinality(Admitidos) - Cardinality(Hilos)) * MaxSegmento
<1>4. a \in Int /\ b \in Int
  BY <1>1, <1>3, Multiplos
<1>5. \/ memoriaDisponible >= a
      \/ \E h \in Admitidos : memoriaDisponible - solicitud[h].tamanio >= b
  BY DEF Exceso
<1>6. a' = a /\ b' = b
  BY <1>2
<1> HIDE DEF a, b
<1>7. \/ memoriaDisponible' >= a
      \/ \E h \in Admitidos : memoriaDisponible' - solicitud[h].tamanio >= b
  BY <1>1, <1>4, <1>5
<1> QED
  BY <1>2, <1>7 DEF Exceso, a, b

LEMMA NextExceso ==
  ASSUME IInv, Exceso, [Next]_vars
  PROVE  Exceso'
<1>1. /\ memoriaDisponible \in Int
      /\ \A h \in Hilos : solicitud[h] # Nada => solicitud[h].tamanio \in Nat
  BY Constantes DEF IInv, TypeOK, Solicitudes
<1>2. CASE UNCHANGED <<memoriaDisponible, solicitud>>
  BY <1>1, <1>2, ExcesoDevuelve
<1>3. ASSUME NEW h \in Hilos, AdmitirSegmento(h)
      PROVE  Exceso'
  <2>1. CASE UNCHANGED solicitud
    BY <1>2, <1>3, <2>1 DEF AdmitirSegmento
  <2>2. CASE \E pid \in PIDs, tamanio \in Tamanios :
               /\ Admisible(tamanio)
               /\ solicitud' = [solicitud EXCEPT ![h] = [pid |-> pid, tamanio |-> tamanio]]
    <3>1. PICK pid \in PIDs, tamanio \in Tamanios :
               /\ Admisible(tamanio)
               /\ solicitud' = [solicitud EXCEPT ![h] = [pid |-> pid, tamanio |-> tamanio]]
      BY <2>2
    <3> DEFINE s == [pid |-> pid, tamanio |-> tamanio]
    <3>2. memoriaDisponible' = memoriaDisponible /\ s.tamanio <= memoriaDisponible
          /\ solicitud[h] = Nada
      BY <1>3, <3>1 DEF AdmitirSegmento, Admisible, Ociosa
    <3>3. s \in Solicitudes /\ s # Nada
      BY <3>1, NadaEsOtro DEF Admisible, Solicitudes
    <3> HIDE DEF s
    <3>4. solicitud' = [solicitud EXCEPT ![h] = s]
      BY <3>1 DEF s
    <3> QED
      BY <3>2, <3>3, <3>4, ExcesoAdmite
  <2> QED
    BY <1>3, <2>1, <2>2 DEF AdmitirSegmento
<1>4. ASSUME NEW h \in Hilos, AgregarSegmento(h)
      PROVE  Exceso'
  <2>1. /\ solicitud[h] # Nada /\ solicitud' = [solicitud EXCEPT ![h] = Nada]
        /\ memoriaDisponible' = memoriaDisponible - solicitud[h].tamanio
    BY <1>4 DEF AgregarSegmento
  <2> QED
    BY <2>1, ExcesoToma
<1>5. ASSUME QuitarSegmento
      PROVE  Exceso'
  <2>1. PICK i \in DOMAIN segmentos[enCurso.pid] :
          memoriaDisponible' = memoriaDisponible + segmentos[enCurso.pid][i].tamanio
    BY <1>5 DEF QuitarSegmento, MemoriaDevuelta
  <2>2. enCurso.pid \in PIDs /\ solicitud' = solicitud
    BY <1>5 DEF QuitarSegmento, En, IInv, TypeOK, Operaciones
  <2>3. segmentos[enCurso.pid][i].tamanio \in Nat
    <3> DEFINE s == segmentos[enCurso.pid]
    <3>1. s \in Seq(Segmentos) /\ i \in DOMAIN s
      BY <2>2 DEF IInv, TypeOK
    <3> HIDE DEF s
    <3>2. s[i] \in Segmentos
      BY <3>1
    <3> QED
      BY <3>2 DEF Segmentos, s
  <2>4. memoriaDisponible' \in Int /\ memoriaDisponible' >= memoriaDisponible
    BY <1>1, <2>1, <2>3
  <2> QED
    BY <2>2, <2>4, ExcesoDevuelve
<1>6. ASSUME NEW h \in Hilos, SolicitarMemoria(h) \/ EscribirMemoria(h) \/ DestruirSegmento(h)
      PROVE  UNCHANGED <<memoriaDisponible, solicitud>>
  BY <1>6 DEF SolicitarMemoria, EscribirMemoria, DestruirSegmento, Acceder
<1>7. ASSUME \/ SwapIn \/ SwapInFalla \/ TomarMarcoVacio \/ MemoriaLlena \/ SinVictima
             \/ CopiarPagina \/ DestruirPag
             \/ \E m \in Marcos : Desalojar(m) \/ SwapOutFalla(m)
      PROVE  UNCHANGED <<memoriaDisponible, solicitud>>
  BY <1>7 DEF SwapIn, SwapInFalla, TomarMarcoVacio, MemoriaLlena, SinVictima, CopiarPagina,
              DestruirPag, Desalojar, SwapOutFalla
<1>8. UNCHANGED vars => UNCHANGED <<memoriaDisponible, solicitud>>
  BY DEF vars
<1> QED
  BY <1>2, <1>3, <1>4, <1>5, <1>6, <1>7, <1>8 DEF Next, Paso

\* However many clients create segments at once, what they are promised goes past the memory
\* there is by no more than a segment for each of them but one (crearSegmento).
THEOREM ExcesoSiempreAcotado == Spec => []ExcesoAcotado
<1>1. Cardinality(Hilos) \in Nat \ {0}
  BY HayHilos, FS_CardinalityType, FS_EmptySet
<1>2. Init => Exceso
  <2> SUFFICES ASSUME Init PROVE Exceso
    OBVIOUS
  <2>1. memoriaDisponible = NumMarcos * TamPag + CantidadSwap
    BY DEF Init
  <2>2. memoriaDisponible \in Int /\ memoriaDisponible >= 0
    <3>1. NumMarcos * TamPag \in Nat
      BY Constantes
    <3> QED
      BY <2>1, <3>1, Constantes
  <2>3. Admitidos = {}
    BY DEF Init, Admitidos
  <2>4. Cardinality(Admitidos) = 0
    BY <2>3, FS_EmptySet
  <2>5. (0 + 1 - Cardinality(Hilos)) * MaxSegmento <= 0 * MaxSegmento
        /\ (0 + 1 - Cardinality(Hilos)) * MaxSegmento \in Int
    BY <1>1, Constantes, Multiplos
  <2>6. memoriaDisponible >= (0 + 1 - Cardinality(Hilos)) * MaxSegmento
    BY <2>2, <2>5, Constantes
  <2> QED
    BY <2>4, <2>6 DEF Exceso
<1>3. IInv /\ Exceso /\ [Next]_vars => Exceso'
  BY NextExceso
<1>4. IInv /\ Exceso => ExcesoAcotado
  <2> SUFFICES ASSUME IInv, Exceso PROVE ExcesoAcotado
    OBVIOUS
  <2> DEFINE k == Cardinality(Admitidos)
             n == Cardinality(Hilos)
             a == (1 - n) * MaxSegmento
  <2>1. memoriaDisponible \in Int /\ MaxSegmento \in Nat
        /\ \A h \in Admitidos : solicitud[h].tamanio \in Nat
    BY Constantes DEF IInv, TypeOK, Solicitudes, Admitidos
  <2>2. IsFiniteSet(Admitidos) /\ k \in Nat
    BY HayHilos, FS_Subset, FS_CardinalityType DEF Admitidos
  <2>3. a \in Int /\ (k + 1 - n) * MaxSegmento \in Int /\ a <= (k + 1 - n) * MaxSegmento
    BY <1>1, <2>1, <2>2, Multiplos
  <2>4. ASSUME NEW h \in Admitidos,
               memoriaDisponible - solicitud[h].tamanio >= (k - n) * MaxSegmento
        PROVE  memoriaDisponible >= a
    <3>1. k # 0
      BY <2>2, FS_EmptySet
    <3>2. 1 - n <= k - n /\ k - n \in Int /\ 1 - n \in Int
      BY <1>1, <2>2, <3>1
    <3>3. a <= (k - n) * MaxSegmento /\ (k - n) * MaxSegmento \in Int
      BY <2>1, <3>2, Multiplos
    <3> DEFINE b == (k - n) * MaxSegmento
    <3> HIDE DEF a, b
    <3> QED
      BY <2>1, <2>3, <2>4, <3>3 DEF b
  <2>5. memoriaDisponible >= a
    <3> DEFINE b == (k + 1 - n) * MaxSegmento
    <3>1. CASE memoriaDisponible >= b
      <4> HIDE DEF a, b
      <4> QED
        BY <2>1, <2>3, <3>1 DEF b
    <3> QED
      BY <2>4, <3>1 DEF Exceso
  <2>6. a = -((n - 1) * MaxSegmento)
    BY <1>1, <2>1
  <2> QED
    BY <2>5, <2>6 DEF ExcesoAcotado
<1> QED
  BY <1>2, <1>3, <1>4, Inductivo, PTL DEF Spec

\* A number below ten is written with one digit, itself.
LEMMA CifrasDeUno ==
  ASSUME NEW n \in 0 .. 9
  PROVE  /\ DOMAIN Cifras(n) = 1 .. 1 /\ Cifras(n)[1] = n
         /\ Cifras(n) \in Seq(0 .. 9) /\ Len(Cifras(n)) = 1
<1> DEFINE Larga(l) == n < 10 ^ l /\ (l = 1 \/ n >= 10 ^ (l - 1))
           largo == CHOOSE l \in 1 .. 10 : Larga(l)
<1>1. \A l \in 2 .. 10 : 10 ^ (l - 1) >= 10
  <2>1. /\ 10 ^ 1 >= 10 /\ 10 ^ 2 >= 10 /\ 10 ^ 3 >= 10 /\ 10 ^ 4 >= 10 /\ 10 ^ 5 >= 10
        /\ 10 ^ 6 >= 10 /\ 10 ^ 7 >= 10 /\ 10 ^ 8 >= 10 /\ 10 ^ 9 >= 10
    OBVIOUS
  <2>2. \A l \in 2 .. 10 : l - 1 \in {1, 2, 3, 4, 5, 6, 7, 8, 9}
    OBVIOUS
  <2>3. \A x \in {1, 2, 3, 4, 5, 6, 7, 8, 9} : 10 ^ x >= 10
    BY <2>1
  <2> QED
    BY <2>2, <2>3
<1>2. Larga(1) /\ 10 ^ (1 - 1) = 1
  <2>1. 10 ^ 1 = 10 /\ 10 ^ 0 = 1
    OBVIOUS
  <2>2. 1 - 1 = 0
    OBVIOUS
  <2> QED
    BY <2>1, <2>2
<1> DEFINE P(l) == 10 ^ (l - 1)
<1>a. \A l \in 2 .. 10 : P(l) >= 10
  BY <1>1
<1>b. \A l \in 1 .. 10 : Larga(l) => (l = 1 \/ n >= P(l))
  OBVIOUS
<1> HIDE DEF P, Larga
<1>c. \A l \in 2 .. 10 : P(l) \in Int
  <2>1. \A x \in {1, 2, 3, 4, 5, 6, 7, 8, 9} : 10 ^ x \in Int
    OBVIOUS
  <2>2. \A l \in 2 .. 10 : l - 1 \in {1, 2, 3, 4, 5, 6, 7, 8, 9}
    OBVIOUS
  <2> QED
    BY <2>1, <2>2 DEF P
<1>3. \A l \in 1 .. 10 : Larga(l) => l = 1
  <2>1. ASSUME NEW l \in 1 .. 10, Larga(l), l # 1 PROVE FALSE
    <3>1. l \in 2 .. 10
      BY <2>1
    <3>2. n >= P(l)
      BY <1>b, <2>1
    <3>3. P(l) >= 10 /\ P(l) \in Int
      BY <1>a, <1>c, <3>1
    <3> QED
      BY <3>2, <3>3
  <2> QED
    BY <2>1
<1> HIDE DEF Larga
<1>4. largo = 1
  BY <1>2, <1>3
<1>5. Cifras(n) = [i \in 1 .. largo |-> (n \div 10 ^ (largo - i)) % 10]
  BY DEF Cifras, Larga
<1> HIDE DEF largo
<1>6. Cifras(n) = [i \in 1 .. 1 |-> (n \div 10 ^ (1 - i)) % 10]
  BY <1>4, <1>5
<1>7. Cifras(n)[1] = (n \div 10 ^ (1 - 1)) % 10
  BY <1>6
<1>8. Cifras(n)[1] = n
  BY <1>2, <1>7
<1>9. Cifras(n) \in [1 .. 1 -> 0 .. 9]
  <2>1. Cifras(n) = [i \in 1 .. 1 |-> Cifras(n)[1]]
    BY <1>6
  <2> QED
    BY <1>8, <2>1
<1>10. ASSUME NEW f \in [1 .. 1 -> 0 .. 9]
       PROVE  f \in Seq(0 .. 9) /\ Len(f) = 1
  <2>1. DOMAIN f = 1 .. 1 /\ 1 \in Nat
    OBVIOUS
  <2>2. f \in Seq(0 .. 9)
    BY <2>1, SeqDef
  <2> QED
    BY <2>1, <2>2, LenProperties
<1> QED
  BY <1>6, <1>8, <1>9, <1>10

\* The name of a swap file (obtenerFilePath) tells pages apart as long as PIDs, SIDs and page
\* numbers have one digit each: RutasDistintas, which the theorems about the swap directory
\* suppose, then holds.
THEOREM RutasDeUnaCifra ==
  ASSUME \A k \in Claves : k[1] \in 0 .. 9 /\ k[2] \in 0 .. 9 /\ k[3] \in 0 .. 9
  PROVE  RutasDistintas
<1> SUFFICES ASSUME NEW k \in Claves, NEW l \in Claves, obtenerFilePath(k) = obtenerFilePath(l)
             PROVE  k = l
  BY DEF RutasDistintas
<1>1. ASSUME NEW q \in Claves
      PROVE  /\ obtenerFilePath(q)[1] = q[1] /\ obtenerFilePath(q)[2] = q[2]
             /\ obtenerFilePath(q)[3] = q[3]
  <2> DEFINE a == Cifras(q[1])
             b == Cifras(q[2])
             c == Cifras(q[3])
  <2>1. /\ a \in Seq(0 .. 9) /\ Len(a) = 1 /\ a[1] = q[1]
        /\ b \in Seq(0 .. 9) /\ Len(b) = 1 /\ b[1] = q[2]
        /\ c \in Seq(0 .. 9) /\ Len(c) = 1 /\ c[1] = q[3]
    BY CifrasDeUno
  <2>2. obtenerFilePath(q) = a \o b \o c
    BY DEF obtenerFilePath
  <2> HIDE DEF a, b, c
  <2>3. (a \o b) \in Seq(0 .. 9) /\ Len(a \o b) = 2 /\ (a \o b)[1] = a[1] /\ (a \o b)[2] = b[1]
    BY <2>1
  <2>4. PICK d : d = a \o b
    OBVIOUS
  <2>5. (d \o c)[1] = d[1] /\ (d \o c)[2] = d[2] /\ (d \o c)[3] = c[1]
    BY <2>1, <2>3, <2>4
  <2> QED
    BY <2>1, <2>2, <2>3, <2>4, <2>5
<1>2. k[1] = l[1] /\ k[2] = l[2] /\ k[3] = l[3]
  BY <1>1
<1> QED
  BY <1>2 DEF Claves

-------------------------------------------------------------------------------
(* What LRU evicts *)

\* The page the access has reached is about to be copied.
PorCopiar(k) == enCurso # Nada /\ enCurso.paso = "copia" /\ k = Actual

\* The page k has a frame, and it has been copied since it got it.
Usada(k) == Existe(k) /\ pagina[k].marcoID # SinMarco /\ ~PorCopiar(k)

\* Each access leaves its page with the counter of accesses, which only then goes on,
\* so pages with a frame never share a counter.
CuentasDistintas ==
  /\ \A k \in Claves : Usada(k) => pagina[k].contadorLRU < contadorLRU
  /\ \A k, l \in Claves :
       Usada(k) /\ Usada(l) /\ pagina[k].contadorLRU = pagina[l].contadorLRU => k = l

\* A read that has copied something.
LeyoAlgo == enCurso # Nada /\ enCurso.op = "solicitar" /\ enCurso.bytes # <<>>

\* The page that it has copied last.
Anterior == <<enCurso.pid, enCurso.sid, enCurso.pag - 1>>

\* That page has the last counter given, with or without a frame.
UltimaLeida ==
  LeyoAlgo => /\ enCurso.pag >= 1 /\ Existe(Anterior)
              /\ pagina[Anterior].contadorLRU = contadorLRU - 1

\* Every step but the copy leaves the counter of accesses, the counters of the pages in
\* use and what the read in progress has copied; no page comes into use.
LEMMA SinCopia ==
  ASSUME IInv, Next, ~CopiarPagina
  PROVE  /\ contadorLRU' = contadorLRU
         /\ \A k \in Claves : Usada(k)' =>
              Usada(k) /\ pagina'[k].contadorLRU = pagina[k].contadorLRU
         /\ LeyoAlgo' =>
              /\ LeyoAlgo /\ enCurso'.pag = enCurso.pag /\ Anterior' = Anterior
              /\ \A k \in Claves : Existe(k) =>
                   Existe(k)' /\ pagina'[k].contadorLRU = pagina[k].contadorLRU
<1> DEFINE Quietas == \A k \in Claves : Usada(k)' =>
                        Usada(k) /\ pagina'[k].contadorLRU = pagina[k].contadorLRU
           Sigue   == LeyoAlgo' =>
                        /\ LeyoAlgo /\ enCurso'.pag = enCurso.pag /\ Anterior' = Anterior
                        /\ \A k \in Claves : Existe(k) =>
                             Existe(k)' /\ pagina'[k].contadorLRU = pagina[k].contadorLRU
           Bien    == contadorLRU' = contadorLRU /\ Quietas /\ Sigue
<1>1. ASSUME NEW h \in Hilos, AdmitirSegmento(h)
      PROVE  Bien
  <2>1. UNCHANGED <<pagina, contadorLRU, enCurso>>
    BY <1>1 DEF AdmitirSegmento
  <2> QED
    BY <2>1 DEF Usada, Existe, PorCopiar, Actual, LeyoAlgo, Anterior
<1>2. ASSUME NEW h \in Hilos, AgregarSegmento(h)
      PROVE  Bien
  <2>1. /\ enCurso = Nada /\ enCurso' = Nada /\ contadorLRU' = contadorLRU
        /\ \A k \in Claves : pagina'[k] = PaginaVacia \/ pagina'[k] = pagina[k]
    BY <1>2 DEF AgregarSegmento, crearPaginasPorTamanioSegmento
  <2>2. PaginaVacia.marcoID = SinMarco
    BY DEF PaginaVacia
  <2> QED
    BY <2>1, <2>2 DEF Usada, Existe, PorCopiar, LeyoAlgo
<1>3. ASSUME NEW h \in Hilos, SolicitarMemoria(h) \/ EscribirMemoria(h) \/ DestruirSegmento(h)
      PROVE  Bien
  <2>1. enCurso = Nada /\ UNCHANGED <<pagina, contadorLRU>>
    BY <1>3 DEF SolicitarMemoria, EscribirMemoria, Acceder, DestruirSegmento
  <2>2. enCurso' # Nada => enCurso'.bytes = <<>> \/ enCurso'.op # "solicitar"
    <3>1. ASSUME NEW r, NEW n, NEW b, Acceder(h, "escribir", r, n, b), enCurso' # Nada
          PROVE  enCurso'.op # "solicitar"
      BY <2>1, <3>1 DEF Acceder
    <3>2. ASSUME NEW r, NEW n, Acceder(h, "solicitar", r, n, <<>>), enCurso' # Nada
          PROVE  enCurso'.bytes = <<>>
      BY <2>1, <3>2 DEF Acceder
    <3>3. ASSUME DestruirSegmento(h), enCurso' # Nada
          PROVE  enCurso'.bytes = <<>>
      BY <3>3 DEF DestruirSegmento
    <3> QED
      BY <1>3, <3>1, <3>2, <3>3 DEF SolicitarMemoria, EscribirMemoria
  <2>3. Quietas
    BY <2>1 DEF Usada, Existe, PorCopiar
  <2>4. ~LeyoAlgo'
    BY <2>2 DEF LeyoAlgo
  <2> QED
    BY <2>1, <2>3, <2>4
<1>4. ASSUME SwapInFalla \/ MemoriaLlena \/ QuitarSegmento
      PROVE  Bien
  <2>1. UNCHANGED <<pagina, contadorLRU>> /\ enCurso' = Nada
    BY <1>4 DEF SwapInFalla, MemoriaLlena, QuitarSegmento, Fracasar
  <2>2. enCurso # Nada /\ enCurso.paso # "copia"
    BY <1>4 DEF SwapInFalla, MemoriaLlena, QuitarSegmento, En
  <2> QED
    BY <2>1, <2>2 DEF Usada, Existe, PorCopiar, LeyoAlgo
<1>5. ASSUME SinVictima
      PROVE  Bien
  <2>1. UNCHANGED <<pagina, contadorLRU, enCurso>>
    BY <1>5 DEF SinVictima
  <2> QED
    BY <2>1 DEF Usada, Existe, PorCopiar, Actual, LeyoAlgo, Anterior
<1>6. ASSUME SwapIn \/ TomarMarcoVacio \/ (\E m \in Marcos : Desalojar(m))
      PROVE  Bien
  <2>1. /\ enCurso # Nada /\ enCurso.paso \in {"swapin", "marco"} /\ contadorLRU' = contadorLRU
        /\ \/ SwapIn /\ enCurso' = [enCurso EXCEPT !.paso = "marco"]
           \/ ~SwapIn /\ enCurso' = [enCurso EXCEPT !.paso = "copia"]
    BY <1>6 DEF SwapIn, TomarMarcoVacio, Desalojar, BuscaVictima, En
  <2>2. /\ enCurso \in Operaciones /\ Actual \in Claves /\ pagina[Actual] \in Paginas
        /\ pagina[Actual] # Nada
    BY <2>1, ActualExiste, NadaEsOtro DEF IInv
  <2>3. /\ enCurso'.pid = enCurso.pid /\ enCurso'.sid = enCurso.sid /\ enCurso'.pag = enCurso.pag
        /\ enCurso'.op = enCurso.op /\ enCurso'.bytes = enCurso.bytes
        /\ ~SwapIn => enCurso'.paso = "copia" /\ enCurso' # Nada
    <3>1. ~SwapIn => enCurso' \in Operaciones
      BY <2>1, <2>2 DEF Operaciones
    <3> QED
      BY <2>1, <2>2, <3>1, NadaEsOtro DEF Operaciones
  <2>4. /\ \A k \in Claves : Existe(k) =>
             Existe(k)' /\ pagina'[k].contadorLRU = pagina[k].contadorLRU
        /\ \A k \in Claves : Existe(k)' => Existe(k)
        /\ \A k \in Claves : Existe(k) /\ k # Actual /\ pagina'[k].marcoID # SinMarco =>
             pagina[k].marcoID # SinMarco
        /\ SwapIn => pagina'[Actual].marcoID = pagina[Actual].marcoID
    <3>1. CASE SwapIn
      <4> DEFINE d == HastaNul(archivos[obtenerFilePath(Actual)], pagina[Actual].data)
      <4>1. d \in Datos
        <5>1. archivos[obtenerFilePath(Actual)] \in Datos /\ pagina[Actual].data \in Datos
          BY <2>2, <3>1 DEF SwapIn, IInv, TypeOK, Rutas, Paginas
        <5> QED
          BY <5>1 DEF HastaNul, Datos
      <4>2. /\ pagina'[Actual] = [pagina[Actual] EXCEPT !.data = d, !.swapped = FALSE]
            /\ \A k \in Claves : k # Actual => pagina'[k] = pagina[k]
        BY <2>2, <3>1 DEF SwapIn, IInv, TypeOK
      <4> HIDE DEF d
      <4>3. /\ pagina'[Actual].contadorLRU = pagina[Actual].contadorLRU
            /\ pagina'[Actual].marcoID = pagina[Actual].marcoID
            /\ pagina'[Actual] \in Paginas
        BY <2>2, <4>1, <4>2 DEF Paginas
      <4> QED
        BY <2>2, <4>2, <4>3, NadaEsOtro DEF Existe
    <3>2. CASE TomarMarcoVacio
      <4>1. Head(marcosVacios) \in Marcos
        BY <3>2, RangoTail DEF TomarMarcoVacio, IInv, TypeOK
      <4>2. /\ pagina'[Actual] = [pagina[Actual] EXCEPT !.marcoID = Head(marcosVacios),
                                                        !.bitReferencia = 1]
            /\ \A k \in Claves : k # Actual => pagina'[k] = pagina[k]
        BY <2>2, <3>2 DEF TomarMarcoVacio, IInv, TypeOK
      <4>3. /\ pagina'[Actual].contadorLRU = pagina[Actual].contadorLRU
            /\ pagina'[Actual] \in Paginas
        BY <2>2, <4>1, <4>2 DEF Paginas
      <4>4. ~SwapIn
        BY <3>2 DEF SwapIn, TomarMarcoVacio, En
      <4> QED
        BY <2>2, <4>2, <4>3, <4>4, NadaEsOtro DEF Existe
    <3>3. ASSUME NEW m \in Marcos, Desalojar(m)
          PROVE  <2>4
      <4>1. ~SwapIn
        BY <3>3 DEF SwapIn, Desalojar, BuscaVictima, En
      <4>2. \A k \in Claves : Existe(k) /\ k # Actual /\ pagina'[k].marcoID # SinMarco
              => pagina[k].marcoID # SinMarco
        <5>1. pagina'[marco[m]].marcoID = SinMarco
          BY <3>3, DesalojarPaginas
        <5> QED
          BY <3>3, <5>1, DesalojarMarcos
      <4>3. \A k \in Claves : /\ Existe(k)' <=> Existe(k)
                              /\ Existe(k) => pagina'[k].contadorLRU = pagina[k].contadorLRU
        BY <3>3, DesalojarPaginas
      <4> QED
        BY <4>1, <4>2, <4>3
    <3> QED
      BY <1>6, <3>1, <3>2, <3>3
  <2>5. Quietas
    <3> SUFFICES ASSUME NEW k \in Claves, Usada(k)'
                 PROVE  Usada(k) /\ pagina'[k].contadorLRU = pagina[k].contadorLRU
      OBVIOUS
    <3>1. Existe(k)' /\ pagina'[k].marcoID # SinMarco /\ ~PorCopiar(k)'
      BY DEF Usada
    <3>2. ~PorCopiar(k)
      BY <2>1 DEF PorCopiar
    <3>3. ~SwapIn => k # Actual
      BY <2>3, <3>1 DEF PorCopiar, Actual
    <3>4. pagina[k].marcoID # SinMarco
      BY <2>4, <3>1, <3>3
    <3> QED
      BY <2>4, <3>1, <3>2, <3>4 DEF Usada
  <2>6. Sigue
    BY <2>1, <2>3, <2>4 DEF LeyoAlgo, Anterior
  <2> QED
    BY <2>1, <2>5, <2>6
<1>7. ASSUME NEW m \in Marcos, SwapOutFalla(m)
      PROVE  Bien
  <2>1. /\ pagina' = Repasar /\ contadorLRU' = contadorLRU /\ enCurso' = Nada
        /\ enCurso.paso = "marco"
    BY <1>7 DEF SwapOutFalla, Fracasar, BuscaVictima, En
  <2>2. \A k \in Claves : /\ Repasar[k] = Nada <=> pagina[k] = Nada
                          /\ pagina[k] # Nada =>
                               /\ Repasar[k].marcoID = pagina[k].marcoID
                               /\ Repasar[k].contadorLRU = pagina[k].contadorLRU
    BY RepasarPaginas, RepasarDatos
  <2> QED
    BY <2>1, <2>2 DEF Usada, Existe, PorCopiar, LeyoAlgo
<1>8. ASSUME DestruirPag
      PROVE  Bien
  <2>1. /\ enCurso # Nada /\ enCurso.paso = "destruir" /\ contadorLRU' = contadorLRU
        /\ Actual \in Claves /\ pagina' = [pagina EXCEPT ![Actual] = Nada]
        /\ enCurso' = [enCurso EXCEPT !.pag = @ + 1]
    BY <1>8 DEF DestruirPag, En
  <2>2. enCurso \in Operaciones /\ enCurso.op = "destruir"
    BY <2>1 DEF IInv, TypeOK, OperacionEnCurso
  <2>3. enCurso'.op = "destruir"
    BY <2>1, <2>2 DEF Operaciones
  <2>4. \A k \in Claves : pagina'[k] = IF k = Actual THEN Nada ELSE pagina[k]
    BY <2>1 DEF IInv, TypeOK
  <2> QED
    BY <2>1, <2>3, <2>4 DEF Usada, Existe, PorCopiar, LeyoAlgo
<1> HIDE DEF Bien
<1>9. Bien
  BY <1>1, <1>2, <1>3, <1>4, <1>5, <1>6, <1>7, <1>8 DEF Next, Paso
<1> QED
  BY <1>9 DEF Bien

\* The copy gives its page the counter of accesses, which no page in use has.
LEMMA NextCuentas ==
  IInv /\ CuentasDistintas /\ UltimaLeida /\ [Next]_vars => CuentasDistintas' /\ UltimaLeida'
<1> SUFFICES ASSUME IInv, CuentasDistintas, UltimaLeida, [Next]_vars
             PROVE  CuentasDistintas' /\ UltimaLeida'
  OBVIOUS
<1>1. CASE UNCHANGED vars
  BY <1>1 DEF vars, CuentasDistintas, UltimaLeida, Usada, Existe, PorCopiar, Actual, LeyoAlgo,
              Anterior
<1>2. CASE Next /\ ~CopiarPagina
  <2>1. /\ contadorLRU' = contadorLRU
        /\ \A k \in Claves : Usada(k)' =>
              Usada(k) /\ pagina'[k].contadorLRU = pagina[k].contadorLRU
        /\ LeyoAlgo' =>
              /\ LeyoAlgo /\ enCurso'.pag = enCurso.pag /\ Anterior' = Anterior
              /\ \A k \in Claves : Existe(k) =>
                   Existe(k)' /\ pagina'[k].contadorLRU = pagina[k].contadorLRU
    BY <1>2, SinCopia
  <2>2. CuentasDistintas'
    BY <2>1 DEF CuentasDistintas
  <2>3. UltimaLeida'
    <3> SUFFICES ASSUME LeyoAlgo'
                 PROVE  /\ enCurso'.pag >= 1 /\ Existe(Anterior)'
                        /\ pagina'[Anterior'].contadorLRU = contadorLRU' - 1
      BY DEF UltimaLeida
    <3>1. /\ enCurso.pag >= 1 /\ Existe(Anterior)
          /\ pagina[Anterior].contadorLRU = contadorLRU - 1
      BY <2>1 DEF UltimaLeida
    <3>2. Anterior \in Claves
      BY <3>1 DEF Existe
    <3> QED
      BY <2>1, <3>1, <3>2
  <2> QED
    BY <2>2, <2>3
<1>3. CASE CopiarPagina
  <2>1. /\ contadorLRU' = contadorLRU + 1 /\ enCurso # Nada /\ enCurso.paso = "copia"
        /\ \/ enCurso' = Nada
           \/ enCurso' = [enCurso EXCEPT
                !.pag = @ + 1, !.desp = 0, !.resta = @ - Tramo, !.bytes = BytesTrasCopia,
                !.paso = PrimerPaso(<<enCurso.pid, enCurso.sid, enCurso.pag + 1>>)]
    BY <1>3 DEF CopiarPagina, En
  <2>2. /\ enCurso \in Operaciones /\ Actual \in Claves /\ pagina[Actual] \in Paginas
        /\ Existe(Actual)
        /\ \A k \in Claves : pagina'[k] = IF k = Actual THEN Copiada ELSE pagina[k]
        /\ \A k \in Claves : Existe(k)' <=> Existe(k)
    BY <1>3, CopiarPaginas
  <2>3. Copiada.contadorLRU = contadorLRU /\ contadorLRU \in Nat
    BY <2>2 DEF Copiada, Paginas, IInv, TypeOK
  <2>4. \A k \in Claves : k # Actual /\ Usada(k)' =>
          /\ Usada(k) /\ pagina'[k].contadorLRU = pagina[k].contadorLRU
          /\ pagina[k].contadorLRU < contadorLRU /\ pagina[k].contadorLRU \in Nat
    <3> SUFFICES ASSUME NEW k \in Claves, k # Actual, Usada(k)'
                 PROVE  /\ Usada(k) /\ pagina'[k].contadorLRU = pagina[k].contadorLRU
                        /\ pagina[k].contadorLRU < contadorLRU /\ pagina[k].contadorLRU \in Nat
      OBVIOUS
    <3>1. pagina'[k] = pagina[k] /\ Existe(k)
      BY <2>2 DEF Usada
    <3>2. Usada(k)
      BY <3>1 DEF Usada, PorCopiar
    <3>3. pagina[k] \in Paginas
      BY <3>1 DEF Existe, IInv, TypeOK
    <3> QED
      BY <3>1, <3>2, <3>3 DEF CuentasDistintas, Paginas
  <2>5. pagina'[Actual].contadorLRU = contadorLRU
    BY <2>2, <2>3
  <2>6. CuentasDistintas'
    <3>1. \A k \in Claves : Usada(k)' => pagina'[k].contadorLRU < contadorLRU'
      BY <2>1, <2>3, <2>4, <2>5
    <3>2. \A k, l \in Claves :
            Usada(k)' /\ Usada(l)' /\ pagina'[k].contadorLRU = pagina'[l].contadorLRU => k = l
      BY <2>3, <2>4, <2>5 DEF CuentasDistintas
    <3> QED
      BY <3>1, <3>2 DEF CuentasDistintas
  <2>7. UltimaLeida'
    <3> SUFFICES ASSUME LeyoAlgo'
                 PROVE  /\ enCurso'.pag >= 1 /\ Existe(Anterior)'
                        /\ pagina'[Anterior'].contadorLRU = contadorLRU' - 1
      BY DEF UltimaLeida
    <3>1. /\ enCurso'.pag = enCurso.pag + 1 /\ enCurso'.pid = enCurso.pid
          /\ enCurso'.sid = enCurso.sid /\ enCurso.pag \in Nat
      <4> DEFINE paso == PrimerPaso(<<enCurso.pid, enCurso.sid, enCurso.pag + 1>>)
                 resta == enCurso.resta - Tramo
                 bytes == BytesTrasCopia
      <4>1. enCurso' = [enCurso EXCEPT !.pag = @ + 1, !.desp = 0, !.resta = resta,
                                       !.bytes = bytes, !.paso = paso]
        BY <2>1 DEF LeyoAlgo
      <4> HIDE DEF paso, resta, bytes
      <4> QED
        BY <2>2, <4>1, Constantes DEF Operaciones
    <3>2. Anterior' = Actual
      BY <3>1 DEF Anterior, Actual
    <3> QED
      BY <2>1, <2>2, <2>3, <2>5, <3>1, <3>2
  <2> QED
    BY <2>6, <2>7
<1> QED
  BY <1>1, <1>2, <1>3

\* At the eviction every resident page is in use, so the page just read has the greatest
\* counter, alone: it is the victim only when no other page is resident.
LEMMA VictimaNoAnterior ==
  ASSUME IInv, CuentasDistintas, UltimaLeida, Algoritmo = "LRU", contadorLRU <= TopeLRU,
         LeyoAlgo, NEW m \in Marcos, Desalojar(m), marco[m] = Anterior
  PROVE  marcosLlenos = {m}
<1>1. /\ m \in marcosLlenos /\ VictimaLRU(m) /\ ~PaginaLiberada
      /\ enCurso.paso = "marco"
  BY DEF Desalojar, BuscaVictima, En, seleccionarMarcoVictima
<1>2. \A i \in Posiciones : /\ paginasEnMemoria[i] \in Claves /\ Usada(paginasEnMemoria[i])
                            /\ Res(i) \in Paginas
  <2> SUFFICES ASSUME NEW i \in Posiciones
               PROVE  /\ paginasEnMemoria[i] \in Claves /\ Usada(paginasEnMemoria[i])
                      /\ Res(i) \in Paginas
    OBVIOUS
  <2>1. paginasEnMemoria[i] \in Range(paginasEnMemoria) \ {Nada}
    BY <1>1 DEF PaginaLiberada, Range, Posiciones
  <2>2. Existe(paginasEnMemoria[i]) /\ Res(i).marcoID \in Marcos
    BY <2>1 DEF IInv, Marcacion, ListadasResidentes, Res
  <2>3. Res(i).marcoID # SinMarco
    BY <2>2, Constantes DEF Marcos, SinMarco
  <2> QED
    BY <1>1, <2>2, <2>3 DEF Usada, PorCopiar, Existe, Res, IInv, TypeOK
<1>3. \A l \in marcosLlenos : \E i \in Posiciones : paginasEnMemoria[i] = marco[l]
  BY DEF IInv, Marcacion, MarcoYPagina, Range, Posiciones
<1>4. PICK a \in Posiciones : paginasEnMemoria[a] = Anterior
  BY <1>1, <1>3
<1>5. Res(a).contadorLRU = contadorLRU - 1 /\ contadorLRU \in Nat /\ TopeLRU \in Nat
  BY <1>4, Constantes DEF UltimaLeida, Res, IInv, TypeOK
<1>6. \E i \in Posiciones : Res(i).contadorLRU < TopeLRU
  BY <1>5
<1>7. PICK i \in Posiciones : /\ m = Res(i).marcoID
                              /\ \A j \in Posiciones : Res(i).contadorLRU <= Res(j).contadorLRU
  BY <1>1, <1>6 DEF VictimaLRU
<1>8. paginasEnMemoria[i] = Anterior
  <2>1. paginasEnMemoria[i] \in Range(paginasEnMemoria) \ {Nada}
    BY <1>1 DEF PaginaLiberada, Range, Posiciones
  <2> QED
    BY <1>7, <2>1 DEF IInv, Marcacion, ListadasResidentes, Res
<1>9. \A j \in Posiciones : paginasEnMemoria[j] = Anterior
  <2> SUFFICES ASSUME NEW j \in Posiciones PROVE paginasEnMemoria[j] = Anterior
    OBVIOUS
  <2>1. Res(i).contadorLRU = contadorLRU - 1
    BY <1>8 DEF UltimaLeida, Res
  <2>2. contadorLRU - 1 <= Res(j).contadorLRU
    BY <1>7, <2>1
  <2>3. Res(j).contadorLRU < contadorLRU /\ Res(j).contadorLRU \in Nat
    BY <1>2 DEF CuentasDistintas, Res, Paginas
  <2>4. Res(j).contadorLRU = Res(a).contadorLRU
    BY <1>5, <2>2, <2>3
  <2> QED
    BY <1>2, <1>4, <2>4 DEF CuentasDistintas, Res
<1>10. \A l \in marcosLlenos : l = m
  <2> SUFFICES ASSUME NEW l \in marcosLlenos PROVE l = m
    OBVIOUS
  <2>1. marco[l] = Anterior
    BY <1>3, <1>9
  <2> QED
    BY <1>1, <2>1 DEF IInv, Marcacion, MarcoYPagina
<1> QED
  BY <1>1, <1>10

\* LRU never evicts the page that the same read has just copied, through whatever
\* evictions and returns from swap, as long as the counter of accesses does not go past
\* the value algoritmoLRU starts its search from.
THEOREM LRUNuncaDesalojaLaRecienLeida ==
  Algoritmo = "LRU" /\ Spec /\ [](contadorLRU <= TopeLRU) => LRUNoDesalojaLaRecienLeida
<1> SUFFICES ASSUME Algoritmo = "LRU"
             PROVE  Spec /\ [](contadorLRU <= TopeLRU) => LRUNoDesalojaLaRecienLeida
  OBVIOUS
<1> DEFINE Pasa == /\ En("marco") /\ enCurso.op = "solicitar" /\ enCurso.bytes # <<>>
                   /\ Cardinality(marcosLlenos) > 1
                   => ~(pagina[<<enCurso.pid, enCurso.sid, enCurso.pag - 1>>].marcoID # SinMarco
                        /\ pagina'[<<enCurso.pid, enCurso.sid, enCurso.pag - 1>>].marcoID
                             = SinMarco)
<1>1. Init => CuentasDistintas /\ UltimaLeida
  BY DEF Init, CuentasDistintas, UltimaLeida, Usada, Existe, LeyoAlgo
<1>2. IInv /\ CuentasDistintas /\ UltimaLeida /\ contadorLRU <= TopeLRU /\ [Next]_vars
        => [Pasa]_vars
  <2> SUFFICES ASSUME IInv, CuentasDistintas, UltimaLeida, contadorLRU <= TopeLRU, Next,
                      En("marco"), enCurso.op = "solicitar", enCurso.bytes # <<>>,
                      Cardinality(marcosLlenos) > 1,
                      pagina[Anterior].marcoID # SinMarco,
                      pagina'[Anterior].marcoID = SinMarco
               PROVE  FALSE
    BY DEF Anterior
  <2>1. LeyoAlgo /\ enCurso # Nada /\ Existe(Anterior) /\ Anterior \in Claves
    BY DEF LeyoAlgo, En, UltimaLeida, Existe
  <2>2. pagina' # pagina
    OBVIOUS
  <2>3. \/ TomarMarcoVacio
        \/ \E m \in Marcos : Desalojar(m) \/ SwapOutFalla(m)
    <3>1. ~\E h \in Hilos : \/ AdmitirSegmento(h) \/ AgregarSegmento(h)
                            \/ SolicitarMemoria(h) \/ EscribirMemoria(h)
                            \/ DestruirSegmento(h)
      BY <2>1, <2>2 DEF AdmitirSegmento, AgregarSegmento, SolicitarMemoria, EscribirMemoria,
                        Acceder, DestruirSegmento
    <3>2. ~(SwapIn \/ SwapInFalla \/ MemoriaLlena \/ SinVictima \/ CopiarPagina
            \/ DestruirPag \/ QuitarSegmento)
      BY <2>2 DEF SwapIn, SwapInFalla, MemoriaLlena, SinVictima, CopiarPagina, DestruirPag,
                  QuitarSegmento, En
    <3> QED
      BY <3>1, <3>2 DEF Next, Paso
  <2>4. Anterior # Actual
    <3>1. enCurso \in Operaciones
      BY <2>1 DEF IInv, TypeOK
    <3>2. enCurso.pag \in Nat
      BY <3>1, Constantes DEF Operaciones
    <3> QED
      BY <3>2 DEF Anterior, Actual
  <2>5. ~TomarMarcoVacio
    BY <2>1, <2>4 DEF TomarMarcoVacio, IInv, TypeOK
  <2>6. ASSUME NEW m \in Marcos, SwapOutFalla(m)
        PROVE  FALSE
    <3>1. pagina' = Repasar
      BY <2>6 DEF SwapOutFalla
    <3> QED
      BY <2>1, <3>1, RepasarPaginas DEF Existe
  <2>7. ASSUME NEW m \in Marcos, Desalojar(m)
        PROVE  FALSE
    <3>1. marco[m] = Anterior
      BY <2>1, <2>4, <2>7, DesalojarMarcos
    <3>2. marcosLlenos = {m}
      BY <2>1, <2>7, <3>1, VictimaNoAnterior
    <3>3. Cardinality(marcosLlenos) = 1
      BY <3>2, FS_Singleton
    <3> QED
      BY <3>3
  <2> QED
    BY <2>3, <2>5, <2>6, <2>7
<1>3. Spec => [](CuentasDistintas /\ UltimaLeida)
  BY <1>1, Inductivo, NextCuentas, PTL DEF Spec
<1> HIDE DEF Pasa
<1>4. Spec /\ [](contadorLRU <= TopeLRU) => [][Pasa]_vars
  BY <1>2, <1>3, Inductivo, PTL DEF Spec
<1> QED
  BY <1>4 DEF Pasa, LRUNoDesalojaLaRecienLeida

-------------------------------------------------------------------------------
(* The memory that is taken and given back *)

\* The sizes of the segments named by S, added, in the table s.
SumaTam(s, S) == MapThenSumSet(LAMBDA x : s[x[1]][x[2]].tamanio, S)

Tam(s, S) == [x \in S |-> s[x[1]][x[2]].tamanio]

\* g adds up the sizes over each subset of S.
RecorreTam(g, s, S) ==
  g = [r \in SUBSET S |-> IF r = {} THEN 0
                          ELSE s[Elegido(r)[1]][Elegido(r)[2]].tamanio + g[r \ {Elegido(r)}]]

\* It is the sum of a function.
LEMMA SumaTamEs ==
  ASSUME NEW s, NEW S, IsFiniteSet(S)
  PROVE  SumaTam(s, S) = Suma(Tam(s, S), S)
<1> DEFINE d == CHOOSE g : RecorreTam(g, s, S)
           f == Tam(s, S)
<1>1. SumaTam(s, S) = d[S]
  BY Zenon DEF SumaTam, MapThenSumSet, MapThenFoldSet, RecorreTam, Elegido
<1>2. ASSUME NEW g
      PROVE  RecorreTam(g, s, S) <=> Recorre(g, f, S)
  <2> DEFINE a == [r \in SUBSET S |-> IF r = {} THEN 0
                     ELSE s[Elegido(r)[1]][Elegido(r)[2]].tamanio + g[r \ {Elegido(r)}]]
             b == [r \in SUBSET S |-> IF r = {} THEN 0
                     ELSE f[Elegido(r)] + g[r \ {Elegido(r)}]]
  <2>1. \A r \in SUBSET S : r # {} => Elegido(r) \in S
    BY ElegidoEsta
  <2>2. \A r \in SUBSET S : r # {} =>
          f[Elegido(r)] = s[Elegido(r)[1]][Elegido(r)[2]].tamanio
    BY <2>1 DEF Tam
  <2> HIDE DEF f
  <2>3. a = b
    BY <2>2
  <2> QED
    BY <2>3 DEF RecorreTam, Recorre
<1>3. PICK g : Recorre(g, f, S)
  BY RecorreHay
<1>4. RecorreTam(d, s, S)
  BY <1>2, <1>3, Zenon
<1> HIDE DEF d, f
<1>5. Recorre(d, f, S)
  BY <1>2, <1>4
<1>6. Suma(f, S) = d[S]
  BY <1>5, SumaDeRecorre
<1> QED
  BY <1>1, <1>6 DEF f

\* There are finitely many segments, and they account for the memory that is missing.
Cuentas == IsFiniteSet(TodosLosSegmentos) /\ MemoriaConservada

\* What MemoriaConservada says, with the sum of a function.
CuentaDe(memoria, s, S) == memoria + Suma(Tam(s, S), S) = NumMarcos * TamPag + CantidadSwap

LEMMA CuentasDe ==
  /\ Cuentas <=> /\ IsFiniteSet(TodosLosSegmentos)
                 /\ CuentaDe(memoriaDisponible, segmentos, TodosLosSegmentos)
  /\ Cuentas' <=> /\ IsFiniteSet(TodosLosSegmentos')
                  /\ CuentaDe(memoriaDisponible', segmentos', TodosLosSegmentos')
<1>1. Cuentas <=> /\ IsFiniteSet(TodosLosSegmentos)
                  /\ CuentaDe(memoriaDisponible, segmentos, TodosLosSegmentos)
  <2>1. MemoriaConservada <=>
          memoriaDisponible + SumaTam(segmentos, TodosLosSegmentos)
            = NumMarcos * TamPag + CantidadSwap
    BY Zenon DEF MemoriaConservada, SumaTam
  <2> QED
    BY <2>1, SumaTamEs DEF Cuentas, CuentaDe
<1>2. (Cuentas <=> /\ IsFiniteSet(TodosLosSegmentos)
                   /\ CuentaDe(memoriaDisponible, segmentos, TodosLosSegmentos))'
  BY <1>1, PTL
<1> QED
  BY <1>1, <1>2

\* The sizes are numbers.
LEMMA TamaniosNat ==
  ASSUME TypeOK
  PROVE  \A x \in TodosLosSegmentos :
           /\ x \in PIDs \X Nat /\ x[2] \in DOMAIN segmentos[x[1]]
           /\ segmentos[x[1]][x[2]].tamanio \in Nat
<1> SUFFICES ASSUME NEW p \in PIDs, NEW i \in DOMAIN segmentos[p]
             PROVE  i \in Nat /\ segmentos[p][i].tamanio \in Nat
  BY DEF TodosLosSegmentos
<1>1. segmentos[p] \in Seq(Segmentos)
  BY DEF TypeOK
<1>2. i \in 1 .. Len(segmentos[p])
  BY <1>1
<1>3. segmentos[p][i] \in Segmentos
  BY <1>1, <1>2
<1> QED
  BY <1>2, <1>3 DEF Segmentos

\* The segments, one by one.
LEMMA Segmento ==
  /\ \A p, i : <<p, i>> \in TodosLosSegmentos <=> p \in PIDs /\ i \in DOMAIN segmentos[p]
  /\ \A p, i : <<p, i>> \in TodosLosSegmentos' <=> p \in PIDs /\ i \in DOMAIN segmentos'[p]
  /\ \A x \in TodosLosSegmentos' : x = <<x[1], x[2]>>
BY DEF TodosLosSegmentos

\* crearSegmento adds a segment and takes its size.
LEMMA AgregarSegmentoCuentas ==
  ASSUME IInv, Cuentas, NEW h \in Hilos, AgregarSegmento(h)
  PROVE  Cuentas'
<1> DEFINE pid == solicitud[h].pid
           t   == solicitud[h].tamanio
           sid == calcularProximoSID(pid)
           s   == segmentos
           n   == Len(s[pid])
           T   == TodosLosSegmentos
           x0  == <<pid, n + 1>>
<1>1. /\ solicitud[h] # Nada
      /\ segmentos' = [s EXCEPT ![pid] = Append(@, [sid |-> sid, tamanio |-> t])]
      /\ memoriaDisponible' = memoriaDisponible - t
  BY DEF AgregarSegmento
<1>2. pid \in PIDs /\ t \in Nat
  BY <1>1, Constantes DEF IInv, TypeOK, Solicitudes
<1>3. s[pid] \in Seq(Segmentos) /\ n \in Nat /\ DOMAIN s[pid] = 1 .. n
  BY <1>2 DEF IInv, TypeOK
<1>4. /\ DOMAIN segmentos'[pid] = 1 .. n + 1
      /\ segmentos'[pid][n + 1].tamanio = t
      /\ \A i \in 1 .. n : segmentos'[pid][i] = s[pid][i]
  <2>1. segmentos'[pid] = Append(s[pid], [sid |-> sid, tamanio |-> t])
    BY <1>1, <1>2 DEF IInv, TypeOK
  <2> QED
    BY <1>3, <2>1
<1>5. \A p \in PIDs : p # pid => segmentos'[p] = s[p]
  BY <1>1 DEF IInv, TypeOK
<1>6. x0 \notin T
  BY <1>3, Segmento
<1>7. T' = T \cup {x0}
  <2>1. \A p, i : <<p, i>> \in T' <=> <<p, i>> \in T \/ <<p, i>> = x0
    <3> SUFFICES ASSUME NEW p, NEW i
                 PROVE  <<p, i>> \in T' <=> <<p, i>> \in T \/ <<p, i>> = x0
      OBVIOUS
    <3>1. <<p, i>> \in T <=> p \in PIDs /\ i \in DOMAIN s[p]
      BY Segmento
    <3>2. <<p, i>> \in T' <=> p \in PIDs /\ i \in DOMAIN segmentos'[p]
      BY Segmento
    <3>3. CASE p = pid
      BY <1>2, <1>3, <1>4, <3>1, <3>2, <3>3
    <3>4. CASE p # pid
      BY <1>5, <3>1, <3>2, <3>4
    <3> QED
      BY <3>3, <3>4
  <2>2. \A x \in T : x = <<x[1], x[2]>>
    BY DEF TodosLosSegmentos
  <2>3. \A x \in T' : x = <<x[1], x[2]>>
    BY Segmento
  <2>4. x0 = <<x0[1], x0[2]>>
    OBVIOUS
  <2> HIDE DEF T, x0
  <2>5. ASSUME NEW x
        PROVE  x \in T' <=> x \in T \cup {x0}
    BY <2>1, <2>2, <2>3, <2>4
  <2> QED
    BY <2>5
<1> DEFINE f == Tam(s, T)
           g == Tam(segmentos', T')
<1>8. IsFiniteSet(T) /\ memoriaDisponible + Suma(f, T) = NumMarcos * TamPag + CantidadSwap
  BY CuentasDe DEF CuentaDe
<1>9. \A x \in T : f[x] \in Int /\ f[x] = g[x]
  <2> SUFFICES ASSUME NEW x \in T PROVE f[x] \in Int /\ f[x] = g[x]
    OBVIOUS
  <2>1. /\ x \in PIDs \X Nat /\ x[2] \in DOMAIN s[x[1]]
        /\ s[x[1]][x[2]].tamanio \in Nat
    BY TamaniosNat DEF IInv
  <2>2. segmentos'[x[1]][x[2]] = s[x[1]][x[2]]
    <3>1. CASE x[1] = pid
      <4>1. x[2] \in 1 .. n
        BY <1>3, <2>1, <3>1
      <4> QED
        BY <1>4, <3>1, <4>1
    <3>2. CASE x[1] # pid
      BY <1>5, <2>1, <3>2
    <3> QED
      BY <3>1, <3>2
  <2> QED
    BY <1>7, <2>1, <2>2 DEF Tam
<1>10. g[x0] = t
  BY <1>4, <1>7 DEF Tam
<1> HIDE DEF f, g, T, t
<1>11. Suma(f, T) = Suma(g, T)
  <2> DEFINE b == [x \in T |-> x]
  <2>1. b \in [T -> T] /\ \A x \in T : b[x] = x
    OBVIOUS
  <2> HIDE DEF b
  <2> QED
    BY <1>8, <1>9, <2>1, SumaCorresponde
<1>12. Suma(g, T \cup {x0}) = g[x0] + Suma(g, T)
  <2>1. \A x \in T \cup {x0} : g[x] \in Int
    BY <1>2, <1>9, <1>10 DEF t
  <2> HIDE DEF x0
  <2> QED
    BY <1>6, <1>8, <2>1, SumaMas
<1>13. Suma(f, T) \in Int
  BY <1>8, <1>9, SumaEntera
<1>14. memoriaDisponible \in Int
  BY DEF IInv, TypeOK
<1>15. memoriaDisponible' + Suma(g, T') = NumMarcos * TamPag + CantidadSwap
  <2>1. memoriaDisponible' = memoriaDisponible - t /\ t \in Int
    BY <1>1, <1>2 DEF t
  <2>2. Suma(g, T') = t + Suma(f, T)
    BY <1>7, <1>10, <1>11, <1>12
  <2> QED
    BY <1>8, <1>13, <1>14, <2>1, <2>2
<1>16. IsFiniteSet(T')
  BY <1>7, <1>8, FS_AddElement
<1> QED
  BY <1>15, <1>16, CuentasDe DEF CuentaDe, g, T

\* destruirSegmento removes the segment and gives its size back; those behind it move.
LEMMA QuitarSegmentoCuentas ==
  ASSUME IInv, Cuentas, QuitarSegmento
  PROVE  Cuentas'
<1> DEFINE pid == enCurso.pid
           s   == segmentos
           n   == Len(s[pid])
           T   == TodosLosSegmentos
<1>1. PICK i \in DOMAIN s[pid] :
        /\ segmentos' = [s EXCEPT ![pid] = RemoveAt(@, i)]
        /\ memoriaDisponible' = memoriaDisponible + s[pid][i].tamanio
  BY DEF QuitarSegmento, MemoriaDevuelta
<1> DEFINE x0 == <<pid, i>>
           t  == s[pid][i].tamanio
<1>2. pid \in PIDs
  BY DEF QuitarSegmento, En, IInv, TypeOK, Operaciones
<1>3. s[pid] \in Seq(Segmentos) /\ n \in Nat /\ DOMAIN s[pid] = 1 .. n
  BY <1>2 DEF IInv, TypeOK
<1>4. /\ DOMAIN segmentos'[pid] = 1 .. n - 1
      /\ \A j \in 1 .. n - 1 : segmentos'[pid][j] = IF j < i THEN s[pid][j] ELSE s[pid][j + 1]
  <2>1. segmentos'[pid] = RemoveAt(s[pid], i)
    BY <1>1, <1>2 DEF IInv, TypeOK
  <2>2. i \in 1 .. Len(s[pid])
    BY <1>3
  <2>3. /\ RemoveAt(s[pid], i) \in Seq(Segmentos)
        /\ Len(RemoveAt(s[pid], i)) = Len(s[pid]) - 1
        /\ \A j \in 1 .. Len(s[pid]) - 1 :
              RemoveAt(s[pid], i)[j] = IF j < i THEN s[pid][j] ELSE s[pid][j + 1]
    BY <1>3, <2>2, QuitarPosicion
  <2> QED
    BY <2>1, <2>3
<1>5. \A p \in PIDs : p # pid => segmentos'[p] = s[p]
  BY <1>1 DEF IInv, TypeOK
<1>6. x0 \in T
  BY <1>2, Segmento
<1> DEFINE f == Tam(s, T)
           g == Tam(segmentos', T')
           S == T \ {x0}
           b == [x \in S |-> IF x[1] = pid /\ x[2] > i THEN <<x[1], x[2] - 1>> ELSE x]
<1>7. \A x \in T : /\ x \in PIDs \X Nat /\ x[2] \in DOMAIN s[x[1]]
                   /\ s[x[1]][x[2]].tamanio \in Nat
  BY TamaniosNat DEF IInv
<1>8. i \in 1 .. n
  BY <1>1, <1>3
<1>9. ASSUME NEW x \in S
      PROVE  /\ b[x] \in T' /\ segmentos'[b[x][1]][b[x][2]] = s[x[1]][x[2]]
             /\ b[x][1] = x[1]
             /\ b[x][2] = IF x[1] = pid /\ x[2] > i THEN x[2] - 1 ELSE x[2]
  <2>1. x \in PIDs \X Nat /\ x[2] \in DOMAIN s[x[1]] /\ x = <<x[1], x[2]>> /\ x # x0
    BY <1>7
  <2>2. CASE x[1] = pid /\ x[2] > i
    <3>1. b[x] = <<pid, x[2] - 1>>
      BY <2>2
    <3>2. x[2] - 1 \in 1 .. n - 1 /\ ~(x[2] - 1 < i) /\ (x[2] - 1) + 1 = x[2]
      BY <1>3, <1>8, <2>1, <2>2
    <3>3. segmentos'[pid][x[2] - 1] = s[pid][x[2]]
      BY <1>4, <3>2
    <3>4. <<pid, x[2] - 1>> \in T'
      BY <1>2, <1>4, <3>2, Segmento
    <3> HIDE DEF b
    <3> QED
      BY <2>2, <3>1, <3>3, <3>4
  <2>3. CASE x[1] = pid /\ ~(x[2] > i)
    <3>1. b[x] = x
      BY <2>3
    <3>2. x[2] # i
      BY <2>1, <2>3
    <3>3. x[2] \in 1 .. n - 1 /\ x[2] < i
      BY <1>3, <1>8, <2>1, <2>3, <3>2
    <3>4. segmentos'[pid][x[2]] = s[pid][x[2]]
      BY <1>4, <3>3
    <3>5. <<pid, x[2]>> \in T'
      BY <1>2, <1>4, <3>3, Segmento
    <3> HIDE DEF b
    <3> QED
      BY <2>1, <2>3, <3>1, <3>4, <3>5
  <2>4. CASE x[1] # pid
    <3>1. b[x] = x
      BY <2>4
    <3>2. segmentos'[x[1]] = s[x[1]] /\ x[1] \in PIDs
      BY <1>5, <2>1, <2>4
    <3>3. <<x[1], x[2]>> \in T'
      BY <2>1, <3>2, Segmento
    <3> HIDE DEF b
    <3> QED
      BY <2>1, <2>4, <3>1, <3>2, <3>3
  <2> QED
    BY <2>2, <2>3, <2>4
<1>10. b \in [S -> T']
  <2>1. b = [x \in S |-> b[x]]
    OBVIOUS
  <2> HIDE DEF b
  <2> QED
    BY <1>9, <2>1
<1>11. \A x, y \in S : b[x] = b[y] => x = y
  <2> SUFFICES ASSUME NEW x \in S, NEW y \in S, b[x] = b[y] PROVE x = y
    OBVIOUS
  <2>1. /\ x \in PIDs \X Nat /\ x = <<x[1], x[2]>> /\ x # x0
        /\ y \in PIDs \X Nat /\ y = <<y[1], y[2]>> /\ y # x0
    BY <1>7
  <2>2. /\ b[x][1] = x[1]
        /\ b[x][2] = IF x[1] = pid /\ x[2] > i THEN x[2] - 1 ELSE x[2]
        /\ b[y][1] = y[1]
        /\ b[y][2] = IF y[1] = pid /\ y[2] > i THEN y[2] - 1 ELSE y[2]
    BY <1>9
  <2> HIDE DEF b
  <2>3. x[1] = y[1]
    BY <2>2
  <2>4. x[1] = pid => x[2] # i /\ y[2] # i
    BY <2>1, <2>3
  <2>5. x[2] = y[2]
    BY <1>8, <2>1, <2>2, <2>3, <2>4
  <2> QED
    BY <2>1, <2>3, <2>5
<1>12. \A y \in T' : \E x \in S : b[x] = y
  <2> SUFFICES ASSUME NEW y \in T' PROVE \E x \in S : b[x] = y
    OBVIOUS
  <2>1. y = <<y[1], y[2]>> /\ y[1] \in PIDs /\ y[2] \in DOMAIN segmentos'[y[1]]
    BY Segmento
  <2>2. CASE y[1] = pid /\ y[2] < i
    <3>1. <<y[1], y[2]>> \in T /\ y # x0
      BY <1>2, <1>3, <1>4, <1>8, <2>1, <2>2, Segmento
    <3>2. y \in S /\ ~(y[2] > i)
      BY <1>4, <1>8, <2>1, <2>2, <3>1
    <3>3. b[y] = y
      BY <3>2
    <3> QED
      BY <3>2, <3>3
  <2>3. CASE y[1] = pid /\ ~(y[2] < i)
    <3> DEFINE x == <<pid, y[2] + 1>>
    <3>1. y[2] \in 1 .. n - 1 /\ y[2] + 1 \in 1 .. n /\ y[2] + 1 > i
      BY <1>3, <1>4, <1>8, <2>1, <2>3
    <3>2. x \in T
      BY <1>2, <1>3, <3>1, Segmento
    <3>3. x # x0 /\ x[1] = pid /\ x[2] = y[2] + 1 /\ x[2] - 1 = y[2]
      BY <1>8, <3>1
    <3>4. b[x] = <<x[1], x[2] - 1>>
      BY <3>1, <3>2, <3>3
    <3> HIDE DEF b
    <3> QED
      BY <2>1, <2>3, <3>2, <3>3, <3>4
  <2>4. CASE y[1] # pid
    <3>1. segmentos'[y[1]] = s[y[1]]
      BY <1>5, <2>1, <2>4
    <3>2. y \in T
      BY <2>1, <3>1, Segmento
    <3>3. y \in S /\ b[y] = y
      BY <2>1, <2>4, <3>2
    <3> QED
      BY <3>3
  <2> QED
    BY <2>2, <2>3, <2>4
<1>13. IsFiniteSet(T) /\ memoriaDisponible + Suma(f, T) = NumMarcos * TamPag + CantidadSwap
  BY CuentasDe DEF CuentaDe
<1>14. \A x \in T : f[x] \in Int
  BY <1>7 DEF Tam
<1>15. \A x \in S : f[x] = g[b[x]]
  <2> SUFFICES ASSUME NEW x \in S PROVE f[x] = g[b[x]]
    OBVIOUS
  <2>1. b[x] \in T' /\ segmentos'[b[x][1]][b[x][2]] = s[x[1]][x[2]]
    BY <1>9
  <2> HIDE DEF b
  <2> QED
    BY <2>1 DEF Tam
<1>16. f[x0] = t /\ t \in Int
  BY <1>6, <1>7 DEF Tam
<1>17. IsFiniteSet(S)
  BY <1>13, FS_RemoveElement
<1> HIDE DEF f, g, t, b
<1>18. Suma(f, T) = f[x0] + Suma(f, S)
  BY <1>6, <1>13, <1>14, SumaSin
<1>19. Suma(f, S) = Suma(g, T')
  <2> HIDE DEF S, T
  <2>1. \A x \in S : f[x] \in Int
    BY <1>14 DEF S
  <2> QED
    BY <1>10, <1>11, <1>12, <1>15, <1>17, <2>1, SumaCorresponde
<1>20. Suma(f, S) \in Int
  BY <1>14, <1>17, SumaEntera
<1>21. IsFiniteSet(T')
  <2>1. b \in Surjection(S, T')
    BY <1>10, <1>12 DEF Surjection
  <2> QED
    BY <1>17, <2>1, FS_Surjection
<1>22. memoriaDisponible' + Suma(g, T') = NumMarcos * TamPag + CantidadSwap
  <2>1. memoriaDisponible' = memoriaDisponible + t /\ memoriaDisponible \in Int
    BY <1>1 DEF t, IInv, TypeOK
  <2> QED
    BY <1>13, <1>16, <1>18, <1>19, <1>20, <2>1
<1> QED
  BY <1>21, <1>22, CuentasDe DEF CuentaDe, g, T

\* Nothing else touches them.
LEMMA NextCuentasMemoria == IInv /\ Cuentas /\ [Next]_vars => Cuentas'
<1> SUFFICES ASSUME IInv, Cuentas, [Next]_vars PROVE Cuentas'
  OBVIOUS
<1>1. CASE UNCHANGED <<segmentos, memoriaDisponible>>
  <2>1. TodosLosSegmentos' = TodosLosSegmentos
    BY <1>1 DEF TodosLosSegmentos
  <2> QED
    BY <1>1, <2>1, CuentasDe
<1>2. ASSUME NEW h \in Hilos,
             \/ AdmitirSegmento(h) \/ SolicitarMemoria(h) \/ EscribirMemoria(h)
             \/ DestruirSegmento(h)
      PROVE  UNCHANGED <<segmentos, memoriaDisponible>>
  BY <1>2 DEF AdmitirSegmento, SolicitarMemoria, EscribirMemoria, DestruirSegmento, Acceder,
              tablas
<1>3. ASSUME \/ SwapIn \/ SwapInFalla \/ TomarMarcoVacio \/ MemoriaLlena
             \/ (\E m \in Marcos : Desalojar(m) \/ SwapOutFalla(m))
             \/ SinVictima \/ CopiarPagina \/ DestruirPag
      PROVE  UNCHANGED <<segmentos, memoriaDisponible>>
  BY <1>3 DEF SwapIn, SwapInFalla, TomarMarcoVacio, MemoriaLlena, Desalojar, SwapOutFalla,
              SinVictima, CopiarPagina, DestruirPag, tablas
<1>4. UNCHANGED vars => UNCHANGED <<segmentos, memoriaDisponible>>
  BY DEF vars
<1> QED
  BY <1>1, <1>2, <1>3, <1>4, AgregarSegmentoCuentas, QuitarSegmentoCuentas DEF Next, Paso

\* What crearSegmento takes of the free memory for each segment, in a critical section
\* of its own, destruirSegmento gives back to the byte: the free memory and the segments
\* there are always add up to the main memory and the swap space.
THEOREM MemoriaSiempreConservada == Spec => []MemoriaConservada
<1>1. Init => Cuentas
  <2> SUFFICES ASSUME Init PROVE Cuentas
    OBVIOUS
  <2>1. TodosLosSegmentos = {}
    BY DEF Init, TodosLosSegmentos
  <2>2. IsFiniteSet(TodosLosSegmentos) /\ Suma(Tam(segmentos, TodosLosSegmentos), TodosLosSegmentos) = 0
    BY <2>1, FS_EmptySet, SumaVacia
  <2>3. memoriaDisponible = NumMarcos * TamPag + CantidadSwap
    BY DEF Init
  <2>4. NumMarcos * TamPag + CantidadSwap \in Int
    BY Constantes
  <2> QED
    BY <2>2, <2>3, <2>4, CuentasDe DEF CuentaDe
<1>2. Cuentas => MemoriaConservada
  BY DEF Cuentas
<1> QED
  BY <1>1, <1>2, Inductivo, NextCuentasMemoria, PTL DEF Spec

===============================================================================
