----------------------------- MODULE MSPRefina_proofs -----------------------------
(*****************************************************************************)
(* Proof that the paging server implements the contract MemoriaVirtual: each *)
(* step of a thread of MSP is a step of the contract on the bytes of the     *)
(* segments, or leaves them, the access in progress and the replies alone.   *)
(*****************************************************************************)
EXTENDS MSPRefina, MSP_proofs

-------------------------------------------------------------------------------
\* Position i of a segment is byte i % T of its page i \div T, and of no other.
LEMMA Division ==
  ASSUME NEW T \in Nat \ {0}, NEW i \in Nat
  PROVE  /\ i \div T \in Nat /\ i % T \in 0 .. T - 1
         /\ i = T * (i \div T) + (i % T)
OBVIOUS

LEMMA DivisionUnica ==
  ASSUME NEW T \in Nat \ {0}, NEW p \in Nat, NEW d \in 0 .. T - 1
  PROVE  (T * p + d) \div T = p /\ (T * p + d) % T = d
<1> DEFINE i == T * p + d
           q == i \div T
           r == i % T
<1>1. i \in Nat /\ q \in Nat /\ r \in 0 .. T - 1 /\ i = T * q + r
  BY Division
<1> HIDE DEF q, r
<1>2. q <= p
  <2>1. ASSUME q >= p + 1
        PROVE  FALSE
    <3>1. T * q >= T * p + T
      BY <1>1, <2>1
    <3> QED
      BY <1>1, <3>1
  <2> QED
    BY <1>1, <2>1
<1>3. p <= q
  <2>1. ASSUME p >= q + 1
        PROVE  FALSE
    <3>1. T * p >= T * q + T
      BY <1>1, <2>1
    <3> QED
      BY <1>1, <3>1
  <2> QED
    BY <1>1, <2>1
<1>4. q = p
  BY <1>1, <1>2, <1>3
<1> QED
  BY <1>1, <1>4 DEF q, r

\* Two sequences of the same length with the same elements are the same.
LEMMA MismaSecuencia ==
  ASSUME NEW S, NEW a \in Seq(S), NEW n \in Nat, Len(a) = n,
         NEW f, f = [i \in 1 .. n |-> f[i]], \A i \in 1 .. n : a[i] = f[i]
  PROVE  a = f
<1>1. a = [i \in 1 .. n |-> a[i]]
  OBVIOUS
<1> QED
  BY <1>1

\* A part of a sequence.
LEMMA ParteDeSecuencia ==
  ASSUME NEW S, NEW c \in Seq(S), NEW m \in Nat, NEW l \in Nat, m + l <= Len(c)
  PROVE  /\ SubSeq(c, m + 1, m + l) \in Seq(S) /\ Len(SubSeq(c, m + 1, m + l)) = l
         /\ \A i \in 1 .. l : SubSeq(c, m + 1, m + l)[i] = c[m + i]
<1>1. \A i \in (m + 1) .. (m + l) : c[i] \in S
  OBVIOUS
<1>2. SubSeq(c, m + 1, m + l) \in Seq(S)
  BY <1>1
<1>3. Len(SubSeq(c, m + 1, m + l)) = l
  BY <1>1
<1>4. \A i \in 1 .. l : SubSeq(c, m + 1, m + l)[i] = c[m + i]
  BY <1>1
<1> QED
  BY <1>2, <1>3, <1>4

\* The pages of a segment of t bytes are those its positions fall in.
LEMMA PaginaDePosicion ==
  ASSUME NEW t \in Nat, NEW j \in 1 .. t
  PROVE  /\ (j - 1) \div TamPag \in Nat /\ (j - 1) \div TamPag < NumPaginas(t)
         /\ (j - 1) % TamPag \in 0 .. TamPag - 1
         /\ j - 1 = TamPag * ((j - 1) \div TamPag) + ((j - 1) % TamPag)
<1>1. TamPag \in Nat \ {0} /\ j - 1 \in Nat
  BY Constantes
<1> DEFINE p == (j - 1) \div TamPag
           d == (j - 1) % TamPag
<1>2. p \in Nat /\ d \in 0 .. TamPag - 1 /\ j - 1 = TamPag * p + d
  BY <1>1, Division
<1> HIDE DEF p, d
<1>3. TamPag * p < t
  BY <1>1, <1>2
<1>4. p < NumPaginas(t)
  BY <1>1, <1>2, <1>3, DivisionHaciaArriba DEF NumPaginas
<1> QED
  BY <1>2, <1>4 DEF p, d

-------------------------------------------------------------------------------
\* The segments whose bytes the contract sees.
Vivo(s) == TieneSegmento(s[1], s[2]) /\ ~EnDestruccion(s[1], s[2])

\* The page in which position j of a segment is.
ClaveDe(s, j) == <<s[1], s[2], (j - 1) \div TamPag>>

\* The position of byte d of page p of a segment.
LEMMA PosicionEnPagina ==
  ASSUME NEW s, NEW p \in Nat, NEW d \in 0 .. TamPag - 1
  PROVE  /\ TamPag * p + d \in Nat
         /\ ((TamPag * p + d + 1) - 1) \div TamPag = p
         /\ ((TamPag * p + d + 1) - 1) % TamPag = d
         /\ ClaveDe(s, TamPag * p + d + 1) = <<s[1], s[2], p>>
<1>1. TamPag \in Nat \ {0}
  BY Constantes
<1>2. TamPag * p \in Nat
  BY <1>1
<1>3. (TamPag * p + d + 1) - 1 = TamPag * p + d /\ TamPag * p + d \in Nat
  BY <1>1, <1>2
<1>4. (TamPag * p + d) \div TamPag = p /\ (TamPag * p + d) % TamPag = d
  BY <1>1, DivisionUnica
<1> QED
  BY <1>3, <1>4 DEF ClaveDe

\* A process's segment with a given SID is one.
Unicidad ==
  \A p \in PIDs, d \in SIDs : \A i \in DOMAIN segmentos[p] :
    segmentos[p][i].sid = d =>
      /\ segmentos[p][i].tamanio = Tamanio(p, d)
      /\ Tamanio(p, d) \in Nat /\ NumPaginas(Tamanio(p, d)) <= MaxPag

LEMMA TamanioUnico == IInv => Unicidad
<1> SUFFICES ASSUME IInv, NEW p \in PIDs, NEW i \in DOMAIN segmentos[p]
             PROVE  LET d == segmentos[p][i].sid
                    IN  /\ segmentos[p][i].tamanio = Tamanio(p, d)
                        /\ Tamanio(p, d) \in Nat /\ NumPaginas(Tamanio(p, d)) <= MaxPag
  BY DEF Unicidad
<1> DEFINE s == segmentos[p]
           j == CHOOSE j \in DOMAIN s : s[j].sid = s[i].sid
<1>1. s \in Seq(Segmentos) /\ i \in DOMAIN s
  BY DEF IInv, TypeOK
<1>2. j \in DOMAIN s /\ s[j].sid = s[i].sid
  BY <1>1
<1> HIDE DEF s
<1>3. s[i] \in Segmentos /\ \A k \in DOMAIN s : s[k].sid \in Int
  <2>1. \A k \in DOMAIN s : s[k] \in Segmentos
    BY <1>1
  <2>2. SIDs \subseteq Int
    BY Constantes DEF SIDs
  <2> QED
    BY <1>1, <2>1, <2>2 DEF Segmentos
<1>4. \A k, l \in DOMAIN s : k < l => s[k].sid < s[l].sid
  BY DEF IInv, SIDsCrecientes, s
<1>5. j = i
  <2> HIDE DEF j
  <2>1. i \in Int /\ j \in Int
    BY <1>1, <1>2
  <2> QED
    BY <1>1, <1>2, <1>3, <1>4, <2>1
<1>6. Tamanio(p, s[i].sid) = s[i].tamanio
  BY <1>5 DEF Tamanio, s
<1> QED
  BY <1>3, <1>6 DEF Segmentos, s

\* A byte of a page that exists is a byte, in memory or in swap.
LEMMA ByteTipo ==
  IInv => \A k \in Claves : Existe(k) => \A d \in 0 .. TamPag - 1 : Byte(k, d) \in Bytes
<1> SUFFICES ASSUME IInv, NEW k \in Claves, Existe(k), NEW d \in 0 .. TamPag - 1
             PROVE  Byte(k, d) \in Bytes
  OBVIOUS
<1>1. pagina[k] \in Paginas /\ archivos[obtenerFilePath(k)] \in Datos \cup {Nada}
  BY DEF IInv, TypeOK, Existe, Rutas
<1>2. pagina[k].data \in Datos
  BY <1>1 DEF Paginas
<1> QED
  BY <1>1, <1>2, Constantes DEF Byte, Datos

\* What the contract sees of a segment: its bytes, each where its page keeps it.
Vista ==
  \A s \in PIDs \X SIDs : Vivo(s) =>
    /\ Tamanio(s[1], s[2]) \in Nat
    /\ Contenido[s] \in Seq(Bytes) /\ Len(Contenido[s]) = Tamanio(s[1], s[2])
    /\ Contenido[s] # Nada
    /\ \A j \in 1 .. Tamanio(s[1], s[2]) :
         /\ ClaveDe(s, j) \in Claves /\ Existe(ClaveDe(s, j))
         /\ Contenido[s][j] = Byte(ClaveDe(s, j), (j - 1) % TamPag)

LEMMA ContenidoVivo == IInv => Vista
<1> SUFFICES ASSUME IInv, NEW s \in PIDs \X SIDs, Vivo(s)
             PROVE  /\ Tamanio(s[1], s[2]) \in Nat
                    /\ Contenido[s] \in Seq(Bytes) /\ Len(Contenido[s]) = Tamanio(s[1], s[2])
                    /\ Contenido[s] # Nada
                    /\ \A j \in 1 .. Tamanio(s[1], s[2]) :
                         /\ ClaveDe(s, j) \in Claves /\ Existe(ClaveDe(s, j))
                         /\ Contenido[s][j] = Byte(ClaveDe(s, j), (j - 1) % TamPag)
  BY DEF Vista
<1> DEFINE t == Tamanio(s[1], s[2])
<1>1. PICK i \in DOMAIN segmentos[s[1]] : segmentos[s[1]][i].sid = s[2]
  BY DEF Vivo, TieneSegmento
<1>2. s[1] \in PIDs /\ s[2] \in SIDs /\ s = <<s[1], s[2]>>
  OBVIOUS
<1>3. t \in Nat /\ NumPaginas(t) <= MaxPag /\ segmentos[s[1]][i].tamanio = t
  BY <1>1, <1>2, TamanioUnico DEF Unicidad
<1>4. Contenido[s] = [j \in 1 .. t |-> Byte(ClaveDe(s, j), (j - 1) % TamPag)]
  BY DEF Contenido, Vivo, ClaveDe
<1> HIDE DEF t
<1>5. ASSUME NEW j \in 1 .. t
      PROVE  /\ ClaveDe(s, j) \in Claves /\ Existe(ClaveDe(s, j))
             /\ Byte(ClaveDe(s, j), (j - 1) % TamPag) \in Bytes
  <2> DEFINE p == (j - 1) \div TamPag
             k == <<s[1], s[2], p>>
  <2>1. p \in Nat /\ p < NumPaginas(t) /\ (j - 1) % TamPag \in 0 .. TamPag - 1
    BY <1>3, PaginaDePosicion
  <2>2. NumPaginas(t) \in Nat
    BY <1>3, NumPaginasNat
  <2> HIDE DEF p
  <2>3. p \in 0 .. MaxPag - 1
    BY <1>3, <2>1, <2>2, Constantes
  <2>4. k \in Claves
    BY <1>2, <2>3 DEF Claves
  <2>5. DeUnSegmento(k)
    BY <1>1, <1>3, <2>1 DEF DeUnSegmento
  <2>6. ~YaDestruida(k)
    BY DEF YaDestruida, Vivo, EnDestruccion
  <2>7. Existe(k)
    BY <2>4, <2>5, <2>6 DEF IInv, PaginasDeSegmentos
  <2> QED
    BY <2>1, <2>4, <2>7, ByteTipo DEF ClaveDe, p
<1>6. Contenido[s] \in Seq(Bytes) /\ Len(Contenido[s]) = t
  BY <1>3, <1>4, <1>5
<1>7. Contenido[s] # Nada
  BY <1>6, NadaNoEsDelContrato
<1> QED
  BY <1>3, <1>4, <1>5, <1>6, <1>7 DEF t

\* What the contract does not see is NULL.
Ausencia == \A s \in PIDs \X SIDs : ~Vivo(s) => Contenido[s] = Nada

LEMMA ContenidoAusente == Ausencia
BY DEF Contenido, Vivo, Ausencia

\* The same in the state after a step.
LEMMA VistaSiguiente == (IInv' => Vista' /\ Unicidad') /\ Ausencia'
BY ContenidoVivo, TamanioUnico, ContenidoAusente, PTL

-------------------------------------------------------------------------------
\* A segment whose pages keep their bytes keeps its contents, wherever the pages
\* are moved.
LEMMA MismoContenido ==
  ASSUME IInv, IInv', NEW s \in PIDs \X SIDs,
         Vivo(s)' <=> Vivo(s),
         Vivo(s) => Tamanio(s[1], s[2])' = Tamanio(s[1], s[2]),
         \A k \in Claves : k[1] = s[1] /\ k[2] = s[2] /\ Existe(k) =>
           \A d \in 0 .. TamPag - 1 : Byte(k, d)' = Byte(k, d)
  PROVE  Contenido'[s] = Contenido[s]
<1>1. CASE ~Vivo(s)
  BY <1>1, ContenidoAusente, VistaSiguiente DEF Ausencia
<1>2. CASE Vivo(s)
  <2> DEFINE t == Tamanio(s[1], s[2])
  <2>1. /\ t \in Nat
        /\ Contenido[s] \in Seq(Bytes) /\ Len(Contenido[s]) = t
        /\ \A j \in 1 .. t :
             /\ ClaveDe(s, j) \in Claves /\ Existe(ClaveDe(s, j))
             /\ Contenido[s][j] = Byte(ClaveDe(s, j), (j - 1) % TamPag)
    BY <1>2, ContenidoVivo DEF Vista
  <2>2. Vista'
    BY VistaSiguiente
  <2>3. /\ Contenido'[s] \in Seq(Bytes) /\ Len(Contenido'[s]) = t
        /\ \A j \in 1 .. t :
             Contenido'[s][j] = Byte(ClaveDe(s, j), (j - 1) % TamPag)'
    BY <1>2, <2>2 DEF Vista, ClaveDe
  <2> HIDE DEF t
  <2>4. ASSUME NEW j \in 1 .. t
        PROVE  Contenido'[s][j] = Contenido[s][j]
    <3>1. /\ ClaveDe(s, j) \in Claves /\ Existe(ClaveDe(s, j))
          /\ ClaveDe(s, j)[1] = s[1] /\ ClaveDe(s, j)[2] = s[2]
      BY <2>1 DEF ClaveDe
    <3>2. (j - 1) % TamPag \in 0 .. TamPag - 1
      BY <2>1, PaginaDePosicion
    <3>3. Byte(ClaveDe(s, j), (j - 1) % TamPag)' = Byte(ClaveDe(s, j), (j - 1) % TamPag)
      BY <3>1, <3>2
    <3> QED
      BY <2>1, <2>3, <3>3
  <2> QED
    BY <2>1, <2>3, <2>4
<1> QED
  BY <1>1, <1>2

\* No segment changes when the lists and the bytes of the pages do not.
LEMMA ContenidoQuieto ==
  ASSUME IInv, IInv', UNCHANGED segmentos,
         \A p \in PIDs, sid \in SIDs : EnDestruccion(p, sid)' <=> EnDestruccion(p, sid),
         \A k \in Claves : Existe(k) => \A d \in 0 .. TamPag - 1 : Byte(k, d)' = Byte(k, d)
  PROVE  Contenido' = Contenido
<1>1. ASSUME NEW s \in PIDs \X SIDs
      PROVE  Contenido'[s] = Contenido[s]
  <2>1. s[1] \in PIDs /\ s[2] \in SIDs
    OBVIOUS
  <2>2. TieneSegmento(s[1], s[2])' <=> TieneSegmento(s[1], s[2])
    BY DEF TieneSegmento
  <2>3. Vivo(s)' <=> Vivo(s)
    BY <2>1, <2>2 DEF Vivo
  <2>4. Tamanio(s[1], s[2])' = Tamanio(s[1], s[2])
    BY DEF Tamanio
  <2> QED
    BY <2>3, <2>4, MismoContenido
<1> QED
  BY <1>1 DEF Contenido

\* A step that moves no bytes leaves them where the contract finds them.
LEMMA BytesQuietos ==
  ASSUME MismosDatos
  PROVE  \A k \in Claves : Existe(k) => \A d \in 0 .. TamPag - 1 : Byte(k, d)' = Byte(k, d)
BY DEF MismosDatos, Byte

\* No destruction before or after the step.
LEMMA SinDestruccion ==
  ASSUME enCurso = Nada \/ enCurso.op # "destruir", enCurso' = Nada \/ enCurso'.op # "destruir"
  PROVE  \A p \in PIDs, sid \in SIDs : EnDestruccion(p, sid)' <=> EnDestruccion(p, sid)
BY DEF EnDestruccion

-------------------------------------------------------------------------------
\* The bytes that a read has copied are those of its segment, which nothing but the
\* return from swap of later pages has touched since.
Leidos ==
  enCurso # Nada /\ enCurso.op = "solicitar" =>
    LET b == enCurso.bytes
        hasta == TamPag * enCurso.pag + enCurso.desp
    IN  /\ Len(b) <= hasta
        /\ Len(b) # 0 => enCurso.desp = 0
        /\ \A i \in 1 .. Len(b) :
             b[i] = Contenido[<<enCurso.pid, enCurso.sid>>][hasta - Len(b) + i]

RInv == DInv /\ Leidos

\* The segment of the access in progress is there.
LEMMA SegmentoDelAcceso ==
  ASSUME IInv, enCurso # Nada, enCurso.op # "destruir"
  PROVE  LET s == <<enCurso.pid, enCurso.sid>>
         IN  /\ enCurso \in Operaciones /\ s \in PIDs \X SIDs /\ Vivo(s)
             /\ enCurso.pag \in Nat /\ enCurso.desp \in 0 .. TamPag - 1
             /\ enCurso.resta \in Nat /\ enCurso.bytes \in Seq(Bytes)
             /\ Tamanio(s[1], s[2]) \in Nat
             /\ TamPag * enCurso.pag + enCurso.desp + enCurso.resta <= Tamanio(s[1], s[2])
<1>1. /\ enCurso \in Operaciones
      /\ enCurso.pid \in PIDs /\ enCurso.sid \in SIDs
      /\ enCurso.pag \in Nat /\ enCurso.desp \in 0 .. TamPag - 1
      /\ enCurso.resta \in Nat /\ enCurso.bytes \in Seq(Bytes)
  BY Constantes DEF IInv, TypeOK, Operaciones
<1>2. DentroDelSegmento(enCurso, enCurso.resta)
  BY DEF IInv, OperacionEnCurso
<1>3. PICK i \in DOMAIN segmentos[enCurso.pid] :
        /\ segmentos[enCurso.pid][i].sid = enCurso.sid
        /\ TamPag * enCurso.pag + enCurso.desp + enCurso.resta
             <= segmentos[enCurso.pid][i].tamanio
  BY <1>2 DEF DentroDelSegmento
<1>4. /\ segmentos[enCurso.pid][i].tamanio = Tamanio(enCurso.pid, enCurso.sid)
      /\ Tamanio(enCurso.pid, enCurso.sid) \in Nat
  BY <1>1, <1>3, TamanioUnico DEF Unicidad
<1>5. Vivo(<<enCurso.pid, enCurso.sid>>)
  BY <1>3 DEF Vivo, TieneSegmento, EnDestruccion
<1> QED
  BY <1>1, <1>3, <1>4, <1>5

\* What the contract sees of the access in progress.
LEMMA PedidoDelAcceso ==
  ASSUME RInv, enCurso # Nada, enCurso.op # "destruir"
  PROVE  /\ Pedido = [hilo |-> enCurso.hilo, op |-> enCurso.op,
                      seg |-> <<enCurso.pid, enCurso.sid>>,
                      desde |-> TamPag * enCurso.pag + enCurso.desp - Copiados,
                      largo |-> enCurso.resta + Copiados,
                      bytes |-> IF enCurso.op = "escribir" THEN enCurso.bytes ELSE <<>>]
         /\ Pedido \in ConOlvido!Pedidos /\ Pedido # Nada
         /\ Copiados \in Nat
<1>1. Pedido = [hilo |-> enCurso.hilo, op |-> enCurso.op,
                seg |-> <<enCurso.pid, enCurso.sid>>,
                desde |-> TamPag * enCurso.pag + enCurso.desp - Copiados,
                largo |-> enCurso.resta + Copiados,
                bytes |-> IF enCurso.op = "escribir" THEN enCurso.bytes ELSE <<>>]
  BY DEF Pedido
<1>2. /\ enCurso \in Operaciones /\ <<enCurso.pid, enCurso.sid>> \in PIDs \X SIDs
      /\ enCurso.pag \in Nat /\ enCurso.desp \in 0 .. TamPag - 1
      /\ enCurso.resta \in Nat /\ enCurso.bytes \in Seq(Bytes)
  BY SegmentoDelAcceso DEF RInv, DInv
<1>3. Copiados \in Nat /\ Copiados <= TamPag * enCurso.pag + enCurso.desp
  <2>1. TamPag * enCurso.pag + enCurso.desp \in Nat
    BY <1>2, Constantes
  <2>2. CASE enCurso.op = "solicitar"
    BY <1>2, <2>1, <2>2 DEF Copiados, RInv, Leidos
  <2>3. CASE enCurso.op # "solicitar"
    BY <2>1, <2>3 DEF Copiados
  <2> QED
    BY <2>2, <2>3
<1>4. /\ TamPag * enCurso.pag + enCurso.desp - Copiados \in Nat
      /\ enCurso.resta + Copiados \in Nat
  <2>1. TamPag * enCurso.pag \in Nat
    BY <1>2, Constantes
  <2> QED
    BY SMTT(40), <1>2, <1>3, <2>1
<1>5. enCurso.hilo \in Hilos /\ enCurso.op \in {"solicitar", "escribir"}
  BY <1>2 DEF Operaciones
<1>6. Pedido \in ConOlvido!Pedidos
  BY <1>1, <1>2, <1>4, <1>5 DEF ConOlvido!Pedidos
<1> QED
  BY <1>1, <1>3, <1>6, NadaNoEsDelContrato

\* Without an access there is nothing.
LEMMA SinPedido ==
  ASSUME enCurso = Nada \/ enCurso.op = "destruir"
  PROVE  Pedido = Nada
BY DEF Pedido

\* The same in the state after a step.
LEMMA SinPedidoDespues ==
  ASSUME enCurso' = Nada \/ enCurso'.op = "destruir"
  PROVE  Pedido' = Nada
BY DEF Pedido

\* What a step of the server is for its clients.
PasoDelContrato == ConOlvido!Next \/ UNCHANGED <<Contenido, Pedido, respuesta>>

\* The access goes on with the same page: the contract's is the same.
LEMMA MismoPedido ==
  ASSUME RInv, enCurso # Nada, enCurso.op # "destruir",
         NEW paso \in {"marco", "copia"}, enCurso' = [enCurso EXCEPT !.paso = paso]
  PROVE  /\ enCurso'.op = enCurso.op /\ enCurso'.resta = enCurso.resta
         /\ enCurso'.bytes = enCurso.bytes /\ enCurso'.pid = enCurso.pid
         /\ enCurso'.sid = enCurso.sid /\ enCurso'.pag = enCurso.pag
         /\ enCurso'.desp = enCurso.desp /\ enCurso' # Nada
         /\ Pedido' = Pedido
<1>1. enCurso \in Operaciones
  BY SegmentoDelAcceso DEF RInv, DInv
<1>2. /\ enCurso'.op = enCurso.op /\ enCurso'.resta = enCurso.resta
      /\ enCurso'.bytes = enCurso.bytes /\ enCurso'.pid = enCurso.pid
      /\ enCurso'.sid = enCurso.sid /\ enCurso'.pag = enCurso.pag
      /\ enCurso'.desp = enCurso.desp /\ enCurso'.hilo = enCurso.hilo
  BY <1>1 DEF Operaciones
<1>3. enCurso' # Nada
  <2>1. enCurso' \in Operaciones
    BY <1>1 DEF Operaciones
  <2> QED
    BY <2>1, NadaEsOtro
<1>4. Pedido' = Pedido
  BY <1>2, <1>3 DEF Pedido, Copiados
<1> QED
  BY <1>2, <1>3, <1>4

\* A step of the access that goes on with the same page, and moves no bytes of any
\* segment, is none of the contract's.
LEMMA SigueElAcceso ==
  ASSUME RInv, IInv', enCurso # Nada, enCurso.op # "destruir",
         NEW paso \in {"marco", "copia"}, enCurso' = [enCurso EXCEPT !.paso = paso],
         UNCHANGED segmentos,
         \A k \in Claves : Existe(k) => \A d \in 0 .. TamPag - 1 : Byte(k, d)' = Byte(k, d)
  PROVE  UNCHANGED <<Contenido, Pedido>> /\ Leidos'
<1>1. /\ enCurso'.op = enCurso.op /\ enCurso'.bytes = enCurso.bytes
      /\ enCurso'.pid = enCurso.pid /\ enCurso'.sid = enCurso.sid
      /\ enCurso'.pag = enCurso.pag /\ enCurso'.desp = enCurso.desp
      /\ enCurso' # Nada /\ Pedido' = Pedido
  BY MismoPedido
<1>2. Contenido' = Contenido
  BY <1>1, SinDestruccion, ContenidoQuieto DEF RInv, DInv
<1>3. Leidos'
  BY <1>1, <1>2 DEF Leidos, RInv
<1> QED
  BY <1>1, <1>2, <1>3

-------------------------------------------------------------------------------
\* The steps that leave the contract's state alone.

\* Idle steps, and those that touch neither segments, pages, files nor the access.
LEMMA SinPagina ==
  ASSUME RInv, IInv', UNCHANGED <<segmentos, pagina, archivos, enCurso>>
  PROVE  UNCHANGED <<Contenido, Pedido>> /\ Leidos'
<1>1. Contenido' = Contenido
  <2>1. \A p \in PIDs, sid \in SIDs : EnDestruccion(p, sid)' <=> EnDestruccion(p, sid)
    BY DEF EnDestruccion
  <2>2. \A k \in Claves : Existe(k) => \A d \in 0 .. TamPag - 1 : Byte(k, d)' = Byte(k, d)
    BY DEF Byte
  <2> QED
    BY <2>1, <2>2, ContenidoQuieto DEF RInv, DInv
<1>2. Pedido' = Pedido
  BY DEF Pedido, Copiados
<1>3. Leidos'
  BY <1>1 DEF Leidos, RInv
<1> QED
  BY <1>1, <1>2, <1>3

\* The server goes down in the search for a victim.
LEMMA SinVictimaRefina ==
  ASSUME RInv, IInv', SinVictima
  PROVE  PasoDelContrato /\ Leidos'
<1>1. UNCHANGED <<segmentos, pagina, archivos, enCurso, respuesta>>
  BY DEF SinVictima, tablas, listas
<1> QED
  BY <1>1, SinPagina DEF PasoDelContrato

\* A frame for the page of the access.
LEMMA TomarMarcoVacioRefina ==
  ASSUME RutasDistintas, RInv, IInv', TomarMarcoVacio
  PROVE  PasoDelContrato /\ Leidos'
<1>1. /\ enCurso # Nada /\ enCurso.paso = "marco" /\ enCurso' = [enCurso EXCEPT !.paso = "copia"]
      /\ UNCHANGED <<segmentos, respuesta>>
  BY DEF TomarMarcoVacio, En, tablas
<1>2. enCurso.op # "destruir"
  BY <1>1, ActualExiste DEF RInv, DInv, IInv
<1>3. MismosDatos
  BY TomarMarcoVacioDatos DEF RInv
<1>4. UNCHANGED <<Contenido, Pedido>> /\ Leidos'
  BY <1>1, <1>2, <1>3, BytesQuietos, SigueElAcceso
<1> QED
  BY <1>1, <1>4 DEF PasoDelContrato

\* An eviction: the bytes of the victim are in its file from now on.
LEMMA DesalojarRefina ==
  ASSUME RutasDistintas, RInv, IInv', NEW m \in Marcos, Desalojar(m)
  PROVE  PasoDelContrato /\ Leidos'
<1> DEFINE v == marco[m]
<1>1. /\ enCurso # Nada /\ enCurso.paso = "marco" /\ enCurso' = [enCurso EXCEPT !.paso = "copia"]
      /\ UNCHANGED <<segmentos, respuesta>>
  BY DEF Desalojar, BuscaVictima, En, tablas
<1>2. enCurso.op # "destruir"
  BY <1>1, ActualExiste DEF RInv, DInv, IInv
<1>3. \A k \in Claves : Existe(k) => \A d \in 0 .. TamPag - 1 : Byte(k, d)' = Byte(k, d)
  <2>1. /\ ~pagina[v].swapped /\ pagina'[v].swapped = TRUE /\ pagina[v].data # Nada
        /\ \A k \in Claves : Existe(k) /\ k # v =>
             /\ pagina'[k].swapped = pagina[k].swapped
             /\ pagina'[k].data = pagina[k].data
        /\ \A k \in Claves : Archivo(k)' = IF k = v THEN pagina[v].data ELSE Archivo(k)
    BY DesalojarPaginas, DesalojarArchivo DEF RInv, DInv
  <2> SUFFICES ASSUME NEW k \in Claves, Existe(k), NEW d \in 0 .. TamPag - 1
               PROVE  Byte(k, d)' = Byte(k, d)
    OBVIOUS
  <2> HIDE DEF v
  <2>2. CASE k = v
    BY <2>1, <2>2 DEF Byte, Archivo
  <2>3. CASE k # v
    BY <2>1, <2>3 DEF Byte, Archivo
  <2> QED
    BY <2>2, <2>3
<1>4. UNCHANGED <<Contenido, Pedido>> /\ Leidos'
  BY <1>1, <1>2, <1>3, SigueElAcceso
<1> QED
  BY <1>1, <1>4 DEF PasoDelContrato

-------------------------------------------------------------------------------
\* The failures: the client gets an error and what it had stored stays stored.
LEMMA FallarRefina ==
  ASSUME RInv, IInv',
         \/ SwapInFalla \/ MemoriaLlena \/ \E m \in Marcos : SwapOutFalla(m)
  PROVE  PasoDelContrato /\ Leidos'
<1>1. /\ enCurso # Nada /\ enCurso.paso # "destruir"
      /\ \E codigo \in {error_general, error_memoria_llena} : Fracasar(codigo)
      /\ UNCHANGED <<segmentos, archivos>>
  BY DEF SwapInFalla, MemoriaLlena, SwapOutFalla, BuscaVictima, En, tablas
<1>2. enCurso.op # "destruir" /\ enCurso \in Operaciones
  BY <1>1, ActualExiste DEF RInv, DInv, IInv
<1>3. PICK codigo \in {error_general, error_memoria_llena} : Fracasar(codigo)
  BY <1>1
<1>4. Pedido # Nada /\ Pedido.hilo = enCurso.hilo
  BY <1>1, <1>2, PedidoDelAcceso
<1>5. respuesta' \in ConOlvido!Errores /\ respuesta'.hilo = Pedido.hilo /\ enCurso' = Nada
  <2>1. enCurso.op \in {"solicitar", "escribir"} /\ enCurso.hilo \in Hilos
    BY <1>2 DEF Operaciones
  <2> QED
    BY <1>3, <1>4, <2>1 DEF Fracasar, Responder, error_general, error_memoria_llena,
                            ConOlvido!Errores
<1>6. Pedido' = Nada
  BY <1>5, SinPedidoDespues
<1>7. Contenido' = Contenido
  <2>1. UNCHANGED <<pagina, archivos, cantidadSwap>> \/ MismosDatos
    <3>1. ASSUME NEW m \in Marcos, SwapOutFalla(m)
          PROVE  MismosDatos
      BY <3>1, SwapOutFallaDatos DEF RInv, DInv
    <3> QED
      BY <3>1 DEF SwapInFalla, MemoriaLlena
  <2>2. MismosDatos
    BY <2>1, SinTocarPaginas
  <2> QED
    BY <1>1, <1>2, <1>5, <2>2, BytesQuietos, SinDestruccion, ContenidoQuieto DEF RInv, DInv
<1>8. ConOlvido!Fallar
  BY <1>4, <1>5, <1>6, <1>7 DEF ConOlvido!Fallar
<1>9. Leidos'
  BY <1>5 DEF Leidos
<1> QED
  BY <1>8, <1>9 DEF PasoDelContrato, ConOlvido!Next

-------------------------------------------------------------------------------
\* The requests.

\* crearSegmento, up to its admission test.
LEMMA AdmitirSegmentoRefina ==
  ASSUME RInv, IInv', NEW h \in Hilos, AdmitirSegmento(h)
  PROVE  PasoDelContrato /\ Leidos'
<1>1. UNCHANGED <<segmentos, pagina, archivos, enCurso>>
  BY DEF AdmitirSegmento, tablas
<1>2. UNCHANGED <<Contenido, Pedido>> /\ Leidos'
  BY <1>1, SinPagina
<1>3. respuesta' = respuesta \/ respuesta' \in ConOlvido!Errores
  BY DEF AdmitirSegmento, Responder, error_memoria_llena, ConOlvido!Errores
<1>4. respuesta' \in ConOlvido!Errores => ConOlvido!Rechazar
  BY <1>2 DEF ConOlvido!Rechazar
<1> QED
  BY <1>2, <1>3, <1>4 DEF PasoDelContrato, ConOlvido!Next

\* The validation of a request r of n bytes.
LEMMA AccederRefina ==
  ASSUME RInv, IInv', NEW h \in Hilos, NEW op \in {"solicitar", "escribir"},
         NEW r, NEW n \in Nat, NEW bytes \in Seq(Bytes), Acceder(h, op, r, n, bytes),
         r.pid \in PIDs, r.sid \in SIDs, r.pag \in 0 .. MaxPag - 1, r.desp \in 0 .. TamPag - 1,
         op = "solicitar" => bytes = <<>>
  PROVE  PasoDelContrato /\ Leidos'
<1> DEFINE op1 == [hilo |-> h, op |-> op, pid |-> r.pid, sid |-> r.sid,
                   pag |-> r.pag, desp |-> r.desp, resta |-> n, bytes |-> bytes,
                   paso |-> PrimerPaso(<<r.pid, r.sid, r.pag>>)]
           s == <<r.pid, r.sid>>
<1>1. enCurso = Nada /\ UNCHANGED <<segmentos, pagina, archivos, cantidadSwap>>
  BY DEF Acceder, Ociosa, tablas
<1>2. Pedido = Nada
  BY <1>1, SinPedido
<1>3. op1 \in Operaciones
  <2>1. PrimerPaso(<<r.pid, r.sid, r.pag>>) \in {"swapin", "marco", "copia"}
    BY DEF PrimerPaso
  <2>2. r.pag \in 0 .. MaxPag
    BY Constantes
  <2> QED
    BY <2>1, <2>2 DEF Operaciones
<1>4. CASE UNCHANGED enCurso
  <2>1. UNCHANGED <<Contenido, Pedido>> /\ Leidos'
    BY <1>1, <1>4, SinPagina
  <2>2. enCurso' # op1
    BY <1>1, <1>4, <1>3, NadaEsOtro
  <2>3. UNCHANGED respuesta \/ respuesta' \in ConOlvido!Errores
    BY <2>2 DEF Acceder, Responder, error_general, error_segmentation_fault, ConOlvido!Errores
  <2>4. respuesta' \in ConOlvido!Errores => ConOlvido!Rechazar
    BY <2>1 DEF ConOlvido!Rechazar
  <2> QED
    BY <2>1, <2>3, <2>4 DEF PasoDelContrato, ConOlvido!Next
<1>5. CASE DentroDelSegmento(r, n) /\ enCurso' = op1 /\ UNCHANGED respuesta
  <2>2. enCurso' # Nada
    BY <1>5, <1>3, NadaEsOtro
  <2>3. Contenido' = Contenido
    <3>1. MismosDatos
      BY <1>1, SinTocarPaginas
    <3>2. enCurso'.op # "destruir"
      BY <1>5
    <3> QED
      BY <1>1, <3>1, <3>2, BytesQuietos, SinDestruccion, ContenidoQuieto DEF RInv, DInv
  <2>4. Pedido' = [hilo |-> h, op |-> op, seg |-> s, desde |-> TamPag * r.pag + r.desp,
                   largo |-> n, bytes |-> IF op = "escribir" THEN bytes ELSE <<>>]
    <3>1. Copiados' = 0
      BY <1>5 DEF Copiados
    <3>2. Pedido' = [hilo |-> h, op |-> op, seg |-> s,
                     desde |-> TamPag * r.pag + r.desp - Copiados',
                     largo |-> n + Copiados',
                     bytes |-> IF op = "escribir" THEN bytes ELSE <<>>]
      BY <1>5, <2>2 DEF Pedido
    <3>3. TamPag * r.pag + r.desp - 0 = TamPag * r.pag + r.desp /\ n + 0 = n
      <4>1. TamPag * r.pag \in Nat
        BY Constantes
      <4> QED
        BY <4>1
    <3> QED
      BY <3>1, <3>2, <3>3
  <2>5. PICK i \in DOMAIN segmentos[r.pid] :
          /\ segmentos[r.pid][i].sid = r.sid
          /\ TamPag * r.pag + r.desp + n <= segmentos[r.pid][i].tamanio
    BY <1>5 DEF DentroDelSegmento
  <2>6. Vivo(s)
    BY <1>1, <2>5 DEF Vivo, TieneSegmento, EnDestruccion
  <2>7. segmentos[r.pid][i].tamanio = Tamanio(r.pid, r.sid)
    BY <2>5, TamanioUnico DEF Unicidad, RInv, DInv
  <2>8. Contenido[s] # Nada /\ Len(Contenido[s]) = Tamanio(r.pid, r.sid)
    BY <2>6, ContenidoVivo DEF Vista, RInv, DInv
  <2>9. Pedido' \in ConOlvido!Pedidos
    <3>1. TamPag * r.pag + r.desp \in Nat
      <4>1. TamPag * r.pag \in Nat
        BY Constantes
      <4> QED
        BY <4>1
    <3> QED
      BY <2>4, <3>1 DEF ConOlvido!Pedidos
  <2>10. ConOlvido!Pedir
    <3>1. Pedido'.seg = s /\ Pedido'.desde = TamPag * r.pag + r.desp /\ Pedido'.largo = n
      BY <2>4
    <3> HIDE DEF s
    <3>2. TamPag * r.pag + r.desp + n <= Len(Contenido[s])
      BY <2>5, <2>7, <2>8
    <3> QED
      BY <1>2, <1>5, <2>3, <2>8, <2>9, <3>1, <3>2 DEF ConOlvido!Pedir
  <2>11. Leidos'
    <3>1. CASE op = "solicitar"
      <4>1. enCurso'.bytes = <<>> /\ enCurso'.pag = r.pag /\ enCurso'.desp = r.desp
        BY <1>5, <3>1
      <4>2. TamPag * r.pag \in Nat
        BY Constantes
      <4>3. 0 <= TamPag * r.pag + r.desp
        BY <4>2
      <4> QED
        BY <4>1, <4>3 DEF Leidos
    <3>2. CASE op # "solicitar"
      BY <1>5, <3>2 DEF Leidos
    <3> QED
      BY <3>1, <3>2
  <2> QED
    BY <2>10, <2>11 DEF PasoDelContrato, ConOlvido!Next
<1> QED
  BY <1>4, <1>5 DEF Acceder

\* solicitar_memoria and escribir_memoria.
LEMMA PedirRefina ==
  ASSUME RInv, IInv', NEW h \in Hilos, SolicitarMemoria(h) \/ EscribirMemoria(h)
  PROVE  PasoDelContrato /\ Leidos'
<1>1. CASE SolicitarMemoria(h)
  <2>1. PICK r \in Lecturas : Acceder(h, "solicitar", r, r.tamanio, <<>>)
    BY <1>1 DEF SolicitarMemoria
  <2>2. /\ r.pid \in PIDs /\ r.sid \in SIDs /\ r.pag \in 0 .. MaxPag - 1
        /\ r.desp \in 0 .. TamPag - 1 /\ r.tamanio \in Nat
    BY Constantes
  <2>3. <<>> \in Seq(Bytes)
    OBVIOUS
  <2> QED
    BY <2>1, <2>2, <2>3, AccederRefina
<1>2. CASE EscribirMemoria(h)
  <2>1. PICK r \in Escrituras : Acceder(h, "escribir", r, Len(r.bytes), r.bytes)
    BY <1>2 DEF EscribirMemoria
  <2>2. /\ r.pid \in PIDs /\ r.sid \in SIDs /\ r.pag \in 0 .. MaxPag - 1
        /\ r.desp \in 0 .. TamPag - 1 /\ r.bytes \in Seq(Bytes)
    BY Constantes
  <2>3. Len(r.bytes) \in Nat
    BY <2>2
  <2> QED
    BY <2>1, <2>2, <2>3, AccederRefina
<1> QED
  BY <1>1, <1>2

-------------------------------------------------------------------------------
\* The destruction of a segment: for the contract it is done when it begins.
LEMMA DestruirSegmentoRefina ==
  ASSUME RInv, IInv', NEW h \in Hilos, DestruirSegmento(h)
  PROVE  PasoDelContrato /\ Leidos'
<1>1. /\ enCurso = Nada
      /\ UNCHANGED <<segmentos, pagina, archivos, respuesta>>
  BY DEF DestruirSegmento, Ociosa, tablas
<1>2. PICK pid \in procesos, sid \in SIDs :
        /\ TieneSegmento(pid, sid)
        /\ enCurso' = [hilo |-> h, op |-> "destruir", paso |-> "destruir", pid |-> pid,
                       sid |-> sid, pag |-> 0, desp |-> 0, resta |-> 0, bytes |-> <<>>]
  BY DEF DestruirSegmento
<1> DEFINE s == <<pid, sid>>
<1>3. pid \in PIDs /\ s \in PIDs \X SIDs
  BY DEF RInv, DInv, IInv, TypeOK
<1>4. /\ enCurso'.op = "destruir" /\ enCurso'.pid = pid /\ enCurso'.sid = sid
      /\ enCurso' # Nada
  <2>1. enCurso' \in Operaciones
    <3>1. 0 \in 0 .. MaxPag /\ 0 \in 0 .. TamPag - 1 /\ 0 \in Nat
      BY Constantes
    <3>2. <<>> \in Seq(Bytes)
      OBVIOUS
    <3> QED
      BY <1>2, <1>3, <3>1, <3>2 DEF Operaciones
  <2> QED
    BY <1>2, <2>1, NadaEsOtro
<1>5. \A x \in PIDs \X SIDs : /\ EnDestruccion(x[1], x[2])' <=> x = s
                              /\ ~EnDestruccion(x[1], x[2])
  BY <1>1, <1>4 DEF EnDestruccion
<1>6. Contenido[s] # Nada
  BY <1>2, <1>3, <1>5, ContenidoVivo DEF Vista, Vivo, RInv, DInv
<1>7. Contenido'[s] = Nada
  BY <1>3, <1>5, VistaSiguiente DEF Ausencia, Vivo
<1>8. ASSUME NEW x \in PIDs \X SIDs, x # s
      PROVE  Contenido'[x] = Contenido[x]
  <2>1. Vivo(x)' <=> Vivo(x)
    BY <1>1, <1>5, <1>8 DEF Vivo, TieneSegmento
  <2>2. Tamanio(x[1], x[2])' = Tamanio(x[1], x[2])
    BY <1>1 DEF Tamanio
  <2>3. \A k \in Claves, d \in 0 .. TamPag - 1 : Byte(k, d)' = Byte(k, d)
    BY <1>1 DEF Byte
  <2> QED
    BY <2>1, <2>2, <2>3, MismoContenido DEF RInv, DInv
<1>9. Contenido' = [Contenido EXCEPT ![s] = Nada]
  BY <1>3, <1>7, <1>8 DEF Contenido
<1>10. Pedido = Nada /\ Pedido' = Nada
  BY <1>1, <1>4, SinPedido, SinPedidoDespues
<1>11. ConOlvido!Destruir(s)
  BY <1>1, <1>6, <1>9, <1>10 DEF ConOlvido!Destruir
<1>12. Leidos'
  BY <1>4 DEF Leidos
<1> QED
  BY <1>3, <1>11, <1>12 DEF PasoDelContrato, ConOlvido!Next

\* The pages of a segment that is being destroyed go one by one: the contract sees
\* nothing of it.
LEMMA DestruirPagRefina ==
  ASSUME RutasDistintas, RInv, IInv', DestruirPag
  PROVE  PasoDelContrato /\ Leidos'
<1>1. /\ Actual \in Claves /\ enCurso \in Operaciones /\ enCurso.op = "destruir"
      /\ enCurso' = [enCurso EXCEPT !.pag = @ + 1]
      /\ \A k \in Claves : pagina'[k] = IF k = Actual THEN Nada ELSE pagina[k]
      /\ \A k \in Claves : Archivo(k)' = IF k = Actual THEN Nada ELSE Archivo(k)
  BY DestruirPaginas DEF RInv
<1>2. UNCHANGED <<segmentos, respuesta>> /\ enCurso # Nada
  BY DEF DestruirPag, En, tablas
<1>3. /\ enCurso'.op = "destruir" /\ enCurso'.pid = enCurso.pid /\ enCurso'.sid = enCurso.sid
      /\ enCurso' # Nada
  <2>1. enCurso.pag + 1 \in 0 .. MaxPag
    BY SMTT(40), <1>1, Constantes DEF Actual, Claves
  <2>2. enCurso' \in Operaciones
    BY <1>1, <2>1 DEF Operaciones
  <2> QED
    BY <1>1, <2>2, NadaEsOtro DEF Operaciones
<1>4. \A p \in PIDs, sid \in SIDs : EnDestruccion(p, sid)' <=> EnDestruccion(p, sid)
  BY <1>1, <1>2, <1>3 DEF EnDestruccion
<1>5. ASSUME NEW x \in PIDs \X SIDs
      PROVE  Contenido'[x] = Contenido[x]
  <2>1. Vivo(x)' <=> Vivo(x)
    <3>1. x[1] \in PIDs /\ x[2] \in SIDs
      OBVIOUS
    <3> QED
      BY <1>2, <1>4, <3>1 DEF Vivo, TieneSegmento
  <2>2. Tamanio(x[1], x[2])' = Tamanio(x[1], x[2])
    BY <1>2 DEF Tamanio
  <2>3. CASE Vivo(x)
    <3>1. \A k \in Claves : k[1] = x[1] /\ k[2] = x[2] => k # Actual
      BY <1>1, <1>2, <2>3 DEF Vivo, EnDestruccion, Actual
    <3>2. \A k \in Claves, d \in 0 .. TamPag - 1 : k # Actual => Byte(k, d)' = Byte(k, d)
      BY <1>1 DEF Byte, Archivo
    <3> QED
      BY <2>1, <2>2, <3>1, <3>2, MismoContenido DEF RInv, DInv
  <2>4. CASE ~Vivo(x)
    BY <2>1, <2>4, ContenidoAusente, VistaSiguiente DEF Ausencia
  <2> QED
    BY <2>3, <2>4
<1>6. Contenido' = Contenido
  BY <1>5 DEF Contenido
<1>7. Pedido = Nada /\ Pedido' = Nada
  BY <1>1, <1>3, SinPedido, SinPedidoDespues
<1>8. Leidos'
  BY <1>3 DEF Leidos
<1> QED
  BY <1>2, <1>6, <1>7, <1>8 DEF PasoDelContrato

\* The segment leaves the list; it was the only one with its SID.
LEMMA QuitarSegmentoRefina ==
  ASSUME RInv, IInv', QuitarSegmento
  PROVE  PasoDelContrato /\ Leidos'
<1> DEFINE pid == enCurso.pid
           sid == enCurso.sid
           s == segmentos[enCurso.pid]
<1>1. PICK i \in DOMAIN s :
        /\ s[i].sid = sid
        /\ segmentos' = [segmentos EXCEPT ![pid] = RemoveAt(s, i)]
  BY DEF QuitarSegmento, PosicionSegmento
<1>2. /\ enCurso # Nada /\ enCurso' = Nada
      /\ UNCHANGED <<pagina, archivos, respuesta>>
  BY DEF QuitarSegmento, En
<1>3. enCurso.op = "destruir" /\ pid \in PIDs /\ sid \in SIDs
  BY DEF QuitarSegmento, En, RInv, DInv, IInv, TypeOK, OperacionEnCurso, Operaciones
<1>4. s \in Seq(Segmentos) /\ DOMAIN s = 1 .. Len(s) /\ Len(s) \in Nat /\ i \in 1 .. Len(s)
  BY <1>3 DEF RInv, DInv, IInv, TypeOK
<1> DEFINE q == RemoveAt(s, i)
<1>5. q \in Seq(Segmentos) /\ Len(q) = Len(s) - 1
      /\ \A j \in 1 .. Len(s) - 1 : q[j] = IF j < i THEN s[j] ELSE s[j + 1]
  BY <1>4, QuitarPosicion
<1>6. segmentos'[pid] = q /\ \A p \in PIDs : p # pid => segmentos'[p] = segmentos[p]
  BY <1>1, <1>3 DEF RInv, DInv, IInv, TypeOK
<1>7. \A j \in DOMAIN s : j # i => s[j].sid # sid
  <2>1. \A j, l \in DOMAIN s : j < l => s[j].sid < s[l].sid
    BY <1>3 DEF RInv, DInv, IInv, SIDsCrecientes
  <2>2. \A j \in DOMAIN s : s[j].sid \in Int
    <3>1. \A j \in DOMAIN s : s[j] \in Segmentos
      BY <1>4
    <3> QED
      BY <3>1, Constantes DEF Segmentos, SIDs
  <2> HIDE DEF s, sid
  <2> QED
    BY <1>1, <1>4, <2>1, <2>2
<1> HIDE DEF q, s
\* The other segments keep their sizes.
<1>8. \A j \in DOMAIN q : \E l \in DOMAIN s : l # i /\ q[j] = s[l]
  <2> SUFFICES ASSUME NEW j \in 1 .. Len(s) - 1
               PROVE  \E l \in DOMAIN s : l # i /\ q[j] = s[l]
    BY <1>5
  <2>1. CASE j < i
    <3>1. j \in DOMAIN s /\ j # i /\ q[j] = s[j]
      BY <1>4, <1>5, <2>1
    <3> QED
      BY <3>1, Zenon
  <2>2. CASE ~(j < i)
    <3>1. j + 1 \in DOMAIN s /\ j + 1 # i
      BY <1>4, <2>2
    <3>2. q[j] = s[j + 1]
      BY <1>5, <2>2
    <3> QED
      BY <3>1, <3>2, Zenon
  <2> QED
    BY <2>1, <2>2
<1>9. \A l \in DOMAIN s : l # i => \E j \in DOMAIN q : q[j] = s[l]
  <2> SUFFICES ASSUME NEW l \in 1 .. Len(s), l # i
               PROVE  \E j \in 1 .. Len(s) - 1 : q[j] = s[l]
    BY <1>4, <1>5
  <2>1. CASE l < i
    BY <1>4, <1>5, <2>1
  <2>2. CASE l > i
    <3>1. l - 1 \in 1 .. Len(s) - 1 /\ ~(l - 1 < i) /\ (l - 1) + 1 = l
      BY <1>4, <2>2
    <3> QED
      BY <1>5, <3>1
  <2> QED
    BY <1>4, <2>1, <2>2
<1>10. ASSUME NEW x \in PIDs \X SIDs
       PROVE  Contenido'[x] = Contenido[x]
  <2>1. x[1] \in PIDs /\ x[2] \in SIDs
    OBVIOUS
  <2>2. CASE x[1] = pid /\ x[2] = sid
    <3>1. ~Vivo(x)
      BY <1>2, <1>3, <2>2 DEF Vivo, EnDestruccion
    <3>2. ~Vivo(x)'
      BY <1>6, <1>7, <1>8, <2>2 DEF Vivo, TieneSegmento
    <3> QED
      BY <3>1, <3>2, ContenidoAusente, VistaSiguiente DEF Ausencia
  <2>3. CASE ~(x[1] = pid /\ x[2] = sid)
    <3>1. ~EnDestruccion(x[1], x[2]) /\ ~EnDestruccion(x[1], x[2])'
      BY <1>2, <2>3 DEF EnDestruccion
    <3>2. TieneSegmento(x[1], x[2])' <=> TieneSegmento(x[1], x[2])
      <4>1. CASE x[1] # pid
        BY <1>6, <2>1, <4>1 DEF TieneSegmento
      <4>2. CASE x[1] = pid
        BY <1>1, <1>6, <1>8, <1>9, <2>3, <4>2 DEF TieneSegmento, s
      <4> QED
        BY <4>1, <4>2
    <3>3. Vivo(x)' <=> Vivo(x)
      BY <3>1, <3>2 DEF Vivo
    <3>4. ASSUME Vivo(x)
          PROVE  Tamanio(x[1], x[2])' = Tamanio(x[1], x[2])
      <4>1. CASE x[1] # pid
        BY <1>6, <2>1, <4>1 DEF Tamanio
      <4>2. CASE x[1] = pid
        <5>1. PICK l \in DOMAIN s : s[l].sid = x[2]
          BY <3>4, <4>2 DEF Vivo, TieneSegmento, s
        <5>2. PICK j \in DOMAIN q : q[j] = s[l]
          BY <1>1, <1>9, <2>3, <4>2, <5>1
        <5>3. s[l].tamanio = Tamanio(pid, x[2])
          BY <1>3, <5>1, TamanioUnico DEF Unicidad, s, RInv, DInv
        <5>4. Unicidad'
          BY VistaSiguiente
        <5>5. segmentos'[x[1]][j] = q[j] /\ j \in DOMAIN segmentos'[x[1]]
          BY <1>6, <4>2
        <5>6. segmentos'[x[1]][j].tamanio = Tamanio(x[1], x[2])'
          BY <2>1, <5>1, <5>2, <5>4, <5>5 DEF Unicidad
        <5> QED
          BY <4>2, <5>2, <5>3, <5>5, <5>6
      <4> QED
        BY <4>1, <4>2
    <3>5. \A k \in Claves, d \in 0 .. TamPag - 1 : Byte(k, d)' = Byte(k, d)
      BY <1>2 DEF Byte
    <3> QED
      BY <3>3, <3>4, <3>5, MismoContenido DEF RInv, DInv
  <2> QED
    BY <2>2, <2>3
<1>11. Contenido' = Contenido
  BY <1>10 DEF Contenido
<1>12. Pedido = Nada /\ Pedido' = Nada
  BY <1>2, <1>3, SinPedido, SinPedidoDespues
<1>13. Leidos'
  BY <1>2 DEF Leidos
<1> QED
  BY <1>2, <1>11, <1>12, <1>13 DEF PasoDelContrato

-------------------------------------------------------------------------------
\* crearSegmento: a segment that was not there, all zeros; the others stay.
LEMMA AgregarSegmentoRefina ==
  ASSUME RInv, IInv', NEW h \in Hilos, AgregarSegmento(h)
  PROVE  PasoDelContrato /\ Leidos'
<1>1. PICK pid \in PIDs, tamanio \in Tamanios, sid \in SIDs :
        /\ pid = solicitud[h].pid /\ tamanio = solicitud[h].tamanio
        /\ tamanio <= MaxSegmento /\ sid = calcularProximoSID(pid)
  <2>1. solicitud[h] \in Solicitudes /\ calcularProximoSID(solicitud[h].pid) \in SIDs
    BY DEF AgregarSegmento, RInv, DInv, IInv, TypeOK
  <2> QED
    BY <2>1 DEF Solicitudes
<1> DEFINE nuevo == [sid |-> sid, tamanio |-> tamanio]
           s == segmentos[pid]
           q == Append(s, nuevo)
           n == Len(s)
           x == <<pid, sid>>
           nueva(k) == k[1] = pid /\ k[2] = sid /\ k[3] < NumPaginas(tamanio)
<1>2. /\ enCurso = Nada /\ enCurso' = Nada /\ sid \in SIDs
      /\ segmentos' = [segmentos EXCEPT ![pid] = Append(@, nuevo)]
      /\ \A k \in Claves : pagina'[k] = IF nueva(k) THEN PaginaVacia ELSE pagina[k]
      /\ respuesta' = [hilo |-> h, op |-> "crear", codigo |-> sid, bytes |-> <<>>]
      /\ UNCHANGED archivos
  BY <1>1 DEF AgregarSegmento, crearPaginasPorTamanioSegmento, Responder
<1>3. /\ pid \in PIDs /\ tamanio \in Tamanios /\ tamanio \in Nat
      /\ NumPaginas(tamanio) \in Nat /\ NumPaginas(tamanio) <= MaxPag
  BY ZenonT(40), <1>1, Constantes, NumPaginasNat
<1>4. /\ s \in Seq(Segmentos) /\ n \in Nat /\ DOMAIN s = 1 .. n
      /\ segmentos'[pid] = q /\ \A p \in PIDs : p # pid => segmentos'[p] = segmentos[p]
  BY <1>2, <1>3 DEF RInv, DInv, IInv, TypeOK
<1>5. DOMAIN q = (1 .. n) \cup {n + 1} /\ q[n + 1] = nuevo /\ \A i \in 1 .. n : q[i] = s[i]
  <2>1. nuevo \in Segmentos
    BY <1>2, <1>3 DEF Segmentos
  <2> HIDE DEF nuevo, s
  <2> QED
    BY <1>4, <2>1
<1>6. \A i \in DOMAIN s : s[i].sid # sid
  <2>1. sid \in Nat /\ \A i \in DOMAIN s : s[i].sid < sid
    BY <1>1, SIDNuevo DEF RInv, DInv
  <2> QED
    BY <2>1
<1>7. \A p \in PIDs, d \in SIDs : ~EnDestruccion(p, d) /\ ~EnDestruccion(p, d)'
  BY <1>2 DEF EnDestruccion
<1>8. x \in PIDs \X SIDs /\ x[1] = pid /\ x[2] = sid
  BY <1>2, <1>3
<1>9. \A k \in Claves : ~nueva(k) => \A d \in 0 .. TamPag - 1 : Byte(k, d)' = Byte(k, d)
  BY <1>2 DEF Byte
<1>10. \A k \in Claves : nueva(k) => \A d \in 0 .. TamPag - 1 : Byte(k, d)' = 0
  <2>1. PaginaVacia.swapped = FALSE /\ \A d \in 0 .. TamPag - 1 : PaginaVacia.data[d] = 0
    BY DEF PaginaVacia
  <2> QED
    BY <1>2, <2>1 DEF Byte
<1>11. Vista' /\ Unicidad' /\ Ausencia'
  BY VistaSiguiente
\* The new segment.
<1>12. Contenido[x] = Nada
  BY <1>6, <1>8, ContenidoAusente DEF Ausencia, Vivo, TieneSegmento
<1>13. Vivo(x)'
  BY <1>2, <1>3, <1>4, <1>5, <1>7, <1>8 DEF Vivo, TieneSegmento
<1>14. Tamanio(x[1], x[2])' = tamanio
  <2>1. n + 1 \in DOMAIN segmentos'[x[1]] /\ segmentos'[x[1]][n + 1] = nuevo
    BY <1>4, <1>5, <1>8
  <2>2. segmentos'[x[1]][n + 1].sid = x[2] /\ segmentos'[x[1]][n + 1].tamanio = tamanio
    BY <1>8, <2>1
  <2> HIDE DEF x, n
  <2>3. segmentos'[x[1]][n + 1].tamanio = Tamanio(x[1], x[2])'
    BY <1>8, <1>11, <2>1, <2>2 DEF Unicidad
  <2> QED
    BY <2>2, <2>3
<1> HIDE DEF x, s, q, n, nuevo
<1>15. /\ Contenido'[x] \in Seq(Bytes) /\ Len(Contenido'[x]) = tamanio
       /\ \A j \in 1 .. tamanio :
            /\ ClaveDe(x, j) \in Claves
            /\ Contenido'[x][j] = Byte(ClaveDe(x, j), (j - 1) % TamPag)'
  BY <1>8, <1>11, <1>13, <1>14 DEF Vista, ClaveDe
<1>16. \A j \in 1 .. tamanio : Contenido'[x][j] = 0
  <2> SUFFICES ASSUME NEW j \in 1 .. tamanio PROVE Contenido'[x][j] = 0
    OBVIOUS
  <2>1. (j - 1) \div TamPag < NumPaginas(tamanio) /\ (j - 1) % TamPag \in 0 .. TamPag - 1
    BY <1>3, PaginaDePosicion
  <2>2. nueva(ClaveDe(x, j))
    BY <1>8, <2>1 DEF ClaveDe
  <2> QED
    BY <1>10, <1>15, <2>1, <2>2
<1>17. Contenido'[x] = [i \in 1 .. tamanio |-> 0]
  <2> DEFINE f == [i \in 1 .. tamanio |-> 0]
  <2>1. f = [i \in 1 .. tamanio |-> f[i]] /\ \A i \in 1 .. tamanio : Contenido'[x][i] = f[i]
    BY <1>16
  <2> HIDE DEF f
  <2>2. Contenido'[x] = f
    BY SMTT(40), <1>3, <1>15, <2>1, MismaSecuencia
  <2> QED
    BY <2>2 DEF f
\* The others.
<1>18. ASSUME NEW y \in PIDs \X SIDs, y # x
       PROVE  Contenido'[y] = Contenido[y]
  <2>1. y[1] \in PIDs /\ y[2] \in SIDs /\ ~(y[1] = pid /\ y[2] = sid)
    BY <1>18 DEF x
  <2>2. TieneSegmento(y[1], y[2])' <=> TieneSegmento(y[1], y[2])
    <3>1. CASE y[1] # pid
      BY <1>4, <2>1, <3>1 DEF TieneSegmento
    <3>2. CASE y[1] = pid
      <4>1. nuevo.sid = sid
        BY DEF nuevo
      <4> QED
        BY <1>4, <1>5, <2>1, <3>2, <4>1 DEF TieneSegmento, s
    <3> QED
      BY <3>1, <3>2
  <2>3. Vivo(y)' <=> Vivo(y)
    BY <1>7, <2>1, <2>2 DEF Vivo
  <2>4. ASSUME Vivo(y)
        PROVE  Tamanio(y[1], y[2])' = Tamanio(y[1], y[2])
    <3>1. CASE y[1] # pid
      BY <1>4, <2>1, <3>1 DEF Tamanio
    <3>2. CASE y[1] = pid
      <4>1. PICK l \in 1 .. n : s[l].sid = y[2]
        BY <1>4, <2>4, <3>2 DEF Vivo, TieneSegmento, s
      <4>2. s[l].tamanio = Tamanio(y[1], y[2])
        BY <1>4, <2>1, <3>2, <4>1, TamanioUnico DEF Unicidad, s, RInv, DInv
      <4>3. l \in DOMAIN segmentos'[y[1]] /\ segmentos'[y[1]][l] = s[l]
        BY <1>4, <1>5, <3>2
      <4>4. segmentos'[y[1]][l].tamanio = Tamanio(y[1], y[2])'
        BY <1>11, <2>1, <4>1, <4>3 DEF Unicidad
      <4> QED
        BY <4>2, <4>3, <4>4
    <3> QED
      BY <3>1, <3>2
  <2>5. \A k \in Claves : k[1] = y[1] /\ k[2] = y[2] => ~nueva(k)
    BY <2>1
  <2> QED
    BY <1>9, <2>3, <2>4, <2>5, MismoContenido DEF RInv, DInv
<1>19. Contenido' = [Contenido EXCEPT ![x] = [i \in 1 .. tamanio |-> 0]]
  BY <1>8, <1>17, <1>18 DEF Contenido
<1>20. Pedido = Nada /\ Pedido' = Nada
  BY <1>2, SinPedido, SinPedidoDespues
<1>21. ConOlvido!Crear(x)
  BY <1>2, <1>3, <1>8, <1>12, <1>19, <1>20 DEF ConOlvido!Crear, ConOlvido!Exito
<1>22. Leidos'
  BY <1>2 DEF Leidos
<1> QED
  BY <1>8, <1>21, <1>22 DEF PasoDelContrato, ConOlvido!Next

-------------------------------------------------------------------------------
\* swapInPagina: the contract's segment forgets what follows the first NUL of the
\* page, and nothing else.
LEMMA SwapInRefina ==
  ASSUME RutasDistintas, RInv, IInv', SwapIn
  PROVE  PasoDelContrato /\ Leidos'
<1>1. /\ enCurso # Nada /\ enCurso.op # "destruir"
      /\ enCurso' = [enCurso EXCEPT !.paso = "marco"]
      /\ Actual \in Claves /\ Existe(Actual) /\ pagina[Actual].swapped
      /\ Archivo(Actual) # Nada
      /\ pagina'[Actual].data = HastaNul(Archivo(Actual), pagina[Actual].data)
      /\ pagina'[Actual].swapped = FALSE
      /\ \A k \in Claves : k # Actual => pagina'[k] = pagina[k]
      /\ \A k \in Claves : Archivo(k)' = IF k = Actual THEN Nada ELSE Archivo(k)
  BY SwapInPaginas DEF RInv
<1>2. UNCHANGED <<segmentos, respuesta>>
  BY DEF SwapIn, tablas
<1>3. PICK s \in PIDs \X SIDs, p \in Nat, des \in 0 .. TamPag - 1, t \in Nat :
        /\ s = <<enCurso.pid, enCurso.sid>> /\ p = enCurso.pag /\ des = enCurso.desp
        /\ t = Tamanio(s[1], s[2]) /\ Vivo(s) /\ TamPag * p + des <= t
  <2>1. /\ <<enCurso.pid, enCurso.sid>> \in PIDs \X SIDs
        /\ Vivo(<<enCurso.pid, enCurso.sid>>)
        /\ enCurso.pag \in Nat /\ enCurso.desp \in 0 .. TamPag - 1 /\ enCurso.resta \in Nat
        /\ Tamanio(enCurso.pid, enCurso.sid) \in Nat
        /\ TamPag * enCurso.pag + enCurso.desp + enCurso.resta <= Tamanio(enCurso.pid, enCurso.sid)
    BY <1>1, SegmentoDelAcceso DEF RInv, DInv
  <2>2. TamPag * enCurso.pag + enCurso.desp <= Tamanio(enCurso.pid, enCurso.sid)
    <3>1. TamPag * enCurso.pag \in Nat
      BY <2>1, Constantes
    <3> QED
      BY <2>1, <3>1
  <2> QED
    BY <2>1, <2>2
<1>4. Actual = <<s[1], s[2], p>>
  BY <1>3 DEF Actual
<1> DEFINE a == Archivo(Actual)
           c == Contenido[s]
           k0 == <<s[1], s[2], p>>
           perdido(j) == (j - 1) \div TamPag = p /\ ConOlvido!TrasNul(c, j)
           f == [j \in 1 .. t |-> IF perdido(j) THEN 0 ELSE c[j]]
<1>5. /\ enCurso'.op = enCurso.op /\ enCurso'.bytes = enCurso.bytes
      /\ enCurso'.pid = enCurso.pid /\ enCurso'.sid = enCurso.sid
      /\ enCurso'.pag = enCurso.pag /\ enCurso'.desp = enCurso.desp
      /\ enCurso' # Nada /\ Pedido' = Pedido
  BY <1>1, MismoPedido
<1>6. \A k \in Claves : k # k0 => \A d \in 0 .. TamPag - 1 : Byte(k, d)' = Byte(k, d)
  BY <1>1, <1>4 DEF Byte, Archivo
<1>7. \A d \in 0 .. TamPag - 1 :
        /\ Byte(k0, d) = a[d]
        /\ Byte(k0, d)' = IF \A e \in 0 .. d - 1 : a[e] # 0 THEN a[d] ELSE 0
  <2>1. pagina[Actual].data = PaginaVacia.data
    BY <1>1 DEF RInv, DInv, Disco
  <2>2. \A d \in 0 .. TamPag - 1 : pagina[Actual].data[d] = 0
    BY <2>1 DEF PaginaVacia
  <2>3. \A d \in 0 .. TamPag - 1 :
          pagina'[Actual].data[d] = IF \A e \in 0 .. d - 1 : a[e] # 0 THEN a[d] ELSE 0
    BY <1>1, <2>2 DEF HastaNul
  <2> QED
    BY <1>1, <1>4, <2>3 DEF Byte, Archivo
<1>8. \A q \in PIDs, d \in SIDs : EnDestruccion(q, d)' <=> EnDestruccion(q, d)
  BY <1>1, <1>5, SinDestruccion
<1>9. \A y \in PIDs \X SIDs : /\ Vivo(y)' <=> Vivo(y)
                              /\ Tamanio(y[1], y[2])' = Tamanio(y[1], y[2])
  <2> SUFFICES ASSUME NEW y \in PIDs \X SIDs
               PROVE  /\ Vivo(y)' <=> Vivo(y)
                      /\ Tamanio(y[1], y[2])' = Tamanio(y[1], y[2])
    OBVIOUS
  <2>1. y[1] \in PIDs /\ y[2] \in SIDs
    OBVIOUS
  <2>2. Vivo(y)' <=> Vivo(y)
    BY <1>2, <1>8, <2>1 DEF Vivo, TieneSegmento
  <2>3. Tamanio(y[1], y[2])' = Tamanio(y[1], y[2])
    BY <1>2 DEF Tamanio
  <2> QED
    BY <2>2, <2>3
<1>10. Vista' /\ Vista
  BY VistaSiguiente, ContenidoVivo DEF RInv, DInv
<1>11. /\ c \in Seq(Bytes) /\ Len(c) = t /\ c # Nada
       /\ \A j \in 1 .. t : c[j] = Byte(ClaveDe(s, j), (j - 1) % TamPag)
  BY <1>3, <1>10 DEF Vista
<1>12. /\ Contenido'[s] \in Seq(Bytes) /\ Len(Contenido'[s]) = t
       /\ \A j \in 1 .. t : /\ ClaveDe(s, j) \in Claves
                            /\ Contenido'[s][j] = Byte(ClaveDe(s, j), (j - 1) % TamPag)'
  BY <1>3, <1>9, <1>10 DEF Vista, ClaveDe
<1> HIDE DEF a, c, k0
\* A byte of the page that came back is lost when it follows a NUL of the page.
<1>13. ASSUME NEW j \in 1 .. t, (j - 1) \div TamPag = p
       PROVE  Contenido'[s][j] = IF ConOlvido!TrasNul(c, j) THEN 0 ELSE c[j]
  <2> DEFINE d == (j - 1) % TamPag
  <2>1. d \in 0 .. TamPag - 1 /\ j - 1 = TamPag * p + d
    BY <1>13, PaginaDePosicion
  <2>2. ClaveDe(s, j) = k0
    BY <1>13 DEF ClaveDe, k0
  <2>3. c[j] = a[d] /\ Contenido'[s][j] = IF \A e \in 0 .. d - 1 : a[e] # 0 THEN a[d] ELSE 0
    BY <1>7, <1>11, <1>12, <2>1, <2>2
  <2> HIDE DEF d
  <2>4. ASSUME NEW i \in 1 .. j - 1, c[i] = 0, (i - 1) \div TamPag = p
        PROVE  \E e \in 0 .. d - 1 : a[e] = 0
    <3> DEFINE e == (i - 1) % TamPag
    <3>1. i \in 1 .. t
      OBVIOUS
    <3>2. e \in 0 .. TamPag - 1 /\ i - 1 = TamPag * p + e
      BY <2>4, <3>1, PaginaDePosicion
    <3>3. ClaveDe(s, i) = k0
      BY <2>4 DEF ClaveDe, k0
    <3>4. a[e] = 0
      BY <1>7, <1>11, <2>4, <3>1, <3>2, <3>3
    <3> HIDE DEF e
    <3>5. TamPag * p \in Nat
      BY Constantes
    <3>6. e \in 0 .. d - 1
      BY <2>1, <3>2, <3>5
    <3> QED
      BY <3>4, <3>6
  <2>5. ASSUME NEW e \in 0 .. d - 1, a[e] = 0
        PROVE  \E i \in 1 .. j - 1 : c[i] = 0 /\ (i - 1) \div TamPag = p
    <3> DEFINE i == TamPag * p + e + 1
    <3>1. e \in 0 .. TamPag - 1
      BY <2>1, Constantes
    <3>2. TamPag * p + e \in Nat /\ (i - 1) \div TamPag = p /\ (i - 1) % TamPag = e
          /\ ClaveDe(s, i) = k0
      BY <3>1, PosicionEnPagina DEF k0
    <3>3. TamPag * p \in Nat
      BY Constantes
    <3>4. i \in 1 .. j - 1 /\ i \in 1 .. t
      BY <2>1, <3>1, <3>3
    <3> HIDE DEF i
    <3>5. c[i] = 0
      BY <1>7, <1>11, <2>5, <3>1, <3>2, <3>4
    <3> QED
      BY <3>2, <3>4, <3>5
  <2>6. ConOlvido!TrasNul(c, j) <=> \E e \in 0 .. d - 1 : a[e] = 0
    BY <1>13, <2>4, <2>5 DEF ConOlvido!TrasNul
  <2> QED
    BY <2>3, <2>6
<1>14. ASSUME NEW j \in 1 .. t, (j - 1) \div TamPag # p
       PROVE  Contenido'[s][j] = c[j]
  <2>1. ClaveDe(s, j) # k0
    BY <1>14 DEF ClaveDe, k0
  <2>2. (j - 1) % TamPag \in 0 .. TamPag - 1
    BY PaginaDePosicion
  <2> QED
    BY <1>6, <1>11, <1>12, <2>1, <2>2
<1>15. Contenido'[s] = f
  <2>1. \A j \in 1 .. t : Contenido'[s][j] = IF perdido(j) THEN 0 ELSE c[j]
    BY <1>13, <1>14
  <2> DEFINE e == Contenido'[s]
  <2>2. e \in Seq(Bytes) /\ Len(e) = t
    BY <1>12
  <2>3. \A j \in 1 .. t : e[j] = IF perdido(j) THEN 0 ELSE c[j]
    BY <2>1
  <2> HIDE DEF e, perdido
  <2>4. e = [j \in 1 .. t |-> e[j]]
    BY <2>2
  <2>5. e = f
    BY <2>3, <2>4
  <2> QED
    BY <2>5 DEF e
<1>16. ASSUME NEW y \in PIDs \X SIDs, y # s
       PROVE  Contenido'[y] = Contenido[y]
  <2>1. \A k \in Claves : k[1] = y[1] /\ k[2] = y[2] => k # k0
    BY <1>16 DEF k0
  <2> QED
    BY <1>6, <1>9, <2>1, MismoContenido DEF RInv, DInv
<1>17. Contenido' = [Contenido EXCEPT ![s] = f]
  BY <1>15, <1>16 DEF Contenido
<1>18. DOMAIN c = 1 .. t
  BY <1>11
<1>19. p \in 0 .. Len(c) \div TamPag
  <2>1. t \div TamPag \in Nat /\ TamPag \in Nat \ {0} /\ t % TamPag \in 0 .. TamPag - 1
        /\ t = TamPag * (t \div TamPag) + (t % TamPag)
    BY ZenonT(40), Constantes, Division
  <2> DEFINE q == t \div TamPag
             r == t % TamPag
  <2> HIDE DEF q, r
  <2>2. TamPag * p <= t
    <3>1. TamPag * p \in Nat
      BY <2>1
    <3> QED
      BY <1>3, <3>1
  <2>3. ASSUME p >= q + 1
        PROVE  FALSE
    <3>1. q \in Nat /\ r \in 0 .. TamPag - 1 /\ t = TamPag * q + r
      BY <2>1 DEF q, r
    <3>2. TamPag * p >= TamPag * q + TamPag
      BY <2>1, <2>3, <3>1
    <3> QED
      BY <2>1, <2>2, <3>1, <3>2
  <2>4. p <= t \div TamPag
    BY <2>1, <2>3 DEF q
  <2> QED
    BY <1>11, <2>1, <2>4
<1>20. Contenido' # Contenido => ConOlvido!Olvidar(s)
  <2>1. f = [i \in DOMAIN c |-> IF (i - 1) \div TamPag = p /\ ConOlvido!TrasNul(c, i)
                                THEN 0 ELSE c[i]]
    BY <1>18
  <2> HIDE DEF f
  <2>2. ASSUME Contenido' # Contenido
        PROVE  ConOlvido!Olvidar(s)
    BY <1>2, <1>5, <1>11, <1>17, <1>19, <2>1, <2>2 DEF ConOlvido!Olvidar, c
  <2> QED
    BY <2>2
\* What a read has copied comes from earlier pages.
<1>21. Leidos'
  <2> DEFINE b == enCurso.bytes
             hasta == TamPag * p + des
  <2>1. CASE enCurso.op = "solicitar"
    <3>1. /\ Len(b) <= hasta /\ (Len(b) # 0 => des = 0)
          /\ \A i \in 1 .. Len(b) : b[i] = c[hasta - Len(b) + i]
      BY <1>1, <1>3, <2>1 DEF RInv, Leidos, c
    <3>2. Len(b) \in Nat /\ TamPag * p \in Nat
      <4>1. b \in Seq(Bytes)
        BY <1>1, SegmentoDelAcceso DEF RInv, DInv
      <4> QED
        BY <4>1, Constantes
    <3> HIDE DEF b
    <3>3. ASSUME NEW i \in 1 .. Len(b)
          PROVE  Contenido'[s][hasta - Len(b) + i] = c[hasta - Len(b) + i]
      <4> DEFINE j == hasta - Len(b) + i
      <4>1. j \in 1 .. t /\ j <= TamPag * p
        BY <1>3, <3>1, <3>2
      <4> HIDE DEF j
      <4>2. (j - 1) \div TamPag # p
        <5>1. j - 1 = TamPag * ((j - 1) \div TamPag) + ((j - 1) % TamPag)
              /\ (j - 1) % TamPag \in 0 .. TamPag - 1
          BY <4>1, PaginaDePosicion
        <5>2. ASSUME (j - 1) \div TamPag = p
              PROVE  FALSE
          <6>1. j - 1 = TamPag * p + ((j - 1) % TamPag)
            BY <5>1, <5>2
          <6> QED
            BY <3>2, <4>1, <5>1, <6>1
        <5> QED
          BY <5>2
      <4>3. Contenido'[s][j] = c[j]
        BY <1>14, <4>1, <4>2
      <4> QED
        BY <4>3 DEF j
    <3>4. \A i \in 1 .. Len(b) : b[i] = Contenido'[s][hasta - Len(b) + i]
      BY <3>1, <3>3
    <3> QED
      BY <1>3, <1>5, <3>1, <3>4 DEF Leidos, b
  <2>2. CASE enCurso.op # "solicitar"
    BY <1>5, <2>2 DEF Leidos
  <2> QED
    BY <2>1, <2>2
<1> QED
  BY <1>2, <1>5, <1>20, <1>21 DEF PasoDelContrato, ConOlvido!Next

-------------------------------------------------------------------------------
\* leoMemoria and escriboMemoria: the bytes of the request that lie in the page.

\* The part of the request that is in this page, where the contract has it.
LEMMA TramoEnElSegmento ==
  ASSUME RInv, CopiarPagina
  PROVE  \E s \in PIDs \X SIDs, p \in Nat, des \in 0 .. TamPag - 1, t \in Nat, n \in Nat,
            z \in Nat, resta \in Nat, op \in {"solicitar", "escribir"}, b \in Seq(Bytes), h \in Hilos :
           /\ enCurso # Nada
           /\ s = <<enCurso.pid, enCurso.sid>> /\ p = enCurso.pag /\ des = enCurso.desp
           /\ n = Tramo /\ resta = enCurso.resta /\ op = enCurso.op /\ b = enCurso.bytes
           /\ h = enCurso.hilo /\ t = Tamanio(s[1], s[2]) /\ Vivo(s)
           /\ n <= resta /\ n <= TamPag - des /\ (n < resta => n = TamPag - des)
           /\ z = TamPag * p /\ z + des + resta <= t
           /\ op = "escribir" => Len(b) = resta
<1>1. /\ enCurso # Nada /\ enCurso \in Operaciones
      /\ enCurso.op \in {"solicitar", "escribir"}
      /\ Tramo \in Nat /\ Tramo <= enCurso.resta /\ Tramo <= TamPag - enCurso.desp
      /\ Tramo < enCurso.resta => Tramo = TamPag - enCurso.desp
      /\ enCurso.op = "escribir" => Len(enCurso.bytes) = enCurso.resta
  BY CopiarPaginas DEF RInv, DInv
<1>2. /\ <<enCurso.pid, enCurso.sid>> \in PIDs \X SIDs
      /\ Vivo(<<enCurso.pid, enCurso.sid>>)
      /\ enCurso.pag \in Nat /\ enCurso.desp \in 0 .. TamPag - 1
      /\ enCurso.resta \in Nat /\ enCurso.bytes \in Seq(Bytes)
      /\ Tamanio(enCurso.pid, enCurso.sid) \in Nat
      /\ TamPag * enCurso.pag + enCurso.desp + enCurso.resta <= Tamanio(enCurso.pid, enCurso.sid)
  BY <1>1, SegmentoDelAcceso DEF RInv, DInv
<1>3. enCurso.hilo \in Hilos /\ TamPag * enCurso.pag \in Nat
  BY <1>1, <1>2, Constantes DEF Operaciones
<1> HIDE DEF Tramo
<1> QED
  BY <1>1, <1>2, <1>3

\* The bytes of the request in this page are in the segment from the position the
\* request has reached.
LEMMA BytesDelTramo ==
  ASSUME Vista, NEW s \in PIDs \X SIDs, Vivo(s), NEW p \in Nat, NEW d \in 0 .. TamPag - 1,
         TamPag * p + d < Tamanio(s[1], s[2])
  PROVE  /\ TamPag * p + d + 1 \in 1 .. Tamanio(s[1], s[2])
         /\ Contenido[s][TamPag * p + d + 1] = Byte(<<s[1], s[2], p>>, d)
<1>1. /\ TamPag * p + d \in Nat
      /\ ((TamPag * p + d + 1) - 1) % TamPag = d
      /\ ClaveDe(s, TamPag * p + d + 1) = <<s[1], s[2], p>>
  BY PosicionEnPagina
<1> DEFINE j == TamPag * p + d + 1
<1>2. Tamanio(s[1], s[2]) \in Nat
  BY DEF Vista
<1>3. j \in 1 .. Tamanio(s[1], s[2])
  BY <1>1, <1>2
<1> HIDE DEF j
<1>4. Contenido[s][j] = Byte(ClaveDe(s, j), (j - 1) % TamPag)
  BY <1>3 DEF Vista
<1> QED
  BY <1>1, <1>3, <1>4 DEF j

\* A read copies the bytes of the segment, and replies with them when it ends.
LEMMA LeerPaginaRefina ==
  ASSUME RInv, IInv', CopiarPagina, enCurso.op = "solicitar"
  PROVE  PasoDelContrato /\ Leidos'
<1>1. PICK s \in PIDs \X SIDs, p \in Nat, des \in 0 .. TamPag - 1, t \in Nat, n \in Nat,
           z \in Nat, resta \in Nat, b \in Seq(Bytes), h \in Hilos :
        /\ enCurso # Nada
        /\ s = <<enCurso.pid, enCurso.sid>> /\ p = enCurso.pag /\ des = enCurso.desp
        /\ n = Tramo /\ resta = enCurso.resta /\ b = enCurso.bytes
        /\ h = enCurso.hilo /\ t = Tamanio(s[1], s[2]) /\ Vivo(s)
        /\ n <= resta /\ n <= TamPag - des /\ (n < resta => n = TamPag - des)
        /\ z = TamPag * p /\ z + des + resta <= t
  BY TramoEnElSegmento
<1>a. n <= resta /\ n <= TamPag - des /\ (n < resta => n = TamPag - des) /\ z + des + resta <= t
  BY <1>1
<1> DEFINE c == Contenido[s]
           hasta == z + des
           tras == b \o Leido
<1>2. /\ enCurso \in Operaciones /\ Actual = <<s[1], s[2], p>>
      /\ ~pagina[Actual].swapped
      /\ \A k \in Claves : /\ pagina'[k].data = pagina[k].data \/ pagina'[k] = pagina[k]
                           /\ pagina'[k].swapped = pagina[k].swapped
                           /\ pagina'[k].data = pagina[k].data
      /\ \A k \in Claves : Archivo(k)' = Archivo(k)
  <2>1. /\ Copiada.swapped = pagina[Actual].swapped
        /\ Copiada.data = pagina[Actual].data
        /\ \A k \in Claves : pagina'[k] = IF k = Actual THEN Copiada ELSE pagina[k]
        /\ enCurso \in Operaciones /\ ~pagina[Actual].swapped
        /\ \A k \in Claves : Archivo(k)' = Archivo(k)
    BY CopiarPaginas DEF RInv, DInv
  <2>2. Actual = <<s[1], s[2], p>>
    BY <1>1 DEF Actual
  <2> QED
    BY <2>1, <2>2
<1>3. UNCHANGED segmentos
  BY DEF CopiarPagina, tablas
<1>4. \/ /\ n < resta /\ UNCHANGED respuesta
         /\ \E paso \in {"swapin", "marco", "copia"} :
              enCurso' = [enCurso EXCEPT !.pag = p + 1, !.desp = 0, !.resta = resta - n,
                                         !.bytes = tras, !.paso = paso]
      \/ /\ n = resta /\ enCurso' = Nada
         /\ respuesta' = [hilo |-> h, op |-> "solicitar", codigo |-> 0, bytes |-> tras]
  <2>1. PrimerPaso(<<enCurso.pid, enCurso.sid, enCurso.pag + 1>>) \in {"swapin", "marco", "copia"}
    BY DEF PrimerPaso
  <2>2. BytesTrasCopia = tras
    BY <1>1 DEF BytesTrasCopia
  <2> HIDE DEF tras
  <2> QED
    BY <1>1, <2>1, <2>2 DEF CopiarPagina, Responder, lectura_exitosa
<1>5. enCurso' = Nada \/ enCurso'.op # "destruir"
  BY <1>2, <1>4 DEF Operaciones
<1>6. Contenido' = Contenido
  <2>1. \A k \in Claves : \A d \in 0 .. TamPag - 1 : Byte(k, d)' = Byte(k, d)
    BY <1>2 DEF Byte, Archivo
  <2> QED
    BY <1>3, <1>5, <2>1, SinDestruccion, ContenidoQuieto DEF RInv, DInv
<1>7. /\ Vista /\ c \in Seq(Bytes) /\ Len(c) = t
  <2>1. Vista
    BY ContenidoVivo DEF RInv, DInv
  <2> QED
    BY <1>1, <2>1 DEF Vista
<1>8. /\ Len(b) \in Nat /\ Len(b) <= hasta /\ (Len(b) # 0 => des = 0)
      /\ \A i \in 1 .. Len(b) : b[i] = c[hasta - Len(b) + i]
  <2>1. /\ Len(b) <= hasta /\ (Len(b) # 0 => des = 0)
        /\ \A i \in 1 .. Len(b) : b[i] = c[hasta - Len(b) + i]
    BY <1>1 DEF RInv, Leidos
  <2> QED
    BY <2>1
<1>9. Leido = [i \in 1 .. n |-> pagina[Actual].data[des + i - 1]]
  BY <1>1 DEF Leido
<1>10. \A i \in 1 .. n : Leido[i] = c[hasta + i] /\ hasta + i \in 1 .. t
  <2> SUFFICES ASSUME NEW i \in 1 .. n PROVE Leido[i] = c[hasta + i] /\ hasta + i \in 1 .. t
    OBVIOUS
  <2> DEFINE d == des + i - 1
  <2>1. d \in 0 .. TamPag - 1 /\ z + d < t /\ z + d + 1 = hasta + i
    <3>1. TamPag \in Nat
      BY Constantes
    <3> QED
      BY <1>a, <3>1
  <2>2. Leido[i] = pagina[Actual].data[d]
    BY <1>9
  <2> HIDE DEF d
  <2>3. Contenido[s][z + d + 1] = Byte(Actual, d) /\ z + d + 1 \in 1 .. t
    BY ZenonT(40), <1>1, <1>2, <1>7, <2>1, BytesDelTramo
  <2>4. Byte(Actual, d) = pagina[Actual].data[d]
    BY <1>2 DEF Byte
  <2> QED
    BY <2>1, <2>2, <2>3, <2>4
<1>11. Leido \in Seq(Bytes) /\ Len(Leido) = n
  <2>1. \A i \in 1 .. n : Leido[i] \in Bytes
    BY SMTT(40), <1>7, <1>10
  <2>2. Leido = [i \in 1 .. n |-> Leido[i]]
    BY <1>9
  <2> QED
    BY SMTT(40), <2>1, <2>2
<1> HIDE DEF c
<1>12. /\ tras \in Seq(Bytes) /\ Len(tras) = Len(b) + n
       /\ \A i \in 1 .. Len(b) + n : tras[i] = c[hasta - Len(b) + i]
  <2>1. tras \in Seq(Bytes) /\ Len(tras) = Len(b) + n
    BY <1>11
  <2>2. ASSUME NEW i \in 1 .. Len(b) + n
        PROVE  tras[i] = c[hasta - Len(b) + i]
    <3> HIDE DEF tras, hasta
    <3>1. CASE i <= Len(b)
      <4>1. tras[i] = b[i] /\ i \in 1 .. Len(b)
        BY <1>8, <1>11, <3>1 DEF tras
      <4> QED
        BY <1>8, <4>1
    <3>2. CASE i > Len(b)
      <4> DEFINE l == i - Len(b)
      <4>1. l \in 1 .. n
        BY <1>8, <3>2
      <4>2. tras[i] = Leido[l]
        BY <1>8, <1>11, <3>2 DEF tras
      <4>3. Leido[l] = c[hasta + l]
        BY <1>10, <4>1
      <4>4. hasta + l = hasta - Len(b) + i
        BY <1>8 DEF hasta
      <4> QED
        BY <4>2, <4>3, <4>4
    <3>3. i <= Len(b) \/ i > Len(b)
      BY <1>8
    <3> QED
      BY <3>1, <3>2, <3>3
  <2> QED
    BY <2>1, <2>2
<1> HIDE DEF tras
<1>13. /\ Pedido = [hilo |-> h, op |-> "solicitar", seg |-> s, desde |-> hasta - Len(b),
                    largo |-> resta + Len(b), bytes |-> <<>>]
       /\ Pedido # Nada
  <2>1. Copiados = Len(b)
    BY <1>1 DEF Copiados
  <2> QED
    BY <1>1, <2>1, PedidoDelAcceso
<1>14. CASE /\ n < resta /\ UNCHANGED respuesta
            /\ \E paso \in {"swapin", "marco", "copia"} :
                 enCurso' = [enCurso EXCEPT !.pag = p + 1, !.desp = 0, !.resta = resta - n,
                                            !.bytes = tras, !.paso = paso]
  <2>1. PICK paso \in {"swapin", "marco", "copia"} :
          enCurso' = [enCurso EXCEPT !.pag = p + 1, !.desp = 0, !.resta = resta - n,
                                     !.bytes = tras, !.paso = paso]
    BY <1>14
  <2>2. /\ enCurso'.op = "solicitar" /\ enCurso'.hilo = h /\ <<enCurso'.pid, enCurso'.sid>> = s
        /\ enCurso'.pag = p + 1 /\ enCurso'.desp = 0 /\ enCurso'.resta = resta - n
        /\ enCurso'.bytes = tras
    BY <1>1, <1>2, <2>1 DEF Operaciones
  <2>3. enCurso' # Nada
    <3>1. Actual \in Claves
      BY CopiarPaginas DEF RInv, DInv
    <3>2. p + 1 \in 0 .. MaxPag /\ resta - n \in Nat /\ 0 \in 0 .. TamPag - 1
      <4>1. p \in 0 .. MaxPag - 1
        BY <1>2, <3>1 DEF Claves
      <4> QED
        BY <1>a, <4>1, Constantes
    <3>3. enCurso' \in Operaciones
      BY <1>2, <1>12, <2>1, <3>2 DEF Operaciones
    <3> QED
      BY <3>3, NadaEsOtro
  <2>4. TamPag * (p + 1) + 0 = TamPag * p + TamPag /\ TamPag \in Nat
    <3>1. TamPag \in Nat
      BY Constantes
    <3> QED
      BY <3>1
  <2> DEFINE w == TamPag * (p + 1) + 0
  <2>5. w = hasta + n
    BY SMTT(40), <1>1, <1>14, <2>4
  <2> HIDE DEF w
  <2>6. Pedido' = Pedido
    <3>1. Copiados' = Len(b) + n
      BY <1>12, <2>2 DEF Copiados
    <3>2. Pedido' = [hilo |-> enCurso'.hilo, op |-> enCurso'.op,
                     seg |-> <<enCurso'.pid, enCurso'.sid>>,
                     desde |-> TamPag * enCurso'.pag + enCurso'.desp - Copiados',
                     largo |-> enCurso'.resta + Copiados',
                     bytes |-> IF enCurso'.op = "escribir" THEN enCurso'.bytes ELSE <<>>]
      BY <2>2, <2>3 DEF Pedido
    <3>3. TamPag * enCurso'.pag + enCurso'.desp - Copiados' = hasta - Len(b)
      <4>1. w - Copiados' = hasta - Len(b)
        BY <1>8, <2>5, <3>1
      <4>2. enCurso'.pag = p + 1 /\ enCurso'.desp = 0 /\ Copiados' \in Nat /\ TamPag \in Nat
        BY <2>2, <3>1, <1>8, Constantes
      <4>3. TamPag * enCurso'.pag + enCurso'.desp = w
        BY <4>2 DEF w
      <4>4. w \in Nat
        BY <4>2 DEF w
      <4> QED
        BY <4>1, <4>2, <4>3, <4>4
    <3>4. enCurso'.resta + Copiados' = resta + Len(b)
      BY <1>a, <1>8, <2>2, <3>1
    <3>5. (IF enCurso'.op = "escribir" THEN enCurso'.bytes ELSE <<>>) = <<>>
      BY <2>2
    <3> QED
      BY <1>13, <2>2, <3>2, <3>3, <3>4, <3>5
  <2>7. Leidos'
    <3>1. Len(tras) <= w
      BY <1>8, <1>12, <2>5
    <3>2. \A i \in 1 .. Len(tras) : tras[i] = c[w - Len(tras) + i]
      <4> SUFFICES ASSUME NEW i \in 1 .. Len(tras)
                   PROVE  tras[i] = c[w - Len(tras) + i]
        OBVIOUS
      <4>1. w - Len(tras) + i = hasta - Len(b) + i
        BY <1>8, <1>12, <2>5
      <4> QED
        BY <1>12, <4>1
    <3> QED
      BY <1>6, <2>2, <3>1, <3>2 DEF Leidos, c, w
  <2> QED
    BY <1>6, <1>14, <2>6, <2>7 DEF PasoDelContrato
<1>15. CASE /\ n = resta /\ enCurso' = Nada
            /\ respuesta' = [hilo |-> h, op |-> "solicitar", codigo |-> 0, bytes |-> tras]
  <2> DEFINE m == hasta - Len(b)
             l == resta + Len(b)
             parte == SubSeq(c, m + 1, m + l)
  <2>1. m \in Nat /\ l \in Nat /\ m + l <= t /\ l = Len(b) + n
    BY <1>a, <1>8, <1>15
  <2> HIDE DEF m, l
  <2>2. parte \in Seq(Bytes) /\ Len(parte) = l /\ \A i \in 1 .. l : parte[i] = c[m + i]
    <3>1. c \in Seq(Bytes) /\ m + l <= Len(c)
      BY <1>7, <2>1 DEF c
    <3> QED
      BY <2>1, <3>1, ParteDeSecuencia
  <2>3. \A i \in 1 .. l : tras[i] = c[m + i]
    BY <1>12, <2>1 DEF m
  <2> HIDE DEF parte
  <2>4. tras = parte
    <3>1. tras \in Seq(Bytes) /\ Len(tras) = l
      BY <1>12, <2>1
    <3> QED
      BY <2>2, <2>3, <3>1
  <2>5. /\ Pedido.op = "solicitar" /\ Pedido.hilo = h /\ Pedido.seg = s
        /\ Pedido.desde = m /\ Pedido.largo = l
    BY <1>13 DEF m, l
  <2>6. Pedido' = Nada
    BY <1>15, SinPedidoDespues
  <2>7. ConOlvido!Leer
    BY <1>6, <1>13, <1>15, <2>4, <2>5, <2>6 DEF ConOlvido!Leer, ConOlvido!Exito, parte, c
  <2>8. Leidos'
    BY <1>15 DEF Leidos
  <2> QED
    BY <2>7, <2>8 DEF PasoDelContrato, ConOlvido!Next
<1> QED
  BY <1>4, <1>14, <1>15

\* A write stores in the segment the bytes that lie in the page, and is answered
\* when all are stored.
LEMMA EscribirPaginaRefina ==
  ASSUME RInv, IInv', CopiarPagina, enCurso.op = "escribir"
  PROVE  PasoDelContrato /\ Leidos'
<1>1. PICK s \in PIDs \X SIDs, p \in Nat, des \in 0 .. TamPag - 1, t \in Nat, n \in Nat,
           z \in Nat, resta \in Nat, b \in Seq(Bytes), h \in Hilos :
        /\ enCurso # Nada
        /\ s = <<enCurso.pid, enCurso.sid>> /\ p = enCurso.pag /\ des = enCurso.desp
        /\ n = Tramo /\ resta = enCurso.resta /\ b = enCurso.bytes
        /\ h = enCurso.hilo /\ t = Tamanio(s[1], s[2]) /\ Vivo(s)
        /\ n <= resta /\ n <= TamPag - des /\ (n < resta => n = TamPag - des)
        /\ z = TamPag * p /\ z + des + resta <= t
        /\ Len(b) = resta
  BY TramoEnElSegmento
<1>2. /\ n <= resta /\ n <= TamPag - des /\ (n < resta => n = TamPag - des)
      /\ z = TamPag * p /\ z + des + resta <= t /\ TamPag \in Nat \ {0}
  BY <1>1, Constantes
<1> DEFINE c == Contenido[s]
           k0 == <<s[1], s[2], p>>
           hasta == z + des
           f == [j \in DOMAIN c |-> IF j \in hasta + 1 .. hasta + n THEN b[j - hasta] ELSE c[j]]
<1>3. /\ enCurso \in Operaciones /\ Actual = k0 /\ k0 \in Claves
      /\ ~pagina[k0].swapped /\ pagina'[k0].swapped = pagina[k0].swapped
      /\ pagina'[k0].data = Escrito
      /\ \A k \in Claves : k # k0 => pagina'[k] = pagina[k]
      /\ \A k \in Claves : Archivo(k)' = Archivo(k)
  <2>1. /\ Copiada.swapped = pagina[Actual].swapped
        /\ Copiada.data = Escrito /\ Actual \in Claves
        /\ \A k \in Claves : pagina'[k] = IF k = Actual THEN Copiada ELSE pagina[k]
        /\ enCurso \in Operaciones /\ ~pagina[Actual].swapped
        /\ \A k \in Claves : Archivo(k)' = Archivo(k)
    BY CopiarPaginas DEF RInv, DInv
  <2>2. Actual = k0
    BY <1>1 DEF Actual
  <2> QED
    BY <2>1, <2>2
<1>4. UNCHANGED segmentos
  BY DEF CopiarPagina, tablas
<1>5. \/ /\ n < resta /\ UNCHANGED respuesta
         /\ \E paso \in {"swapin", "marco", "copia"} :
              enCurso' = [enCurso EXCEPT !.pag = p + 1, !.desp = 0, !.resta = resta - n,
                                         !.bytes = SubSeq(b, n + 1, Len(b)), !.paso = paso]
      \/ /\ n = resta /\ enCurso' = Nada
         /\ respuesta' = [hilo |-> h, op |-> "escribir", codigo |-> 1, bytes |-> <<>>]
  <2>1. PrimerPaso(<<enCurso.pid, enCurso.sid, enCurso.pag + 1>>) \in {"swapin", "marco", "copia"}
    BY DEF PrimerPaso
  <2>2. BytesTrasCopia = SubSeq(b, n + 1, Len(b))
    BY <1>1 DEF BytesTrasCopia
  <2> QED
    BY <1>1, <2>1, <2>2 DEF CopiarPagina, Responder, operacion_exitosa
<1>6. \A q \in PIDs, d \in SIDs : EnDestruccion(q, d)' <=> EnDestruccion(q, d)
  <2>1. enCurso' = Nada \/ enCurso'.op # "destruir"
    BY <1>3, <1>5 DEF Operaciones
  <2> QED
    BY <2>1, SinDestruccion
<1>7. \A y \in PIDs \X SIDs : /\ Vivo(y)' <=> Vivo(y)
                              /\ Tamanio(y[1], y[2])' = Tamanio(y[1], y[2])
  <2> SUFFICES ASSUME NEW y \in PIDs \X SIDs
               PROVE  /\ Vivo(y)' <=> Vivo(y)
                      /\ Tamanio(y[1], y[2])' = Tamanio(y[1], y[2])
    OBVIOUS
  <2>1. y[1] \in PIDs /\ y[2] \in SIDs
    OBVIOUS
  <2>2. Vivo(y)' <=> Vivo(y)
    BY <1>4, <1>6, <2>1 DEF Vivo, TieneSegmento
  <2>3. Tamanio(y[1], y[2])' = Tamanio(y[1], y[2])
    BY <1>4 DEF Tamanio
  <2> QED
    BY <2>2, <2>3
<1>8. \A k \in Claves : k # k0 => \A d \in 0 .. TamPag - 1 : Byte(k, d)' = Byte(k, d)
  BY <1>3 DEF Byte, Archivo
<1>9. \A d \in 0 .. TamPag - 1 :
        Byte(k0, d)' = IF d \in des .. des + n - 1 THEN b[d - des + 1] ELSE Byte(k0, d)
  <2>1. \A d \in 0 .. TamPag - 1 :
          Escrito[d] = IF d \in des .. des + n - 1 THEN b[d - des + 1] ELSE pagina[k0].data[d]
    BY <1>1, <1>3 DEF Escrito
  <2> QED
    BY <1>3, <2>1 DEF Byte
<1>10. Vista' /\ Vista
  BY VistaSiguiente, ContenidoVivo DEF RInv, DInv
<1>11. /\ c \in Seq(Bytes) /\ Len(c) = t /\ c # Nada
       /\ \A j \in 1 .. t : c[j] = Byte(ClaveDe(s, j), (j - 1) % TamPag)
  BY <1>1, <1>10 DEF Vista
<1>12. /\ Contenido'[s] \in Seq(Bytes) /\ Len(Contenido'[s]) = t
       /\ \A j \in 1 .. t : /\ ClaveDe(s, j) \in Claves
                            /\ Contenido'[s][j] = Byte(ClaveDe(s, j), (j - 1) % TamPag)'
  BY ZenonT(40), <1>1, <1>7, <1>10 DEF Vista, ClaveDe
<1>13. DOMAIN c = 1 .. t
  BY <1>11
<1> HIDE DEF c, k0, hasta
<1>14. ASSUME NEW j \in 1 .. t
       PROVE  Contenido'[s][j] = IF j \in hasta + 1 .. hasta + n THEN b[j - hasta] ELSE c[j]
  <2> DEFINE d == (j - 1) % TamPag
  <2>1. d \in 0 .. TamPag - 1 /\ j - 1 = TamPag * ((j - 1) \div TamPag) + d
    BY PaginaDePosicion
  <2>2. c[j] = Byte(ClaveDe(s, j), d) /\ Contenido'[s][j] = Byte(ClaveDe(s, j), d)'
    BY <1>11, <1>12
  <2>3. CASE (j - 1) \div TamPag = p
    <3>1. ClaveDe(s, j) = k0 /\ j - 1 = z + d
      BY <1>2, <2>1, <2>3 DEF ClaveDe, k0
    <3> HIDE DEF d
    <3>2. c[j] = Byte(k0, d)
          /\ Contenido'[s][j] = IF d \in des .. des + n - 1 THEN b[d - des + 1] ELSE Byte(k0, d)
      BY <1>9, <2>1, <2>2, <3>1
    <3>3. d \in des .. des + n - 1 <=> j \in hasta + 1 .. hasta + n
      BY <2>1, <3>1 DEF hasta
    <3>4. d - des + 1 = j - hasta
      BY <2>1, <3>1 DEF hasta
    <3> QED
      BY <3>2, <3>3, <3>4
  <2>4. CASE (j - 1) \div TamPag # p
    <3>1. ClaveDe(s, j) # k0
      BY <2>4 DEF ClaveDe, k0
    <3>2. Contenido'[s][j] = c[j]
      BY <1>8, <1>12, <2>1, <2>2, <3>1
    <3>3. j \notin hasta + 1 .. hasta + n
      <4> SUFFICES ASSUME j \in hasta + 1 .. hasta + n PROVE FALSE
        OBVIOUS
      <4> DEFINE e == des + (j - hasta - 1)
      <4>1. e \in 0 .. TamPag - 1 /\ j = z + e + 1
        BY <1>2 DEF hasta
      <4> HIDE DEF e
      <4>2. ((TamPag * p + e + 1) - 1) \div TamPag = p
        BY <4>1, PosicionEnPagina
      <4> QED
        BY <1>2, <2>4, <4>1, <4>2
    <3> QED
      BY <3>2, <3>3
  <2> QED
    BY <2>3, <2>4
<1>15. Contenido'[s] = f
  <2> DEFINE e == Contenido'[s]
  <2>1. e \in Seq(Bytes) /\ Len(e) = t
    BY <1>12
  <2>2. \A j \in 1 .. t : e[j] = IF j \in hasta + 1 .. hasta + n THEN b[j - hasta] ELSE c[j]
    BY <1>14
  <2> HIDE DEF e
  <2>3. e = [j \in 1 .. t |-> e[j]]
    BY <2>1
  <2>4. e = f
    BY <1>13, <2>2, <2>3
  <2> QED
    BY <2>4 DEF e
<1>16. ASSUME NEW y \in PIDs \X SIDs, y # s
       PROVE  Contenido'[y] = Contenido[y]
  <2>1. \A k \in Claves : k[1] = y[1] /\ k[2] = y[2] => k # k0
    BY <1>16 DEF k0
  <2> QED
    BY <1>7, <1>8, <2>1, MismoContenido DEF RInv, DInv
<1>17. Contenido' = [Contenido EXCEPT ![s] = f]
  BY <1>15, <1>16 DEF Contenido
<1>18. /\ Pedido = [hilo |-> h, op |-> "escribir", seg |-> s, desde |-> hasta,
                    largo |-> resta, bytes |-> b]
       /\ Pedido # Nada
  <2>1. Copiados = 0
    BY DEF Copiados
  <2>2. hasta - 0 = hasta /\ resta + 0 = resta /\ TamPag * p + des = hasta
    BY <1>2 DEF hasta
  <2>3. /\ Pedido = [hilo |-> enCurso.hilo, op |-> enCurso.op,
                     seg |-> <<enCurso.pid, enCurso.sid>>,
                     desde |-> TamPag * enCurso.pag + enCurso.desp - Copiados,
                     largo |-> enCurso.resta + Copiados,
                     bytes |-> IF enCurso.op = "escribir" THEN enCurso.bytes ELSE <<>>]
        /\ Pedido # Nada
    BY <1>1, PedidoDelAcceso
  <2>4. TamPag * enCurso.pag + enCurso.desp - Copiados = hasta
    BY <1>1, <2>1, <2>2
  <2> QED
    BY <1>1, <2>1, <2>2, <2>3, <2>4
<1>19. ASSUME \/ n < resta /\ UNCHANGED respuesta
                 /\ Pedido' = [Pedido EXCEPT !.desde = @ + n, !.largo = @ - n,
                                             !.bytes = SubSeq(@, n + 1, Len(@))]
              \/ n = resta /\ Pedido' = Nada
                 /\ respuesta' = [hilo |-> h, op |-> "escribir", codigo |-> 1, bytes |-> <<>>]
       PROVE  PasoDelContrato
  <2>1. /\ Pedido.op = "escribir" /\ Pedido.hilo = h /\ Pedido.seg = s
        /\ Pedido.desde = hasta /\ Pedido.largo = resta /\ Pedido.bytes = b
    BY <1>18
  <2>2. Contenido' = [Contenido EXCEPT ![Pedido.seg] =
          [i \in DOMAIN @ |-> IF i \in Pedido.desde + 1 .. Pedido.desde + n
                              THEN Pedido.bytes[i - Pedido.desde] ELSE @[i]]]
    BY <1>17, <2>1 DEF c
  <2>3. ConOlvido!EscribirTramo(n)
    BY <1>19, <2>1, <2>2 DEF ConOlvido!EscribirTramo, ConOlvido!Exito
  <2>4. n \in 0 .. Pedido.largo
    BY <1>2, <2>1
  <2> QED
    BY <1>18, <2>1, <2>3, <2>4 DEF ConOlvido!Escribir, PasoDelContrato, ConOlvido!Next
<1>20. CASE /\ n < resta /\ UNCHANGED respuesta
            /\ \E paso \in {"swapin", "marco", "copia"} :
                 enCurso' = [enCurso EXCEPT !.pag = p + 1, !.desp = 0, !.resta = resta - n,
                                            !.bytes = SubSeq(b, n + 1, Len(b)), !.paso = paso]
  <2> DEFINE b1 == SubSeq(b, n + 1, Len(b))
  <2>1. PICK paso \in {"swapin", "marco", "copia"} :
          enCurso' = [enCurso EXCEPT !.pag = p + 1, !.desp = 0, !.resta = resta - n,
                                     !.bytes = b1, !.paso = paso]
    BY <1>20
  <2>2. b1 \in Seq(Bytes)
    BY <1>1
  <2> HIDE DEF b1
  <2>3. /\ enCurso'.op = "escribir" /\ enCurso'.hilo = h /\ <<enCurso'.pid, enCurso'.sid>> = s
        /\ enCurso'.pag = p + 1 /\ enCurso'.desp = 0 /\ enCurso'.resta = resta - n
        /\ enCurso'.bytes = b1
    BY <1>1, <1>3, <2>1 DEF Operaciones
  <2>4. enCurso' # Nada
    <3>1. p + 1 \in 0 .. MaxPag /\ resta - n \in Nat /\ 0 \in 0 .. TamPag - 1
      <4>1. p \in 0 .. MaxPag - 1
        BY <1>3 DEF Claves, k0
      <4> QED
        BY <1>2, <4>1, Constantes
    <3>2. enCurso' \in Operaciones
      BY <1>3, <2>1, <2>2, <3>1 DEF Operaciones
    <3> QED
      BY <3>2, NadaEsOtro
  <2> DEFINE w == TamPag * (p + 1) + 0
  <2>5. w = hasta + n
    <3>1. w = TamPag * p + TamPag
      BY <1>2
    <3> HIDE DEF w
    <3> QED
      BY <1>2, <1>20, <3>1 DEF hasta
  <2> HIDE DEF w
  <2>6. Pedido' = [hilo |-> h, op |-> "escribir", seg |-> s, desde |-> hasta + n,
                   largo |-> resta - n, bytes |-> b1]
    <3>1. Copiados' = 0
      BY <2>3 DEF Copiados
    <3>2. Pedido' = [hilo |-> enCurso'.hilo, op |-> enCurso'.op,
                     seg |-> <<enCurso'.pid, enCurso'.sid>>,
                     desde |-> TamPag * enCurso'.pag + enCurso'.desp - Copiados',
                     largo |-> enCurso'.resta + Copiados',
                     bytes |-> IF enCurso'.op = "escribir" THEN enCurso'.bytes ELSE <<>>]
      BY <2>3, <2>4 DEF Pedido
    <3>3. TamPag * enCurso'.pag + enCurso'.desp - Copiados' = hasta + n
      <4>1. w - Copiados' = hasta + n
        BY <2>5, <3>1 DEF hasta
      <4>2. enCurso'.pag = p + 1 /\ enCurso'.desp = 0 /\ Copiados' \in Nat /\ TamPag \in Nat
        BY <2>3, <3>1, Constantes
      <4>3. TamPag * enCurso'.pag + enCurso'.desp = w
        BY <4>2 DEF w
      <4>4. w \in Nat
        BY <4>2 DEF w
      <4> QED
        BY <4>1, <4>2, <4>3, <4>4
    <3>4. enCurso'.resta + Copiados' = resta - n
      BY <1>2, <2>3, <3>1
    <3> QED
      BY <2>3, <3>2, <3>3, <3>4
  <2>7. Pedido' = [Pedido EXCEPT !.desde = @ + n, !.largo = @ - n,
                                 !.bytes = SubSeq(@, n + 1, Len(@))]
    <3>1. Pedido.desde = hasta /\ Pedido.largo = resta /\ Pedido.bytes = b
      BY <1>18
    <3>2. [Pedido EXCEPT !.desde = hasta + n, !.largo = resta - n, !.bytes = b1] =
            [hilo |-> h, op |-> "escribir", seg |-> s, desde |-> hasta + n,
             largo |-> resta - n, bytes |-> b1]
      <4> DEFINE r1 == [hilo |-> h, op |-> "escribir", seg |-> s, desde |-> hasta + n,
                        largo |-> resta, bytes |-> b]
                 r2 == [hilo |-> h, op |-> "escribir", seg |-> s, desde |-> hasta + n,
                        largo |-> resta - n, bytes |-> b]
                 r3 == [hilo |-> h, op |-> "escribir", seg |-> s, desde |-> hasta + n,
                        largo |-> resta - n, bytes |-> b1]
      <4>1. [Pedido EXCEPT !.desde = hasta + n] = r1
        BY <1>18
      <4>2. [r1 EXCEPT !.largo = resta - n] = r2
        OBVIOUS
      <4>3. [r2 EXCEPT !.bytes = b1] = r3
        OBVIOUS
      <4>4. [Pedido EXCEPT !.desde = hasta + n, !.largo = resta - n, !.bytes = b1] =
              [[[Pedido EXCEPT !.desde = hasta + n] EXCEPT !.largo = resta - n] EXCEPT !.bytes = b1]
        OBVIOUS
      <4> HIDE DEF r1, r2
      <4> QED
        BY <4>1, <4>2, <4>3, <4>4
    <3>3. Pedido' = [Pedido EXCEPT !.desde = hasta + n, !.largo = resta - n, !.bytes = b1]
      BY <2>6, <3>2
    <3> QED
      BY <3>1, <3>3 DEF b1
  <2>8. Leidos'
    BY <2>3 DEF Leidos
  <2> QED
    BY <1>19, <1>20, <2>7, <2>8
<1>21. CASE /\ n = resta /\ enCurso' = Nada
            /\ respuesta' = [hilo |-> h, op |-> "escribir", codigo |-> 1, bytes |-> <<>>]
  <2>1. Pedido' = Nada
    BY <1>21, SinPedidoDespues
  <2>2. Leidos'
    BY <1>21 DEF Leidos
  <2> QED
    BY <1>19, <1>21, <2>1, <2>2
<1> QED
  BY <1>5, <1>20, <1>21

-------------------------------------------------------------------------------
\* Every step of the server is one of the contract's.
LEMMA PasoRefina ==
  RutasDistintas /\ RInv /\ [Next]_vars => RInv' /\ PasoDelContrato
<1> SUFFICES ASSUME RutasDistintas, RInv, [Next]_vars PROVE RInv' /\ PasoDelContrato
  OBVIOUS
<1>1. DInv' /\ IInv'
  <2>1. DInv'
    BY NextDInv DEF RInv
  <2> QED
    BY <2>1 DEF DInv
<1>2. PasoDelContrato /\ Leidos'
  <2>1. ASSUME NEW h \in Hilos,
               \/ AdmitirSegmento(h) \/ AgregarSegmento(h)
               \/ SolicitarMemoria(h) \/ EscribirMemoria(h) \/ DestruirSegmento(h)
        PROVE  PasoDelContrato /\ Leidos'
    BY <1>1, <2>1, AdmitirSegmentoRefina, AgregarSegmentoRefina, PedirRefina,
       DestruirSegmentoRefina
  <2>2. ASSUME SwapIn PROVE PasoDelContrato /\ Leidos'
    BY <1>1, <2>2, SwapInRefina
  <2>3. ASSUME SwapInFalla \/ MemoriaLlena \/ \E m \in Marcos : SwapOutFalla(m)
        PROVE  PasoDelContrato /\ Leidos'
    BY <1>1, <2>3, FallarRefina
  <2>4. ASSUME TomarMarcoVacio PROVE PasoDelContrato /\ Leidos'
    BY <1>1, <2>4, TomarMarcoVacioRefina
  <2>5. ASSUME NEW m \in Marcos, Desalojar(m) PROVE PasoDelContrato /\ Leidos'
    BY <1>1, <2>5, DesalojarRefina
  <2>6. ASSUME SinVictima PROVE PasoDelContrato /\ Leidos'
    BY <1>1, <2>6, SinVictimaRefina
  <2>7. ASSUME CopiarPagina PROVE PasoDelContrato /\ Leidos'
    <3>1. enCurso.op \in {"solicitar", "escribir"}
      BY <2>7, CopiarPaginas DEF RInv, DInv
    <3> QED
      BY <1>1, <2>7, <3>1, LeerPaginaRefina, EscribirPaginaRefina
  <2>8. ASSUME DestruirPag PROVE PasoDelContrato /\ Leidos'
    BY <1>1, <2>8, DestruirPagRefina
  <2>9. ASSUME QuitarSegmento PROVE PasoDelContrato /\ Leidos'
    BY <1>1, <2>9, QuitarSegmentoRefina
  <2>10. CASE UNCHANGED vars
    <3>1. UNCHANGED <<segmentos, pagina, archivos, enCurso, respuesta>>
      BY <2>10 DEF vars
    <3> QED
      BY <1>1, <3>1, SinPagina DEF PasoDelContrato
  <2>11. CASE Next
    BY <2>1, <2>2, <2>3, <2>4, <2>5, <2>6, <2>7, <2>8, <2>9, <2>11 DEF Next, Paso
  <2> QED
    BY <2>10, <2>11
<1> QED
  BY <1>1, <1>2 DEF RInv

\* The server starts as the contract does.
LEMMA InitRefina == Init => RInv /\ ConOlvido!Init
<1> SUFFICES ASSUME Init PROVE RInv /\ ConOlvido!Init
  OBVIOUS
<1>1. enCurso = Nada /\ respuesta = Nada /\ segmentos = [p \in PIDs |-> <<>>]
  BY DEF Init
<1>2. RInv
  BY <1>1, InitDInv DEF RInv, Leidos
<1>3. \A p \in PIDs, d \in SIDs : ~TieneSegmento(p, d)
  <2>1. \A p \in PIDs : DOMAIN segmentos[p] = {}
    BY <1>1
  <2> QED
    BY <2>1 DEF TieneSegmento
<1>4. Contenido = [s \in PIDs \X SIDs |-> Nada]
  BY <1>3 DEF Contenido
<1>5. Pedido = Nada
  BY <1>1, SinPedido
<1> QED
  BY <1>1, <1>2, <1>4, <1>5 DEF ConOlvido!Init

\* The paging server is an implementation of MemoriaVirtual, for any number of
\* clients, processes, frames and pages and for both replacement algorithms, as
\* long as the names of the swap files are distinct: through every assignment,
\* eviction, return and destruction each process reads what it wrote, or NULs
\* after the first NUL of a page (solicitarMemoria, escribirMemoria,
\* swapInPagina, swapOutPagina).
THEOREM MemoriaImplementada == RutasDistintas /\ Spec => ImplementaMemoria
<1> SUFFICES ASSUME RutasDistintas PROVE Spec => ImplementaMemoria
  OBVIOUS
<1>1. Init => RInv /\ ConOlvido!Init
  BY InitRefina
<1>2. RInv /\ [Next]_vars => RInv' /\ [ConOlvido!Next]_ConOlvido!vars
  BY PasoRefina DEF PasoDelContrato, ConOlvido!vars
<1> QED
  BY <1>1, <1>2, PTL DEF Spec, ImplementaMemoria, ConOlvido!Spec
=================================================================================
