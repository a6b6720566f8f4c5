------------------------------- MODULE MSPRefina -------------------------------
(*****************************************************************************)
(* The paging server MSP as an implementation of MemoriaVirtual.             *)
(*****************************************************************************)
EXTENDS MSP

EnDestruccion(pid, sid) ==
  /\ enCurso # Nada /\ enCurso.op = "destruir"
  /\ enCurso.pid = pid /\ enCurso.sid = sid

Tamanio(pid, sid) ==
  LET i == CHOOSE j \in DOMAIN segmentos[pid] : segmentos[pid][j].sid = sid
  IN  segmentos[pid][i].tamanio

\* Where byte d of page k is: in the swap file or in the page.
Byte(k, d) ==
  IF ~pagina[k].swapped THEN pagina[k].data[d]
  ELSE IF archivos[obtenerFilePath(k)] = Nada THEN 0
  ELSE archivos[obtenerFilePath(k)][d]

Contenido ==
  [s \in PIDs \X SIDs |->
     IF TieneSegmento(s[1], s[2]) /\ ~EnDestruccion(s[1], s[2])
     THEN [i \in 1 .. Tamanio(s[1], s[2]) |->
             Byte(<<s[1], s[2], (i - 1) \div TamPag>>, (i - 1) % TamPag)]
     ELSE Nada]

\* The bytes of the operation that a read has already copied.
Copiados == IF enCurso.op = "solicitar" THEN Len(enCurso.bytes) ELSE 0

Pedido ==
  IF enCurso = Nada \/ (enCurso # Nada /\ enCurso.op = "destruir") THEN Nada
  ELSE [hilo |-> enCurso.hilo, op |-> enCurso.op, seg |-> <<enCurso.pid, enCurso.sid>>,
        desde |-> TamPag * enCurso.pag + enCurso.desp - Copiados,
        largo |-> enCurso.resta + Copiados,
        bytes |-> IF enCurso.op = "escribir" THEN enCurso.bytes ELSE <<>>]

ConOlvido == INSTANCE MemoriaVirtual
               WITH contenido <- Contenido, pedido <- Pedido, PermiteOlvido <- TRUE
SinOlvido == INSTANCE MemoriaVirtual
               WITH contenido <- Contenido, pedido <- Pedido, PermiteOlvido <- FALSE

\* NULL is neither a request nor the bytes of a segment.
ASSUME NadaNoEsDelContrato ==
  Nada \notin ConOlvido!Pedidos \cup Seq(Bytes)

\* Through every assignment, eviction, return from swap and destruction, each
\* process reads back from its segments what it wrote there, or the NULs that
\* the return from swap leaves after the first NUL of a page: never another
\* page's bytes, and a write answered with success has stored all its bytes.
ImplementaMemoria == ConOlvido!Spec

\* The same without the loss: swapping is invisible to the programs.
SwapInvisible == SinOlvido!Spec
=================================================================================
