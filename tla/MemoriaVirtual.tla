---------------------------- MODULE MemoriaVirtual -----------------------------
(*****************************************************************************)
(* What the memory server promises its clients, with no pages, frames or     *)
(* swap: each process has segments, each segment is a string of bytes, a     *)
(* read returns the bytes last written there and a write that is answered    *)
(* with success has stored all of them.  A write that fails may have stored  *)
(* a prefix.  One request at a time.                                         *)
(*                                                                           *)
(* Olvidar is the one weakness this contract admits, when PermiteOlvido:     *)
(* within one page, the bytes after the first NUL turn into NUL.             *)
(*****************************************************************************)
EXTENDS Integers, Sequences

CONSTANTS Hilos, PIDs, SIDs, Bytes, Tamanios, TamPag, PermiteOlvido, Nada

VARIABLES
  contenido,   \* <<pid, sid>> -> the bytes of the segment, Nada if there is none
  pedido,      \* the access in progress, Nada if there is none
  respuesta    \* the last reply

vars == <<contenido, pedido, respuesta>>

Pedidos == [hilo: Hilos, op: {"solicitar", "escribir"}, seg: PIDs \X SIDs,
            desde: Nat, largo: Nat, bytes: Seq(Bytes)]

Errores == [hilo: Hilos, op: {"crear", "solicitar", "escribir"},
            codigo: {-1, -2, -3}, bytes: {<<>>}]

Init ==
  /\ contenido = [s \in PIDs \X SIDs |-> Nada]
  /\ pedido = Nada
  /\ respuesta = Nada

Exito(h, op, codigo, bytes) ==
  respuesta' = [hilo |-> h, op |-> op, codigo |-> codigo, bytes |-> bytes]

\* A segment starts as zeros.
Crear(s) ==
  /\ pedido = Nada /\ UNCHANGED pedido
  /\ \E h \in Hilos : Exito(h, "crear", s[2], <<>>)
  /\ contenido[s] = Nada
  /\ \E n \in Tamanios :
       contenido' = [contenido EXCEPT ![s] = [i \in 1 .. n |-> 0]]

Destruir(s) ==
  /\ pedido = Nada /\ UNCHANGED <<pedido, respuesta>>
  /\ contenido[s] # Nada
  /\ contenido' = [contenido EXCEPT ![s] = Nada]

\* A request refused at once.
Rechazar ==
  /\ respuesta' \in Errores
  /\ UNCHANGED <<contenido, pedido>>

\* A request accepted: it lies inside a live segment.
Pedir ==
  /\ pedido = Nada
  /\ pedido' \in Pedidos
  /\ contenido[pedido'.seg] # Nada
  /\ pedido'.desde + pedido'.largo <= Len(contenido[pedido'.seg])
  /\ UNCHANGED <<contenido, respuesta>>

Fallar ==
  /\ pedido # Nada
  /\ respuesta' \in Errores /\ respuesta'.hilo = pedido.hilo
  /\ pedido' = Nada
  /\ UNCHANGED contenido

Leer ==
  /\ pedido # Nada /\ pedido.op = "solicitar"
  /\ Exito(pedido.hilo, "solicitar", 0,
           SubSeq(contenido[pedido.seg], pedido.desde + 1, pedido.desde + pedido.largo))
  /\ pedido' = Nada
  /\ UNCHANGED contenido

\* The next n bytes of a write reach the segment; the last ones bring the reply.
EscribirTramo(n) ==
  /\ contenido' = [contenido EXCEPT ![pedido.seg] =
       [i \in DOMAIN @ |-> IF i \in pedido.desde + 1 .. pedido.desde + n
                           THEN pedido.bytes[i - pedido.desde] ELSE @[i]]]
  /\ \/ /\ n < pedido.largo
        /\ pedido' = [pedido EXCEPT !.desde = @ + n, !.largo = @ - n,
                        !.bytes = SubSeq(@, n + 1, Len(@))]
        /\ UNCHANGED respuesta
     \/ /\ n = pedido.largo
        /\ pedido' = Nada
        /\ Exito(pedido.hilo, "escribir", 1, <<>>)

Escribir ==
  /\ pedido # Nada /\ pedido.op = "escribir"
  /\ \E n \in 0 .. pedido.largo : EscribirTramo(n)

\* Position i of a segment comes after a NUL of its own page.
TrasNul(c, i) ==
  \E j \in 1 .. i - 1 : c[j] = 0 /\ (j - 1) \div TamPag = (i - 1) \div TamPag

Olvidar(s) ==
  /\ PermiteOlvido /\ UNCHANGED <<pedido, respuesta>>
  /\ contenido[s] # Nada /\ contenido' # contenido
  /\ \E p \in 0 .. Len(contenido[s]) \div TamPag :
       contenido' = [contenido EXCEPT ![s] =
         [i \in DOMAIN @ |-> IF (i - 1) \div TamPag = p /\ TrasNul(@, i)
                             THEN 0 ELSE @[i]]]

Next ==
  \/ Rechazar \/ Pedir \/ Fallar \/ Leer \/ Escribir
  \/ \E s \in PIDs \X SIDs : Crear(s) \/ Destruir(s) \/ Olvidar(s)

Spec == Init /\ [][Next]_vars
=================================================================================
