--------------------------------- MODULE Sockets ---------------------------------
(*****************************************************************************)
(* The library every program of the system talks through: enviar_datos cuts  *)
(* a packet in as many pieces as send takes, and recibir_datos puts together *)
(* what arrives.  One end of a connection sends packets to the other one and *)
(* may die; a byte is known by its packet and its place in it.               *)
(*****************************************************************************)
EXTENDS Integers, SequencesExt, FiniteSetsExt

CONSTANTS
  Tamanio,     \* the sizes of the packets that are sent, in turn
  Cabecera,    \* tamanio_header: here its first byte is codigo_operacion, the last tamanio
  Capacidad,   \* the bytes that the connection holds
  Basuras      \* what an int that has not been written may hold, as a size

ASSUME SocketsAssumption ==
  /\ Tamanio \in Seq(Nat)
  /\ Cabecera \in Nat \ {0}
  /\ Capacidad \in Nat \ {0}
  /\ Basuras \subseteq Int

Paquetes == 1 .. Len(Tamanio)

VARIABLES
  pc,                      \* of the sender: "libre", "envia", "muerto"
  paquete,                 \* the packets it has begun to send
  cantidad_total, offset,  \* the locals of enviar_datos
  enviados,                \* the bytes of its packet that send has taken
  trozos,                  \* by packet, the pieces that send took
  red, cerrada,            \* the bytes in the connection, and how the sender left it
  rpc, codigo, tamanio,    \* of the receiver: "cabecera", "datos", "nulo", "caida"
  recibidos                \* the packets that recibir_datos has given

emisor   == <<pc, paquete, cantidad_total, offset, enviados, trozos>>
receptor == <<rpc, codigo, tamanio, recibidos>>
vars     == <<emisor, red, cerrada, receptor>>

Byte(p, i)  == [de |-> p, lugar |-> i]
SinEscribir == Byte(0, 0)

Init ==
  /\ pc = "libre" /\ paquete = 0 /\ cantidad_total = 0 /\ offset = 0 /\ enviados = 0
  /\ trozos = [p \in Paquetes |-> <<>>]
  /\ red = <<>> /\ cerrada = "no"
  /\ rpc = "cabecera" /\ codigo = SinEscribir /\ tamanio = 0 /\ recibidos = <<>>

Total(p) == Tamanio[p] + Cabecera

\* crear_paquete and serializar_paquete: header and data, in one buffer.
EnviarDatos ==
  /\ pc = "libre" /\ paquete < Len(Tamanio)
  /\ pc' = "envia" /\ paquete' = paquete + 1
  /\ cantidad_total' = Total(paquete + 1) /\ offset' = 0 /\ enviados' = 0
  /\ UNCHANGED <<trozos, red, cerrada, receptor>>

\* Mutant: the rest is what was left before this piece.
AvanceSinDescontar(s) == cantidad_total' = cantidad_total /\ offset' = s

\* Mutant: the next piece begins again.
AvanceDesdeElPrincipio(s) == cantidad_total' = cantidad_total - offset - s /\ offset' = 0

\* After a piece that is shorter than cantidad_total.
Avance(s) == cantidad_total' = cantidad_total - offset /\ offset' = s

\* Whether there is another turn of the loop.
Sigue(s) == s < cantidad_total

\* send takes s bytes: all that it is given, or fewer.  Of nothing it takes nothing.
Send(s) ==
  LET resto == cantidad_total - offset IN
  /\ pc = "envia"
  /\ IF resto <= 0 THEN s = 0 ELSE s > 0 /\ s <= resto /\ s <= Capacidad - Len(red)
  /\ red' = red \o [i \in 1 .. s |-> Byte(paquete, offset + i)]
  /\ enviados' = enviados + s
  /\ trozos' = IF s = 0 THEN trozos ELSE [trozos EXCEPT ![paquete] = Append(@, s)]
  /\ IF Sigue(s)
     THEN Avance(s) /\ UNCHANGED pc
     ELSE pc' = "libre" /\ UNCHANGED <<cantidad_total, offset>>
  /\ UNCHANGED <<paquete, cerrada, receptor>>

\* The receiver has gone: send returns -1, and the caller leaves the connection.
SendFalla ==
  /\ pc = "envia" /\ rpc = "caida"
  /\ pc' = "muerto" /\ cerrada' = "fin"
  /\ UNCHANGED <<paquete, cantidad_total, offset, enviados, trozos, red, receptor>>

\* The sender dies.  What the connection had not carried yet may be lost, and then recv
\* fails; otherwise it finds the end.
Muere ==
  /\ pc # "muerto"
  /\ pc' = "muerto"
  /\ \/ cerrada' = "fin" /\ red' = red
     \/ cerrada' = "rota" /\ \E n \in 0 .. Len(red) : red' = SubSeq(red, 1, n)
  /\ UNCHANGED <<paquete, cantidad_total, offset, enviados, trozos, receptor>>

\* The size that an int of the header holds: the size of the packet it is of, or rubbish.
Medida(b) == IF b.de # 0 /\ b.lugar = Cabecera THEN {Tamanio[b.de]} ELSE Basuras

\* Mutant: without MSG_WAITALL.
LlegaAlgo(n) == Len(red) > 0 \/ cerrada # "no"

\* recv with MSG_WAITALL: n bytes, or fewer when the connection has ended.
Llega(n) == Len(red) >= n \/ cerrada # "no"
Toma(n)  == Min({n, Len(red)})

Entrega(cod, n, datos) ==
  recibidos' = Append(recibidos, [codigo |-> cod, tamanio |-> n, datos |-> datos])

\* The header.  A short one is taken as a whole one; then the size may be rubbish, and
\* there is no memory for a negative one.
RecibirCabecera ==
  LET r == Toma(Cabecera) IN
  /\ rpc = "cabecera" /\ Llega(Cabecera)
  /\ IF r = 0
     THEN rpc' = "nulo" /\ UNCHANGED <<red, codigo, tamanio, recibidos>>
     ELSE /\ red' = SubSeq(red, r + 1, Len(red))
          /\ codigo' = red[1]
          /\ \E n \in Medida(IF r < Cabecera THEN SinEscribir ELSE red[Cabecera]) :
               /\ tamanio' = n
               /\ rpc' = IF n > 0 THEN "datos" ELSE IF n < 0 THEN "caida" ELSE "cabecera"
               /\ IF n = 0 THEN Entrega(codigo', 0, <<>>) ELSE UNCHANGED recibidos
  /\ UNCHANGED <<emisor, cerrada>>

\* The data.  recv fails only when nothing has arrived: what is cut short is taken as it is.
RecibirDatos ==
  LET r == Toma(tamanio) IN
  /\ rpc = "datos" /\ Llega(tamanio)
  /\ red' = SubSeq(red, r + 1, Len(red))
  /\ IF r = 0 /\ cerrada = "rota"
     THEN rpc' = "nulo" /\ UNCHANGED recibidos
     ELSE rpc' = "cabecera" /\ Entrega(codigo, tamanio, SubSeq(red, 1, r))
  /\ UNCHANGED <<emisor, cerrada, codigo, tamanio>>

Next ==
  \/ EnviarDatos \/ SendFalla \/ Muere \/ RecibirCabecera \/ RecibirDatos
  \/ \E s \in 0 .. Capacidad : Send(s)

Spec == Init /\ [][Next]_vars
-------------------------------------------------------------------------------
(* Properties *)
\* enviar_datos, whose two locals are set in turn to what was left before and to the last
\* piece: however send cuts the packet it asks for nothing outside its buffer, what is
\* left is what it asks for, and when it returns 0 every byte of the packet has been sent.
EnvioJusto ==
  /\ pc = "envia" => /\ offset >= 0 /\ cantidad_total <= Total(paquete)
                     /\ cantidad_total - offset = Total(paquete) - enviados
  /\ pc = "libre" /\ paquete > 0 => enviados = Total(paquete)

\* Of the packet k nothing has been cut short: the end of the sender can do it only to the
\* last one, the header of which may be short, or the data.
SinCorte(k) == cerrada = "no" \/ k < Len(recibidos)

\* What recibir_datos gives is what was sent, packet by packet and byte by byte, while
\* every packet went in at most two pieces: offset forgets the first one in the third.
PaquetesFieles ==
  \A k \in DOMAIN recibidos :
    SinCorte(k) /\ (\A p \in Paquetes : p <= k => Len(trozos[p]) <= 2) =>
      /\ k \in Paquetes
      /\ recibidos[k] = [codigo |-> Byte(k, 1), tamanio |-> Tamanio[k],
                         datos |-> [i \in 1 .. Tamanio[k] |-> Byte(k, Cabecera + i)]]

\* With more pieces the data is wrong and yet the next packets are told apart, provided
\* the first two of each carried its header.
EnFase ==
  \A k \in DOMAIN recibidos :
    SinCorte(k) /\ (\A p \in Paquetes : p <= k =>
                       Len(trozos[p]) <= 2 \/ trozos[p][1] + trozos[p][2] >= Cabecera) =>
      /\ k \in Paquetes
      /\ recibidos[k].codigo = Byte(k, 1) /\ recibidos[k].tamanio = Tamanio[k]
      /\ Len(recibidos[k].datos) = Tamanio[k]
================================================================================
