----------------------------- MODULE Sockets_proofs -----------------------------
(*****************************************************************************)
(* enviar_datos sends the whole packet, and nothing but its buffer, however  *)
(* send cuts it and for packets of any size: its two locals always differ by *)
(* what is left, although neither of them is what its name says after the    *)
(* first turn of the loop.                                                   *)
(*                                                                           *)
(* recibir_datos gives the packets that were sent, one by one, because the   *)
(* bytes in the connection are those of the packets from the next one on,    *)
(* each in its place but for those that a third piece misplaces.             *)
(*****************************************************************************)
EXTENDS Sockets, SequenceTheorems, TLAPS

\* The types, and that what is left is never negative.
Bucle ==
  /\ paquete \in 0 .. Len(Tamanio)
  /\ pc \in {"libre", "envia", "muerto"}
  /\ pc = "envia" => /\ paquete \in Paquetes
                     /\ cantidad_total \in Int /\ offset \in Int /\ enviados \in Int
                     /\ cantidad_total - offset >= 0

IInv == Bucle /\ EnvioJusto

\* The size of a packet on the wire is a natural number.
LEMMA TotalNat == \A p \in Paquetes : Total(p) \in Nat
  BY SocketsAssumption DEF Paquetes, Total

\* The invariant holds before the first packet.
LEMMA Inicio == Init => IInv
  BY SocketsAssumption DEF Init, IInv, Bucle, EnvioJusto, Paquetes

\* One turn of the loop: either something is left and both locals move on, or the piece
\* was the last one and the packet is complete.
LEMMA Vuelta ==
  ASSUME IInv, NEW s \in 0 .. Capacidad, Send(s)
  PROVE  IInv'
<1> DEFINE t == Total(paquete)
<1>1. /\ paquete \in Paquetes /\ t \in Nat /\ cantidad_total \in Int /\ offset \in Int
      /\ enviados \in Int /\ s \in Int /\ cantidad_total - offset >= 0
      /\ offset >= 0 /\ cantidad_total <= t /\ cantidad_total - offset = t - enviados
  BY TotalNat, SocketsAssumption DEF IInv, Bucle, EnvioJusto, Send
<1>2. /\ s >= 0 /\ s <= cantidad_total - offset
      /\ enviados' = enviados + s /\ paquete' = paquete
  BY <1>1 DEF Send
<1>3. Total(paquete') = t
  BY <1>2 DEF Total
<1>4. CASE Sigue(s)
  <2>1. pc' = "envia" /\ cantidad_total' = cantidad_total - offset /\ offset' = s
    BY <1>4 DEF Send, Avance
  <2>2. cantidad_total' - offset' = t - enviados'
    BY <1>1, <1>2, <2>1
  <2>3. cantidad_total' <= t /\ offset' >= 0 /\ cantidad_total' - offset' >= 0
    BY <1>1, <1>2, <2>1
  <2> QED
    BY <1>1, <1>2, <1>3, <2>1, <2>2, <2>3 DEF IInv, Bucle, EnvioJusto, Paquetes
<1>5. CASE ~ Sigue(s)
  <2>1. pc' = "libre"
    BY <1>5 DEF Send
  <2>2. s >= cantidad_total
    BY <1>1, <1>5 DEF Sigue
  <2>3. enviados' = t
    BY <1>1, <1>2, <2>2
  <2> QED
    BY <1>1, <1>2, <1>3, <2>1, <2>3 DEF IInv, Bucle, EnvioJusto, Paquetes
<1> QED
  BY <1>4, <1>5

\* Every step keeps the invariant: only the sender's own steps can disturb it.
LEMMA Paso == IInv /\ [Next]_vars => IInv'
<1> SUFFICES ASSUME IInv, [Next]_vars
             PROVE  IInv'
  OBVIOUS
<1>1. CASE EnviarDatos
  <2>1. paquete' \in Paquetes
    BY <1>1, SocketsAssumption DEF EnviarDatos, IInv, Bucle, Paquetes
  <2>2. Total(paquete') \in Nat
    BY <2>1, TotalNat
  <2>3. /\ pc' = "envia" /\ cantidad_total' = Total(paquete') /\ offset' = 0
        /\ enviados' = 0
    BY <1>1 DEF EnviarDatos, Total
  <2> QED
    BY <2>1, <2>2, <2>3, SocketsAssumption DEF IInv, Bucle, EnvioJusto, Paquetes
<1>2. CASE \E s \in 0 .. Capacidad : Send(s)
  BY <1>2, Vuelta
<1>3. CASE SendFalla
  BY <1>3 DEF SendFalla, IInv, Bucle, EnvioJusto
<1>4. CASE Muere
  BY <1>4 DEF Muere, IInv, Bucle, EnvioJusto
<1>5. CASE RecibirCabecera
  BY <1>5 DEF RecibirCabecera, emisor, IInv, Bucle, EnvioJusto, Total
<1>6. CASE RecibirDatos
  BY <1>6 DEF RecibirDatos, emisor, IInv, Bucle, EnvioJusto, Total
<1>7. CASE UNCHANGED vars
  BY <1>7 DEF vars, emisor, IInv, Bucle, EnvioJusto, Total
<1> QED
  BY <1>1, <1>2, <1>3, <1>4, <1>5, <1>6, <1>7 DEF Next

\* enviar_datos: for packets and connections of any size, and whatever send takes of each
\* call, it asks for nothing outside its buffer and has sent it all when it returns.
THEOREM EnvioSiempreJusto == Spec => []EnvioJusto
<1>1. IInv => EnvioJusto
  BY DEF IInv
<1> QED
  BY Inicio, Paso, <1>1, PTL DEF Spec

-------------------------------------------------------------------------------
(* What is in the connection *)

Octetos  == [de : Paquetes, lugar : Nat]
Entregas == [codigo : Octetos, tamanio : Int, datos : Seq(Octetos)]
Marcas   == 1 .. Len(Tamanio) + 1

\* The connection ended, and nothing is left to read.
Agotada == cerrada # "no" /\ red = <<>>

\* A packet whose header was in its first two pieces, and the bytes of a packet that were in
\* them.
Cabe(p)      == Len(trozos[p]) <= 2 \/ trozos[p][1] + trozos[p][2] >= Cabecera
Exacto(p, i) == Len(trozos[p]) <= 2 \/ i <= trozos[p][1] + trozos[p][2]
Corto(p)     == Len(trozos[p]) <= 2

TiposRed ==
  /\ red \in Seq(Octetos) /\ recibidos \in Seq(Entregas)
  /\ tamanio \in Int
  /\ trozos \in [Paquetes -> Seq(Nat)]
  /\ \A p \in Paquetes : p > paquete => trozos[p] = <<>>
  /\ rpc \in {"cabecera", "datos", "nulo", "caida"}
  /\ rpc = "datos" => tamanio > 0 /\ codigo \in Octetos
  /\ cerrada = "no" <=> pc # "muerto"

\* offset is the place of the next byte during the first two pieces.
Piezas ==
  pc = "envia" =>
    /\ Len(trozos[paquete]) = 0 => enviados = 0 /\ offset = 0
    /\ Len(trozos[paquete]) = 1 => /\ offset = enviados /\ enviados = trozos[paquete][1]
                                   /\ enviados < Total(paquete)
    /\ Len(trozos[paquete]) >= 2 => trozos[paquete][1] + trozos[paquete][2] <= enviados

\* The packet that the receiver is going to have next, and what it still has to read of it is
\* at ini[Sig] + 1 and further in red; ini[p] is where the packet p begins.
Sig == Len(recibidos) + 1

Marca(ini) ==
  /\ Sig <= paquete + 1
  /\ ini[Sig] = IF rpc = "datos" THEN - Cabecera ELSE 0
  /\ \A p \in Paquetes : Sig <= p /\ p <= paquete => ini[p + 1] = ini[p] + Total(p)
  /\ \A p \in Paquetes, r \in Marcas :
       Sig <= p /\ p < r /\ r <= paquete + 1 => ini[p] + Total(p) <= ini[r]

PorEnviar == IF pc = "envia" THEN cantidad_total - offset ELSE 0

Largo(ini) == cerrada = "no" => Len(red) + PorEnviar = ini[paquete + 1]

\* The j-th byte of red is of the packet p, and it is the one of its place.
Cae(ini, p, j) ==
  /\ Sig <= p /\ p <= paquete
  /\ ini[p] < j /\ j <= ini[p] + Total(p)
  /\ red[j].de = p
  /\ Exacto(p, j - ini[p]) => red[j].lugar = j - ini[p]

Flujo(ini) == \A j \in 1 .. Len(red) : \E p \in Paquetes : Cae(ini, p, j)

\* The receiver is at the border of a packet, or of its header, as it thinks it is.
EnCurso == \A p \in Paquetes : p < Sig \/ (rpc = "datos" /\ p = Sig) => Cabe(p)

Corriente ==
  ~ Agotada /\ rpc \in {"cabecera", "datos"} /\ EnCurso =>
    /\ \E ini \in [Marcas -> Int] : Marca(ini) /\ Largo(ini) /\ Flujo(ini)
    /\ rpc = "datos" => Sig <= paquete /\ codigo = Byte(Sig, 1) /\ tamanio = Tamanio[Sig]

\* The packet k as it was received.
Entero(k) == /\ k \in Paquetes
             /\ recibidos[k].codigo = Byte(k, 1) /\ recibidos[k].tamanio = Tamanio[k]
             /\ Len(recibidos[k].datos) = Tamanio[k]
Fiel(k)   == \A i \in 1 .. Tamanio[k] : recibidos[k].datos[i] = Byte(k, Cabecera + i)
Bueno(k)  == /\ (\A p \in Paquetes : p <= k => Cabe(p)) => Entero(k)
             /\ (\A p \in Paquetes : p <= k => Corto(p)) => Fiel(k)

\* The last packet may have been cut short, once there is nothing left to read.
Buenos ==
  \A k \in 1 .. Len(recibidos) :
    k < Len(recibidos) \/ ~ Agotada \/ rpc = "datos" => Bueno(k)

RInv == IInv /\ TiposRed /\ Piezas /\ Corriente /\ Buenos

\* The numbers involved.
LEMMA Numeros ==
  ASSUME RInv
  PROVE  /\ Cabecera \in Nat /\ Cabecera >= 1 /\ Len(Tamanio) \in Nat /\ paquete \in Nat
         /\ paquete <= Len(Tamanio) /\ Len(red) \in Nat /\ Len(recibidos) \in Nat
         /\ Sig \in Nat /\ Sig >= 1
         /\ \A p \in Paquetes : /\ p \in Nat /\ Tamanio[p] \in Nat /\ p + 1 \in Marcas
                                /\ Total(p) = Tamanio[p] + Cabecera /\ p \in Marcas
                                /\ Total(p) \in Nat /\ Total(p) >= 1
         /\ \A p \in Marcas : p \in Nat /\ p >= 1
BY SocketsAssumption DEF RInv, IInv, Bucle, TiposRed, Sig, Paquetes, Marcas, Total

\* recv with MSG_WAITALL gives what it was asked for, or all there is.
LEMMA TomaEs ==
  ASSUME NEW n \in Nat, Len(red) \in Nat
  PROVE  Toma(n) = IF n <= Len(red) THEN n ELSE Len(red)
<1> DEFINE m == IF n <= Len(red) THEN n ELSE Len(red)
<1>1. m \in {n, Len(red)} /\ \A y \in {n, Len(red)} : m <= y
  OBVIOUS
<1>2. \A x \in {n, Len(red)} : (\A y \in {n, Len(red)} : x <= y) => x = m
  OBVIOUS
<1> QED
  BY <1>1, <1>2, Zenon DEF Toma, Min

\* The bytes before the end of the next packet are its own.
LEMMA DelSiguiente ==
  ASSUME RInv, NEW ini \in [Marcas -> Int], Marca(ini), Flujo(ini), NEW j \in 1 .. Len(red),
         Sig \in Paquetes => j <= ini[Sig] + Total(Sig)
  PROVE  Sig \in Paquetes /\ Sig <= paquete /\ Cae(ini, Sig, j)
<1>1. PICK p \in Paquetes : Cae(ini, p, j)
  BY DEF Flujo
<1>2. Sig <= p /\ p <= paquete /\ ini[p] < j
  BY <1>1 DEF Cae
<1>3. Sig \in Nat /\ Sig >= 1 /\ p \in Nat /\ paquete \in Nat /\ paquete <= Len(Tamanio)
  BY Numeros
<1>4. Sig \in Paquetes /\ p \in Marcas /\ p <= paquete + 1
  BY <1>2, <1>3, Numeros DEF Paquetes
<1>5. ini[Sig] \in Int /\ ini[p] \in Int /\ Total(Sig) \in Int
  BY <1>4, Numeros
<1>6. Sig < p => ini[Sig] + Total(Sig) <= ini[p]
  BY <1>3, <1>4 DEF Marca
<1>7. p = Sig
  BY <1>2, <1>3, <1>4, <1>5, <1>6
<1> QED
  BY <1>1, <1>2, <1>4, <1>7

\* A list without its first r elements.
LEMMA Resto ==
  ASSUME NEW S, NEW s \in Seq(S), NEW r \in 0 .. Len(s)
  PROVE  /\ SubSeq(s, r + 1, Len(s)) \in Seq(S)
         /\ Len(SubSeq(s, r + 1, Len(s))) = Len(s) - r
         /\ \A j \in 1 .. Len(s) - r : SubSeq(s, r + 1, Len(s))[j] = s[j + r]
<1>1. Len(s) \in Nat /\ r \in Nat
  OBVIOUS
<1>2. CASE r = Len(s)
  <2>1. SubSeq(s, r + 1, Len(s)) = <<>>
    BY <1>1, <1>2
  <2> QED
    BY <1>1, <1>2, <2>1
<1>3. CASE r < Len(s)
  <2>1. r + 1 \in 1 .. Len(s) /\ Len(s) \in (r + 1) - 1 .. Len(s)
    BY <1>1, <1>3
  <2> QED
    BY <1>1, <1>3, <2>1
<1> QED
  BY <1>1, <1>2, <1>3

\* After r bytes, that end where the next packet or its header does.
LEMMA Avanza ==
  ASSUME RInv, NEW ini \in [Marcas -> Int], Marca(ini), Largo(ini), Flujo(ini),
         NEW r \in 0 .. Len(red), red' = SubSeq(red, r + 1, Len(red)),
         UNCHANGED <<emisor, cerrada>>,
         \/ Sig' = Sig
         \/ Sig' = Sig + 1 /\ Sig <= paquete /\ ini[Sig] + Total(Sig) = r,
         ini[Sig'] - r = IF rpc' = "datos" THEN - Cabecera ELSE 0
  PROVE  \E g \in [Marcas -> Int] : Marca(g)' /\ Largo(g)' /\ Flujo(g)'
<1>1. PICK g : g = [p \in Marcas |-> ini[p] - r]
  OBVIOUS
<1>2. /\ r \in Nat /\ Len(red) \in Nat /\ Sig \in Nat /\ paquete \in Nat
      /\ paquete <= Len(Tamanio) /\ Sig >= 1
  BY Numeros
<1>3. /\ \A p \in Marcas : ini[p] \in Int /\ g[p] = ini[p] - r /\ g[p] \in Int
      /\ g \in [Marcas -> Int]
  BY <1>1, <1>2
<1>4. \A p \in Paquetes : p \in Marcas /\ p + 1 \in Marcas /\ p \in Nat /\ Total(p) \in Nat
  BY Numeros
<1>5. Sig' <= paquete + 1 /\ Sig' >= Sig /\ Sig' \in Nat /\ Sig <= paquete + 1
  BY <1>2 DEF Marca
<1>6. paquete' = paquete /\ trozos' = trozos /\ pc' = pc /\ cantidad_total' = cantidad_total
      /\ offset' = offset /\ cerrada' = cerrada
  BY DEF emisor
<1>7. Sig' \in Marcas /\ paquete + 1 \in Marcas
  BY <1>2, <1>5, Numeros DEF Marcas
<1>8. Marca(g)'
  <2>1. \A p \in Paquetes : Sig' <= p /\ p <= paquete => g[p + 1] = g[p] + Total(p)
    <3> SUFFICES ASSUME NEW p \in Paquetes, Sig' <= p, p <= paquete
                 PROVE  g[p + 1] = g[p] + Total(p)
      OBVIOUS
    <3>1. ini[p + 1] = ini[p] + Total(p)
      BY <1>2, <1>4, <1>5 DEF Marca
    <3> QED
      BY <1>2, <1>3, <1>4, <3>1
  <2>2. \A p \in Paquetes, q \in Marcas :
          Sig' <= p /\ p < q /\ q <= paquete + 1 => g[p] + Total(p) <= g[q]
    <3> SUFFICES ASSUME NEW p \in Paquetes, NEW q \in Marcas, Sig' <= p, p < q, q <= paquete + 1
                 PROVE  g[p] + Total(p) <= g[q]
      OBVIOUS
    <3>1. ini[p] + Total(p) <= ini[q]
      BY <1>2, <1>4, <1>5 DEF Marca
    <3>2. \A a, t, b, c \in Int : a + t <= b => (a - c) + t <= b - c
      OBVIOUS
    <3>3. ini[p] \in Int /\ ini[q] \in Int /\ g[p] = ini[p] - r /\ g[q] = ini[q] - r
      BY <1>3, <1>4
    <3>4. Total(p) \in Int /\ r \in Int
      BY <1>2, <1>4
    <3> QED
      BY <3>1, <3>2, <3>3, <3>4
  <2>3. g[Sig'] = IF rpc' = "datos" THEN - Cabecera ELSE 0
    BY <1>3, <1>7
  <2>4. \A p \in Paquetes : Total(p)' = Total(p)
    BY DEF Total
  <2> QED
    BY <1>5, <1>6, <2>1, <2>2, <2>3, <2>4 DEF Marca
<1>9. red' \in Seq(Octetos) /\ Len(red') = Len(red) - r /\ \A j \in 1 .. Len(red) - r : red'[j] = red[j + r]
  BY Resto DEF RInv, TiposRed
<1>10. Largo(g)'
  <2>1. PorEnviar' = PorEnviar
    BY <1>6 DEF PorEnviar
  <2>2. PorEnviar \in Int
    BY DEF RInv, IInv, Bucle, PorEnviar
  <2>3. cerrada = "no" => Len(red) + PorEnviar = ini[paquete + 1]
    BY DEF Largo
  <2>4. ini[paquete + 1] \in Int /\ g[paquete + 1] = ini[paquete + 1] - r
    BY <1>3, <1>7
  <2> QED
    BY <1>2, <1>6, <1>9, <2>1, <2>2, <2>3, <2>4 DEF Largo
<1>11. Flujo(g)'
  <2> SUFFICES ASSUME NEW j \in 1 .. Len(red')
               PROVE  \E p \in Paquetes : Cae(g, p, j)'
    BY DEF Flujo
  <2>1. j \in Nat /\ j >= 1 /\ j + r \in 1 .. Len(red) /\ red'[j] = red[j + r] /\ j + r > r
    <3>1. j \in 1 .. Len(red) - r
      BY <1>9
    <3>2. j \in Nat /\ j >= 1 /\ j <= Len(red) - r
      BY <1>2, <3>1
    <3>3. j + r \in Nat /\ j + r >= 1 /\ j + r <= Len(red) /\ j + r > r
      BY <1>2, <3>2
    <3>4. j + r \in 1 .. Len(red)
      BY <1>2, <3>3
    <3>5. red'[j] = red[j + r]
      BY <1>9, <3>1
    <3> QED
      BY <3>2, <3>3, <3>4, <3>5
  <2>2. PICK p \in Paquetes : Cae(ini, p, j + r)
    BY <2>1 DEF Flujo
  <2>3. /\ Sig <= p /\ p <= paquete /\ ini[p] < j + r /\ j + r <= ini[p] + Total(p)
        /\ red'[j].de = p
        /\ Exacto(p, (j + r) - ini[p]) => red'[j].lugar = (j + r) - ini[p]
    BY <2>1, <2>2 DEF Cae
  <2>4. /\ p \in Nat /\ ini[p] \in Int /\ g[p] = ini[p] - r /\ Total(p) \in Nat
    BY <1>3, <1>4
  <2>5. \A a, b, x, t \in Int : /\ (a + b) - x = a - (x - b)
                                /\ x < a + b => x - b < a
                                /\ a + b <= x + t => a <= (x - b) + t
    OBVIOUS
  <2>6. (j + r) - ini[p] = j - g[p] /\ g[p] < j /\ j <= g[p] + Total(p)
    <3>1. j \in Int /\ r \in Int /\ ini[p] \in Int /\ Total(p) \in Int
      BY <1>2, <2>1, <2>4
    <3>2. ini[p] < j + r /\ j + r <= ini[p] + Total(p) /\ g[p] = ini[p] - r
      BY <2>3, <2>4
    <3> QED
      BY <2>5, <3>1, <3>2
  <2>7. Sig' <= p
    <3>1. CASE Sig' = Sig
      BY <2>3, <3>1
    <3>2. CASE Sig' = Sig + 1 /\ Sig <= paquete /\ ini[Sig] + Total(Sig) = r
      <4>1. p = Sig => j + r <= r
        BY <2>3, <3>2
      <4>2. p # Sig
        BY <1>2, <2>1, <4>1
      <4> QED
        BY <1>2, <2>3, <2>4, <3>2, <4>2
    <3> QED
      BY <3>1, <3>2
  <2>8. Exacto(p, j - g[p])' <=> Exacto(p, (j + r) - ini[p])
    BY <1>6, <2>6 DEF Exacto
  <2>9. Total(p)' = Total(p)
    BY DEF Total
  <2> QED
    BY <1>6, <2>3, <2>6, <2>7, <2>8, <2>9 DEF Cae
<1> QED
  BY <1>3, <1>8, <1>10, <1>11

\* What has been received stays as it is.
LEMMA BuenoSigue ==
  ASSUME RInv, UNCHANGED trozos, NEW k \in 1 .. Len(recibidos), Bueno(k),
         recibidos'[k] = recibidos[k]
  PROVE  Bueno(k)'
BY DEF Bueno, Entero, Fiel, Cabe, Corto

\* The sender's part when only the receiver moves.
LEMMA EmisorIgual ==
  ASSUME RInv, UNCHANGED <<emisor, cerrada>>
  PROVE  /\ Piezas' /\ trozos' = trozos /\ paquete' = paquete /\ cerrada' = cerrada
         /\ (cerrada = "no" <=> pc # "muerto")'
BY DEF RInv, TiposRed, Piezas, emisor, Total

\* A whole header is that of the next packet, when its first two pieces carried it.
LEMMA CabeceraBien ==
  ASSUME RInv, rpc = "cabecera", Len(red) >= Cabecera, EnCurso, Sig \in Paquetes => Cabe(Sig)
  PROVE  /\ Sig \in Paquetes /\ Sig <= paquete
         /\ red[Cabecera] = Byte(Sig, Cabecera) /\ red[1] = Byte(Sig, 1)
         /\ \E ini \in [Marcas -> Int] : Marca(ini) /\ Largo(ini) /\ Flujo(ini)
<1>1. /\ Cabecera \in 1 .. Len(red) /\ 1 \in 1 .. Len(red) /\ red \in Seq(Octetos)
      /\ Cabecera \in Nat /\ 1 <= Cabecera
  BY Numeros DEF RInv, TiposRed
<1>2. ~ Agotada
  BY <1>1 DEF Agotada
<1>3. PICK ini \in [Marcas -> Int] : Marca(ini) /\ Largo(ini) /\ Flujo(ini)
  BY <1>2 DEF RInv, Corriente
<1>4. ini[Sig] = 0
  BY <1>3 DEF Marca
<1>5. Sig \in Paquetes => Cabecera <= ini[Sig] + Total(Sig) /\ 1 <= ini[Sig] + Total(Sig)
  BY <1>1, <1>4, Numeros
<1>6. Sig \in Paquetes /\ Sig <= paquete /\ Cae(ini, Sig, Cabecera) /\ Cae(ini, Sig, 1)
  BY <1>1, <1>3, <1>5, DelSiguiente
<1>7. trozos[Sig] \in Seq(Nat)
  BY <1>6 DEF RInv, TiposRed
<1>8. Exacto(Sig, Cabecera) /\ Exacto(Sig, 1)
  <2>1. CASE Len(trozos[Sig]) <= 2
    BY <2>1 DEF Exacto
  <2>2. CASE ~ (Len(trozos[Sig]) <= 2)
    <3>1. trozos[Sig][1] \in Nat /\ trozos[Sig][2] \in Nat
      BY <1>7, <2>2
    <3>2. trozos[Sig][1] + trozos[Sig][2] >= Cabecera
      BY <1>6, <2>2 DEF Cabe
    <3> QED
      BY <1>1, <3>1, <3>2 DEF Exacto
  <2> QED
    BY <2>1, <2>2
<1>9. Cabecera - ini[Sig] = Cabecera /\ 1 - ini[Sig] = 1
  BY <1>1, <1>4
<1>10. /\ red[Cabecera].de = Sig /\ red[Cabecera].lugar = Cabecera
       /\ red[1].de = Sig /\ red[1].lugar = 1
  BY <1>6, <1>8, <1>9 DEF Cae
<1>11. red[Cabecera] \in Octetos /\ red[1] \in Octetos
  BY <1>1
<1>12. \A b \in Octetos : b = [de |-> b.de, lugar |-> b.lugar]
  BY DEF Octetos
<1> QED
  BY <1>3, <1>6, <1>10, <1>11, <1>12 DEF Byte

\* recibir_datos reads a header.
LEMMA PasoCabecera ==
  ASSUME RInv, RecibirCabecera
  PROVE  TiposRed' /\ Piezas' /\ Corriente' /\ Buenos'
<1> DEFINE r == Toma(Cabecera)
<1>0. PICK q : q = Len(recibidos) + 1
  OBVIOUS
<1>1. /\ Cabecera \in Nat /\ Cabecera >= 1 /\ Len(red) \in Nat /\ red \in Seq(Octetos)
      /\ recibidos \in Seq(Entregas) /\ Len(recibidos) \in Nat /\ Sig \in Nat
  BY Numeros DEF RInv, TiposRed
<1>2. r = IF Cabecera <= Len(red) THEN Cabecera ELSE Len(red)
  BY <1>1, TomaEs
<1>3. /\ rpc = "cabecera" /\ (Len(red) >= Cabecera \/ cerrada # "no")
      /\ UNCHANGED <<emisor, cerrada>>
  BY DEF RecibirCabecera, Llega
<1>4. Piezas' /\ trozos' = trozos /\ paquete' = paquete /\ cerrada' = cerrada
      /\ (cerrada = "no" <=> pc # "muerto")'
  BY <1>3, EmisorIgual
<1>5. CASE r = 0
  <2>1. rpc' = "nulo" /\ UNCHANGED <<red, codigo, tamanio, recibidos>>
    BY <1>5 DEF RecibirCabecera
  <2>2. TiposRed'
    BY <1>4, <2>1 DEF RInv, TiposRed
  <2>3. Len(red) = 0 /\ cerrada # "no"
    BY <1>1, <1>2, <1>3, <1>5
  <2>4. Agotada'
    BY <1>1, <1>4, <2>1, <2>3 DEF Agotada
  <2>5. Corriente'
    BY <2>4 DEF Corriente
  <2>6. Buenos'
    BY <1>4, <2>1, <2>4, BuenoSigue DEF RInv, Buenos
  <2> QED
    BY <1>4, <2>2, <2>5, <2>6
<1>6. CASE r # 0
  <2>1. r \in 1 .. Len(red) /\ ~ Agotada /\ r \in 0 .. Len(red) /\ 1 \in 1 .. Len(red)
    BY <1>1, <1>2, <1>6 DEF Agotada
  <2>a. PICK b : b = IF r < Cabecera THEN SinEscribir ELSE red[Cabecera]
    OBVIOUS
  <2>2. PICK n \in Medida(b) :
          /\ red' = SubSeq(red, r + 1, Len(red)) /\ codigo' = red[1] /\ tamanio' = n
          /\ rpc' = IF n > 0 THEN "datos" ELSE IF n < 0 THEN "caida" ELSE "cabecera"
          /\ IF n = 0 THEN Entrega(codigo', 0, <<>>) ELSE UNCHANGED recibidos
    BY <1>6, <2>a DEF RecibirCabecera
  <2> HIDE DEF r
  <2>3. /\ red' \in Seq(Octetos) /\ Len(red') = Len(red) - r
        /\ red[1] \in Octetos
    BY <1>1, <2>1, <2>2, Resto
  <2>4. n \in Int
    <3>1. r >= Cabecera => red[Cabecera] \in Octetos
      BY <1>1, <1>2, <2>1
    <3>2. CASE r < Cabecera
      BY <2>a, <2>2, <3>2, SocketsAssumption DEF Medida, SinEscribir, Byte
    <3>3. CASE ~ (r < Cabecera)
      <4>1. red[Cabecera] \in Octetos /\ n \in Medida(red[Cabecera])
        <5>1. b = red[Cabecera]
          BY <2>a, <3>3
        <5>2. n \in Medida(red[Cabecera])
          BY <2>2, <5>1, Zenon
        <5>3. red[Cabecera] \in Octetos
          BY <1>1, <2>1, <3>1, <3>3
        <5> QED
          BY <5>2, <5>3
      <4>2. Medida(red[Cabecera]) \subseteq Int
        <5>1. red[Cabecera].de \in Paquetes
          BY <4>1 DEF Octetos
        <5>2. Tamanio[red[Cabecera].de] \in Int
          <6>1. \A p \in Paquetes : Tamanio[p] \in Nat
            BY Numeros
          <6>2. \A x \in Nat : x \in Int
            OBVIOUS
          <6> QED
            BY <5>1, <6>1, <6>2, Zenon
        <5> QED
          BY <5>2, SocketsAssumption DEF Medida
      <4> QED
        BY <4>1, <4>2
    <3> QED
      BY <3>2, <3>3
  <2> DEFINE e == [codigo |-> red[1], tamanio |-> 0, datos |-> <<>>]
  <2>5. e \in Entregas
    <3>1. <<>> \in Seq(Octetos)
      OBVIOUS
    <3> QED
      BY <2>3, <3>1 DEF Entregas
  <2>6. n = 0 => recibidos' = Append(recibidos, e)
    BY <2>2 DEF Entrega
  <2> HIDE DEF e
  <2>7. recibidos' \in Seq(Entregas) /\ \A k \in 1 .. Len(recibidos) : recibidos'[k] = recibidos[k]
    <3>1. CASE n = 0
      <4>1. \A f \in Seq(Entregas) :
              /\ Append(f, e) \in Seq(Entregas)
              /\ \A k \in 1 .. Len(f) : Append(f, e)[k] = f[k]
        BY <2>5
      <4> QED
        BY <1>1, <2>6, <3>1, <4>1
    <3>2. CASE n # 0
      <4>1. recibidos' = recibidos
        BY <2>2, <3>2
      <4> QED
        BY <1>1, <4>1
    <3> QED
      BY <3>1, <3>2
  <2>8. n = 0 => Len(recibidos') = Len(recibidos) + 1 /\ recibidos'[Len(recibidos) + 1] = e
    BY <1>1, <2>5, <2>6
  <2>9. n # 0 => Len(recibidos') = Len(recibidos)
    BY <2>2
  <2>10. TiposRed'
    BY <1>4, <2>2, <2>3, <2>4, <2>7 DEF RInv, TiposRed
  <2>11. \A k \in 1 .. Len(recibidos) : Bueno(k)'
    BY <1>4, <2>1, <2>7, BuenoSigue DEF RInv, Buenos
  <2>12. ASSUME n = 0 => Agotada' \/ Bueno(q)'
         PROVE  Buenos'
    <3> SUFFICES ASSUME NEW k \in 1 .. Len(recibidos'),
                        k < Len(recibidos') \/ ~ Agotada' \/ rpc' = "datos"
                 PROVE  Bueno(k)'
      BY DEF Buenos
    <3>1. CASE k \in 1 .. Len(recibidos)
      BY <2>11, <3>1
    <3>2. CASE k \notin 1 .. Len(recibidos)
      <4>1. n = 0 /\ k = q /\ ~ (k < Len(recibidos'))
        BY <1>0, <1>1, <2>8, <2>9, <3>2
      <4>2. rpc' # "datos"
        BY <2>2, <4>1
      <4> QED
        BY <2>12, <4>1, <4>2
    <3> QED
      BY <3>1, <3>2
  <2>13. CASE r < Cabecera
    <3>1. Agotada'
      BY <1>1, <1>2, <1>3, <1>4, <2>1, <2>3, <2>13 DEF Agotada
    <3> QED
      BY <1>4, <2>10, <2>12, <3>1 DEF Corriente
  <2>14. CASE ~ (r < Cabecera)
    <3>1. r = Cabecera /\ Len(red) >= Cabecera /\ n \in Medida(red[Cabecera])
      <4>1. b = red[Cabecera]
        BY <2>a, <2>14
      <4> QED
        BY <1>1, <1>2, <2>1, <2>2, <2>14, <4>1
    <3>2. ASSUME EnCurso, Sig \in Paquetes => Cabe(Sig)
          PROVE  /\ Sig \in Paquetes /\ Sig <= paquete
                 /\ red[1] = Byte(Sig, 1) /\ n = Tamanio[Sig]
                 /\ \E ini \in [Marcas -> Int] : Marca(ini) /\ Largo(ini) /\ Flujo(ini)
      <4>1. /\ Sig \in Paquetes /\ Sig <= paquete
            /\ red[Cabecera] = Byte(Sig, Cabecera) /\ red[1] = Byte(Sig, 1)
            /\ \E ini \in [Marcas -> Int] : Marca(ini) /\ Largo(ini) /\ Flujo(ini)
        BY <1>3, <3>1, <3>2, CabeceraBien
      <4>2. Sig # 0
        BY <4>1, Numeros
      <4>3. n = Tamanio[Sig]
        BY <3>1, <4>1, <4>2 DEF Medida, Byte
      <4> QED
        BY <4>1, <4>3
    <3>3. \A p \in Paquetes : (Cabe(p)' <=> Cabe(p)) /\ (Corto(p)' <=> Corto(p))
      BY <1>4 DEF Cabe, Corto
    <3>4. CASE n > 0
      <4>1. rpc' = "datos" /\ Sig' = Sig /\ n # 0
        BY <2>2, <2>4, <2>9, <3>4 DEF Sig
      <4>2. ASSUME EnCurso'
            PROVE  EnCurso /\ (Sig \in Paquetes => Cabe(Sig))
        BY <1>3, <3>3, <4>1, <4>2 DEF EnCurso
      <4>3. ASSUME EnCurso'
            PROVE  \E g \in [Marcas -> Int] : Marca(g)' /\ Largo(g)' /\ Flujo(g)'
        <5>1. PICK ini \in [Marcas -> Int] : Marca(ini) /\ Largo(ini) /\ Flujo(ini)
          BY <3>2, <4>2, <4>3
        <5>2. ini[Sig] = 0
          BY <1>3, <5>1 DEF Marca
        <5>3. ini[Sig'] - r = - Cabecera
          BY <1>1, <3>1, <4>1, <5>2
        <5> QED
          BY <1>3, <2>1, <2>2, <4>1, <5>1, <5>3, Avanza
      <4>4. Corriente'
        <5> SUFFICES ASSUME EnCurso'
                     PROVE  /\ \E g \in [Marcas -> Int] : Marca(g)' /\ Largo(g)' /\ Flujo(g)'
                            /\ Sig' <= paquete' /\ codigo' = Byte(Sig', 1) /\ tamanio' = Tamanio[Sig']
          BY DEF Corriente
        <5> QED
          BY <1>4, <2>2, <3>2, <4>1, <4>2, <4>3
      <4> QED
        BY <1>4, <2>10, <2>12, <4>1, <4>4
    <3>5. CASE n < 0
      BY <1>4, <2>2, <2>4, <2>10, <2>12, <3>5 DEF Corriente
    <3>6. CASE n = 0
      <4>1. rpc' = "cabecera" /\ Sig' = Sig + 1
        BY <1>1, <2>2, <2>8, <3>6 DEF Sig
      <4>2. ASSUME EnCurso'
            PROVE  EnCurso /\ (Sig \in Paquetes => Cabe(Sig))
        <5>1. \A p \in Paquetes : p < Sig + 1 => Cabe(p)
          BY <3>3, <4>1, <4>2 DEF EnCurso
        <5>2. \A p \in Paquetes : p \in Nat
          BY Numeros
        <5> QED
          BY <1>1, <1>3, <5>1, <5>2 DEF EnCurso
      <4>3. ASSUME EnCurso'
            PROVE  \E g \in [Marcas -> Int] : Marca(g)' /\ Largo(g)' /\ Flujo(g)'
        <5>1. /\ Sig \in Paquetes /\ Sig <= paquete /\ Tamanio[Sig] = 0
          BY <3>2, <3>6, <4>2, <4>3
        <5>2. PICK ini \in [Marcas -> Int] : Marca(ini) /\ Largo(ini) /\ Flujo(ini)
          BY <3>2, <4>2, <4>3
        <5>3. ini[Sig] = 0 /\ Total(Sig) = Cabecera
          BY <1>1, <1>3, <5>1, <5>2, Numeros DEF Marca
        <5>4. ini[Sig + 1] = ini[Sig] + Total(Sig)
          BY <1>1, <5>1, <5>2 DEF Marca
        <5>5. ini[Sig'] - r = 0 /\ ini[Sig] + Total(Sig) = r
          BY <1>1, <3>1, <4>1, <5>3, <5>4
        <5> QED
          BY <1>3, <2>1, <2>2, <4>1, <5>1, <5>2, <5>5, Avanza
      <4>4. Corriente'
        BY <4>1, <4>3 DEF Corriente
      <4>5. Bueno(q)'
        <5>1. ASSUME \A p \in Paquetes : p <= Sig => Cabe(p)'
              PROVE  EnCurso /\ (Sig \in Paquetes => Cabe(Sig))
          <6>1. \A p \in Paquetes : p \in Nat
            BY Numeros
          <6> QED
            BY <1>1, <1>3, <3>3, <5>1, <6>1 DEF EnCurso
        <5>2. recibidos'[Sig] = e
          BY <2>8, <3>6 DEF Sig
        <5>3. ASSUME \A p \in Paquetes : p <= Sig => Cabe(p)'
              PROVE  /\ Sig \in Paquetes /\ recibidos'[Sig].codigo = Byte(Sig, 1)
                     /\ recibidos'[Sig].tamanio = Tamanio[Sig]
                     /\ Len(recibidos'[Sig].datos) = Tamanio[Sig]
                     /\ Tamanio[Sig] = 0
          <6>1. Sig \in Paquetes /\ red[1] = Byte(Sig, 1) /\ Tamanio[Sig] = 0
            BY <3>2, <3>6, <5>1, <5>3
          <6>2. e.codigo = red[1] /\ e.tamanio = 0 /\ e.datos = <<>>
            BY DEF e
          <6> QED
            BY <5>2, <6>1, <6>2
        <5>4. \A p \in Paquetes : Corto(p)' => Cabe(p)'
          BY DEF Corto, Cabe
        <5>5. 1 .. 0 = {}
          OBVIOUS
        <5>6. q = Sig
          BY <1>0 DEF Sig
        <5> QED
          BY <5>3, <5>4, <5>5, <5>6 DEF Bueno, Entero, Fiel
      <4> QED
        BY <1>4, <2>10, <2>12, <4>4, <4>5
    <3> QED
      BY <2>4, <3>4, <3>5, <3>6
  <2> QED
    BY <2>13, <2>14
<1> QED
  BY <1>5, <1>6

\* recibir_datos reads the data.
LEMMA PasoDatos ==
  ASSUME RInv, RecibirDatos
  PROVE  TiposRed' /\ Piezas' /\ Corriente' /\ Buenos'
<1> DEFINE r == Toma(tamanio)
           d == SubSeq(red, 1, r)
           e == [codigo |-> codigo, tamanio |-> tamanio, datos |-> d]
<1>0. PICK q : q = Len(recibidos) + 1
  OBVIOUS
<1>1. /\ Cabecera \in Nat /\ Cabecera >= 1 /\ Len(red) \in Nat /\ red \in Seq(Octetos)
      /\ recibidos \in Seq(Entregas) /\ Len(recibidos) \in Nat /\ q = Sig /\ Sig \in Nat
      /\ rpc = "datos" /\ tamanio \in Nat /\ tamanio > 0 /\ codigo \in Octetos
  BY <1>0, Numeros DEF RInv, TiposRed, RecibirDatos, Sig
<1>2. r = IF tamanio <= Len(red) THEN tamanio ELSE Len(red)
  BY <1>1, TomaEs
<1>3. /\ Len(red) >= tamanio \/ cerrada # "no"
      /\ red' = SubSeq(red, r + 1, Len(red))
      /\ UNCHANGED <<emisor, cerrada, codigo, tamanio>>
      /\ IF r = 0 /\ cerrada = "rota"
         THEN rpc' = "nulo" /\ UNCHANGED recibidos
         ELSE rpc' = "cabecera" /\ recibidos' = Append(recibidos, e)
  BY DEF RecibirDatos, Llega, Entrega
<1>4. Piezas' /\ trozos' = trozos /\ paquete' = paquete /\ cerrada' = cerrada
      /\ (cerrada = "no" <=> pc # "muerto")'
  BY <1>3, EmisorIgual
<1>5. r \in 0 .. Len(red) /\ r \in Nat
  BY <1>1, <1>2
<1> HIDE DEF r
<1>6. red' \in Seq(Octetos) /\ Len(red') = Len(red) - r
  BY <1>1, <1>3, <1>5, Resto
<1>7. d \in Seq(Octetos) /\ Len(d) = r /\ \A i \in 1 .. r : d[i] = red[i]
  <2>1. \A i \in 1 .. r : red[i] \in Octetos
    BY <1>1, <1>5
  <2>2. /\ Len(d) = IF 1 <= r THEN r - 1 + 1 ELSE 0
        /\ \A i \in 1 .. r - 1 + 1 : d[i] = red[1 + i - 1]
        /\ d \in Seq(Octetos)
    BY <1>5, <2>1, SubSeqProperties
  <2>3. r - 1 + 1 = r /\ \A i \in 1 .. r : 1 + i - 1 = i
    BY <1>5
  <2>4. Len(d) = r
    BY <1>5, <2>2
  <2> QED
    BY <2>2, <2>3, <2>4
<1>8. e \in Entregas /\ e.codigo = codigo /\ e.tamanio = tamanio /\ e.datos = d
  BY <1>1, <1>7 DEF Entregas
<1> HIDE DEF d, e
<1>9. \A k \in 1 .. Len(recibidos) : Bueno(k)
  BY <1>1 DEF RInv, Buenos
<1>10. CASE r = 0 /\ cerrada = "rota"
  <2>1. rpc' = "nulo" /\ recibidos' = recibidos
    BY <1>3, <1>10
  <2>2. TiposRed'
    BY <1>1, <1>3, <1>4, <1>6, <2>1 DEF RInv, TiposRed
  <2>3. Corriente'
    BY <2>1 DEF Corriente
  <2>4. Buenos'
    BY <1>4, <1>9, <2>1, BuenoSigue DEF Buenos
  <2> QED
    BY <1>4, <2>2, <2>3, <2>4
<1>11. CASE ~ (r = 0 /\ cerrada = "rota")
  <2>1. rpc' = "cabecera" /\ recibidos' = Append(recibidos, e)
    BY <1>3, <1>11
  <2>2. /\ recibidos' \in Seq(Entregas) /\ Len(recibidos') = Len(recibidos) + 1
        /\ recibidos'[q] = e
        /\ \A k \in 1 .. Len(recibidos) : recibidos'[k] = recibidos[k]
    BY <1>0, <1>1, <1>8, <2>1
  <2>3. TiposRed'
    BY <1>1, <1>3, <1>4, <1>6, <2>1, <2>2 DEF RInv, TiposRed
  <2>4. \A k \in 1 .. Len(recibidos) : Bueno(k)'
    BY <1>4, <1>9, <2>2, BuenoSigue
  <2>5. ASSUME Agotada' \/ Bueno(q)'
        PROVE  Buenos'
    <3> SUFFICES ASSUME NEW k \in 1 .. Len(recibidos'),
                        k < Len(recibidos') \/ ~ Agotada'
                 PROVE  Bueno(k)'
      BY <2>1 DEF Buenos
    <3>1. CASE k \in 1 .. Len(recibidos)
      BY <2>4, <3>1
    <3>2. CASE k \notin 1 .. Len(recibidos)
      <4>1. k = q /\ ~ (k < Len(recibidos'))
        BY <1>0, <1>1, <2>2, <3>2
      <4> QED
        BY <2>5, <4>1
    <3> QED
      BY <3>1, <3>2
  <2>6. CASE r < tamanio
    <3>1. Len(red') = 0 /\ cerrada' # "no"
      <4>1. ~ (tamanio <= Len(red)) /\ r = Len(red)
        BY <1>1, <1>2, <2>6
      <4>2. Len(red') = 0
        BY <1>1, <1>6, <4>1
      <4> QED
        BY <1>1, <1>3, <1>4, <4>1, <4>2
    <3>2. Agotada'
      BY <1>6, <3>1 DEF Agotada
    <3> QED
      BY <1>4, <2>3, <2>5, <3>2 DEF Corriente
  <2>7. CASE ~ (r < tamanio)
    <3>1. r = tamanio /\ ~ Agotada
      <4>1. r = tamanio /\ Len(red) > 0
        BY <1>1, <1>2, <1>5, <2>7
      <4> QED
        BY <4>1 DEF Agotada
    <3>2. Sig' = Sig + 1
      BY <1>1, <2>2 DEF Sig
    <3>3. \A p \in Paquetes : (Cabe(p)' <=> Cabe(p)) /\ (Corto(p)' <=> Corto(p)) /\ p \in Nat
      BY <1>4, Numeros DEF Cabe, Corto
    <3>4. ASSUME \A p \in Paquetes : p <= Sig => Cabe(p)
          PROVE  /\ \E ini \in [Marcas -> Int] : Marca(ini) /\ Largo(ini) /\ Flujo(ini)
                 /\ Sig \in Paquetes /\ Sig <= paquete /\ codigo = Byte(Sig, 1)
                 /\ tamanio = Tamanio[Sig]
      <4>1. EnCurso
        BY <1>1, <3>3, <3>4 DEF EnCurso
      <4>2. /\ \E ini \in [Marcas -> Int] : Marca(ini) /\ Largo(ini) /\ Flujo(ini)
            /\ Sig <= paquete /\ codigo = Byte(Sig, 1) /\ tamanio = Tamanio[Sig]
        BY <1>1, <3>1, <4>1 DEF RInv, Corriente
      <4>3. Sig \in Paquetes
        BY <1>1, <4>2, Numeros DEF Paquetes
      <4> QED
        BY <4>2, <4>3
    <3>5. Corriente'
      <4> SUFFICES ASSUME EnCurso'
                   PROVE  \E g \in [Marcas -> Int] : Marca(g)' /\ Largo(g)' /\ Flujo(g)'
        BY <2>1 DEF Corriente
      <4>1. \A p \in Paquetes : p <= Sig => Cabe(p)
        BY <1>1, <3>2, <3>3 DEF EnCurso
      <4>2. PICK ini \in [Marcas -> Int] : Marca(ini) /\ Largo(ini) /\ Flujo(ini)
        BY <3>4, <4>1
      <4>3. Sig \in Paquetes /\ Sig <= paquete /\ tamanio = Tamanio[Sig]
        BY <3>4, <4>1
      <4>4. ini[Sig] = - Cabecera /\ Total(Sig) = tamanio + Cabecera
        BY <1>1, <4>2, <4>3, Numeros DEF Marca
      <4>5. ini[Sig + 1] = ini[Sig] + Total(Sig)
        BY <1>1, <4>2, <4>3 DEF Marca
      <4>6. ini[Sig'] - r = 0 /\ ini[Sig] + Total(Sig) = r
        BY <1>1, <3>1, <3>2, <4>4, <4>5
      <4> QED
        BY <1>3, <1>5, <2>1, <3>2, <4>2, <4>3, <4>6, Avanza
    <3>6. Bueno(q)'
      <4>1. ASSUME \A p \in Paquetes : p <= q => Cabe(p)'
            PROVE  Entero(q)'
        <5>1. Sig \in Paquetes /\ codigo = Byte(Sig, 1) /\ tamanio = Tamanio[Sig]
          BY <1>1, <3>3, <3>4, <4>1
        <5> QED
          BY <1>1, <1>7, <1>8, <2>2, <3>1, <5>1 DEF Entero
      <4>2. ASSUME \A p \in Paquetes : p <= q => Corto(p)'
            PROVE  Fiel(q)'
        <5>1. \A p \in Paquetes : p <= Sig => Cabe(p)
          BY <1>1, <3>3, <4>2 DEF Cabe, Corto
        <5>2. PICK ini \in [Marcas -> Int] : Marca(ini) /\ Largo(ini) /\ Flujo(ini)
          BY <3>4, <5>1
        <5>3. Sig \in Paquetes /\ Sig <= paquete /\ tamanio = Tamanio[Sig]
          BY <3>4, <5>1
        <5>4. ini[Sig] = - Cabecera /\ Total(Sig) = tamanio + Cabecera
          <6>1. ini[Sig] = - Cabecera
            BY <1>1, <5>2 DEF Marca
          <6> QED
            BY <5>3, <6>1, Numeros
        <5>5. ASSUME NEW i \in 1 .. Tamanio[q]
              PROVE  recibidos'[q].datos[i] = Byte(q, Cabecera + i)
          <6>1. i \in Nat /\ i >= 1 /\ i <= tamanio /\ r <= Len(red)
            BY <1>0, <1>1, <1>5, <5>3
          <6>2. ini[Sig] + Total(Sig) = tamanio
            <7>1. \A a, b \in Nat : (- a) + (b + a) = b
              OBVIOUS
            <7> QED
              BY <1>1, <5>4, <7>1
          <6>3. i \in 1 .. Len(red) /\ i <= ini[Sig] + Total(Sig) /\ i \in 1 .. r /\ i \in Nat
            BY <1>1, <1>5, <3>1, <6>2, <6>1
          <6>4. Cae(ini, Sig, i)
            BY <5>2, <6>3, DelSiguiente
          <6>5. i - ini[Sig] = Cabecera + i /\ Exacto(Sig, i - ini[Sig])
            BY <1>1, <3>3, <4>2, <5>3, <5>4, <6>3 DEF Exacto, Corto
          <6>6. red[i].de = Sig /\ red[i].lugar = Cabecera + i
            BY <6>4, <6>5 DEF Cae
          <6>7. red[i] \in Octetos
            BY <1>1, <6>3
          <6>8. red[i] = [de |-> red[i].de, lugar |-> red[i].lugar]
            BY <6>7 DEF Octetos
          <6> QED
            BY <1>1, <1>7, <1>8, <2>2, <6>3, <6>6, <6>8 DEF Byte
        <5> QED
          BY <5>5 DEF Fiel
      <4> QED
        BY <4>1, <4>2 DEF Bueno
    <3> QED
      BY <1>4, <2>3, <2>5, <3>5, <3>6
  <2> QED
    BY <2>6, <2>7
<1> QED
  BY <1>10, <1>11

\* A piece more never makes a packet shorter, and the first two pieces stay the same.
LEMMA TrozosCrecen ==
  ASSUME RInv, NEW s \in Nat, paquete \in Paquetes,
         trozos' = IF s = 0 THEN trozos ELSE [trozos EXCEPT ![paquete] = Append(@, s)],
         NEW p \in Paquetes
  PROVE  /\ Cabe(p)' => Cabe(p)
         /\ Corto(p)' => Corto(p)
         /\ \A i : Exacto(p, i)' => Exacto(p, i)
         /\ trozos' \in [Paquetes -> Seq(Nat)]
<1>1. trozos \in [Paquetes -> Seq(Nat)]
  BY DEF RInv, TiposRed
<1>2. trozos[p] \in Seq(Nat) /\ trozos[paquete] \in Seq(Nat)
  BY <1>1
<1>3. CASE s = 0 \/ p # paquete
  <2>1. trozos'[p] = trozos[p]
    BY <1>1, <1>3
  <2>2. trozos' \in [Paquetes -> Seq(Nat)]
    BY <1>1, <1>2
  <2> QED
    BY <2>1, <2>2 DEF Cabe, Corto, Exacto
<1>4. CASE s # 0 /\ p = paquete
  <2>1. trozos'[p] = Append(trozos[p], s) /\ trozos' \in [Paquetes -> Seq(Nat)]
    BY <1>1, <1>2, <1>4
  <2>2. /\ Len(trozos'[p]) = Len(trozos[p]) + 1 /\ Len(trozos[p]) \in Nat
        /\ Len(trozos[p]) >= 2 => /\ trozos'[p][1] = trozos[p][1]
                                  /\ trozos'[p][2] = trozos[p][2]
    BY <1>2, <2>1
  <2> QED
    BY <2>1, <2>2 DEF Cabe, Corto, Exacto
<1> QED
  BY <1>3, <1>4

\* One turn of the loop of enviar_datos.
LEMMA PasoSend ==
  ASSUME RInv, NEW s \in 0 .. Capacidad, Send(s)
  PROVE  TiposRed' /\ Piezas' /\ Corriente' /\ Buenos'
<1> DEFINE t == Total(paquete)
           trozo == [i \in 1 .. s |-> Byte(paquete, offset + i)]
           z == trozos[paquete]
<1>1. /\ paquete \in Paquetes /\ t \in Nat /\ t >= 1 /\ cantidad_total \in Int /\ offset \in Int
      /\ enviados \in Int /\ s \in Nat /\ cantidad_total - offset >= 0
      /\ offset >= 0 /\ cantidad_total <= t /\ cantidad_total - offset = t - enviados
      /\ pc = "envia"
  BY Numeros, SocketsAssumption DEF RInv, IInv, Bucle, EnvioJusto, Send
<1>2. /\ Cabecera \in Nat /\ Cabecera >= 1 /\ Len(red) \in Nat /\ red \in Seq(Octetos)
      /\ Sig \in Nat /\ Sig >= 1 /\ paquete \in Nat /\ paquete <= Len(Tamanio)
      /\ trozos \in [Paquetes -> Seq(Nat)] /\ z \in Seq(Nat) /\ cerrada = "no" /\ enviados >= 0
  <2>1. /\ Cabecera \in Nat /\ Cabecera >= 1 /\ Len(red) \in Nat /\ Sig \in Nat /\ Sig >= 1
        /\ paquete \in Nat /\ paquete <= Len(Tamanio)
    BY Numeros
  <2>2. red \in Seq(Octetos) /\ trozos \in [Paquetes -> Seq(Nat)] /\ cerrada = "no"
    BY <1>1 DEF RInv, TiposRed
  <2>3. z \in Seq(Nat)
    BY <1>1, <2>2
  <2>4. enviados >= 0
    BY <1>1
  <2> QED
    BY <2>1, <2>2, <2>3, <2>4
<1>3. /\ IF cantidad_total - offset <= 0 THEN s = 0 ELSE s > 0 /\ s <= cantidad_total - offset
      /\ red' = red \o trozo
      /\ enviados' = enviados + s
      /\ trozos' = IF s = 0 THEN trozos ELSE [trozos EXCEPT ![paquete] = Append(@, s)]
      /\ IF Sigue(s) THEN Avance(s) /\ pc' = pc
         ELSE pc' = "libre" /\ cantidad_total' = cantidad_total /\ offset' = offset
      /\ UNCHANGED <<paquete, cerrada, receptor>>
  BY DEF Send
<1>4. UNCHANGED <<rpc, codigo, tamanio, recibidos>> /\ Sig' = Sig /\ paquete' = paquete
      /\ cerrada' = cerrada
  BY <1>3 DEF receptor, Sig
<1>5. s <= cantidad_total - offset
  BY <1>1, <1>3
<1>6. /\ trozo \in Seq(Octetos) /\ Len(trozo) = s
      /\ \A i \in 1 .. s : trozo[i] = Byte(paquete, offset + i)
  <2>1. \A i \in 1 .. s : Byte(paquete, offset + i) \in Octetos
    BY <1>1 DEF Byte, Octetos
  <2> QED
    BY <1>1, <2>1
<1> HIDE DEF trozo
<1>7. /\ red' \in Seq(Octetos) /\ Len(red') = Len(red) + s
      /\ \A j \in 1 .. Len(red) : red'[j] = red[j]
      /\ \A i \in 1 .. s : red'[Len(red) + i] = trozo[i]
  <2>1. /\ red \o trozo \in Seq(Octetos) /\ Len(red \o trozo) = Len(red) + Len(trozo)
        /\ \A j \in 1 .. Len(red) + Len(trozo) :
             (red \o trozo)[j] = IF j <= Len(red) THEN red[j] ELSE trozo[j - Len(red)]
    BY <1>2, <1>6, ConcatProperties
  <2>2. red' \in Seq(Octetos) /\ Len(red') = Len(red) + s
        /\ \A j \in 1 .. Len(red) + s : red'[j] = IF j <= Len(red) THEN red[j] ELSE trozo[j - Len(red)]
    BY <1>3, <1>6, <2>1
  <2>3. \A j \in 1 .. Len(red) : j \in 1 .. Len(red) + s /\ j <= Len(red)
    BY <1>1, <1>2
  <2>4. \A i \in 1 .. s : /\ Len(red) + i \in 1 .. Len(red) + s /\ ~ (Len(red) + i <= Len(red))
                          /\ (Len(red) + i) - Len(red) = i
    BY <1>1, <1>2
  <2> QED
    BY <2>2, <2>3, <2>4
<1>8. /\ \A p \in Paquetes : /\ Cabe(p)' => Cabe(p)
                             /\ Corto(p)' => Corto(p)
                             /\ \A i : Exacto(p, i)' => Exacto(p, i)
      /\ trozos' \in [Paquetes -> Seq(Nat)]
  BY <1>1, <1>3, TrozosCrecen
<1>9. /\ s = 0 => trozos' = trozos
      /\ s # 0 => trozos'[paquete] = Append(z, s)
      /\ \A p \in Paquetes : p # paquete => trozos'[p] = trozos[p]
  BY <1>1, <1>2, <1>3
<1>10. /\ s # 0 => Len(trozos'[paquete]) = Len(z) + 1
       /\ s # 0 /\ Len(z) = 0 => trozos'[paquete][1] = s
       /\ s # 0 /\ Len(z) = 1 => trozos'[paquete][1] = z[1] /\ trozos'[paquete][2] = s
       /\ s # 0 /\ Len(z) >= 2 => trozos'[paquete][1] = z[1] /\ trozos'[paquete][2] = z[2]
       /\ Len(z) \in Nat
  <2>1. PICK a : a = Append(z, s)
    OBVIOUS
  <2>2. /\ Len(a) = Len(z) + 1 /\ Len(z) \in Nat /\ a[Len(z) + 1] = s
        /\ \A i \in 1 .. Len(z) : a[i] = z[i]
    BY <1>1, <1>2, <2>1
  <2>3. s # 0 => trozos'[paquete] = a
    BY <1>9, <2>1
  <2> HIDE DEF z
  <2>4. /\ Len(z) = 0 => a[1] = s
        /\ Len(z) = 1 => a[1] = z[1] /\ a[2] = s
        /\ Len(z) >= 2 => a[1] = z[1] /\ a[2] = z[2]
    BY <2>2
  <2> QED
    BY <2>2, <2>3, <2>4
<1>11. /\ Len(z) = 0 => enviados = 0 /\ offset = 0
       /\ Len(z) = 1 => offset = enviados /\ enviados = z[1] /\ enviados < t
       /\ Len(z) >= 2 => z[1] + z[2] <= enviados
       /\ Len(z) >= 1 => z[1] \in Nat
       /\ Len(z) >= 2 => z[2] \in Nat
  <2>1. /\ Len(z) = 0 => enviados = 0 /\ offset = 0
        /\ Len(z) = 1 => offset = enviados /\ enviados = z[1] /\ enviados < t
        /\ Len(z) >= 2 => z[1] + z[2] <= enviados
    BY <1>1 DEF RInv, Piezas
  <2>2. /\ Len(z) >= 1 => z[1] \in Nat
        /\ Len(z) >= 2 => z[2] \in Nat
    <3>1. \A f \in Seq(Nat) : /\ Len(f) >= 1 => f[1] \in Nat
                              /\ Len(f) >= 2 => f[2] \in Nat
      OBVIOUS
    <3>2. z \in Seq(Nat)
      BY <1>2
    <3> QED
      BY <3>1, <3>2, Zenon
  <2> QED
    BY <2>1, <2>2
<1> HIDE DEF z
<1>12. Piezas'
  <2> SUFFICES ASSUME pc' = "envia"
               PROVE  /\ Len(trozos'[paquete]) = 0 => enviados' = 0 /\ offset' = 0
                      /\ Len(trozos'[paquete]) = 1 =>
                           /\ offset' = enviados' /\ enviados' = trozos'[paquete][1]
                           /\ enviados' < t
                      /\ Len(trozos'[paquete]) >= 2 =>
                           trozos'[paquete][1] + trozos'[paquete][2] <= enviados'
    BY <1>4 DEF Piezas, Total
  <2>1. /\ s < cantidad_total /\ cantidad_total' = cantidad_total - offset /\ offset' = s
        /\ enviados' = enviados + s
    BY <1>3 DEF Sigue, Avance
  <2>2. CASE Len(z) = 0
    <3>1. s # 0 /\ enviados' = s /\ s < t
      BY <1>1, <1>3, <1>11, <2>1, <2>2
    <3> QED
      BY <1>10, <2>1, <2>2, <3>1
  <2>3. CASE Len(z) = 1
    <3>1. s # 0
      BY <1>1, <1>3, <1>11, <2>3
    <3> QED
      BY <1>1, <1>10, <1>11, <2>1, <2>3, <3>1
  <2>4. CASE Len(z) >= 2
    <3>1. CASE s = 0
      <4>1. trozos'[paquete] = z /\ enviados' = enviados
        BY <1>1, <1>9, <2>1, <3>1 DEF z
      <4> QED
        BY <1>10, <1>11, <2>4, <4>1
    <3>2. CASE s # 0
      <4>1. z[1] + z[2] <= enviados + s
        BY <1>1, <1>11, <2>4
      <4> QED
        BY <1>10, <2>1, <2>4, <3>2, <4>1
    <3> QED
      BY <3>1, <3>2
  <2>5. Len(z) = 0 \/ Len(z) = 1 \/ Len(z) >= 2
    <3>1. \A x \in Nat : x = 0 \/ x = 1 \/ x >= 2
      OBVIOUS
    <3>2. Len(z) \in Nat
      BY <1>10, Zenon
    <3> QED
      BY <3>1, <3>2, Zenon
  <2> QED
    BY <2>2, <2>3, <2>4, <2>5
<1>13. TiposRed'
  <2>1. pc' # "muerto" /\ pc # "muerto"
    BY <1>1, <1>3
  <2>2. \A p \in Paquetes : p > paquete => trozos'[p] = <<>>
    <3> SUFFICES ASSUME NEW p \in Paquetes, p > paquete PROVE trozos'[p] = <<>>
      OBVIOUS
    <3>1. p # paquete
      BY <1>2, Numeros
    <3> QED
      BY <1>9, <3>1 DEF RInv, TiposRed
  <2> QED
    BY <1>2, <1>4, <1>7, <1>8, <2>1, <2>2 DEF RInv, TiposRed
<1>14. ~ Agotada /\ \A k \in 1 .. Len(recibidos) : Bueno(k)
  BY <1>2 DEF Agotada, RInv, Buenos
<1>15. Buenos'
  <2> SUFFICES ASSUME NEW k \in 1 .. Len(recibidos)
               PROVE  Bueno(k)'
    BY <1>4 DEF Buenos
  <2>1. Bueno(k)
    BY <1>14
  <2>2. (Entero(k)' <=> Entero(k)) /\ (Fiel(k)' <=> Fiel(k))
    BY <1>4 DEF Entero, Fiel
  <2> QED
    BY <1>8, <2>1, <2>2 DEF Bueno
<1>16. PorEnviar' = PorEnviar - s /\ PorEnviar = t - enviados /\ PorEnviar \in Nat
  <2>1. IInv'
    BY Vuelta DEF RInv
  <2>2. PorEnviar = t - enviados /\ PorEnviar \in Nat
    BY <1>1 DEF PorEnviar
  <2>3. Total(paquete') = t
    BY <1>4 DEF Total
  <2>4. CASE pc' = "envia"
    <3>1. cantidad_total' - offset' = t - enviados'
      BY <2>1, <2>3, <2>4 DEF IInv, EnvioJusto
    <3>2. PorEnviar' = cantidad_total' - offset'
      BY <2>4 DEF PorEnviar
    <3>3. t - (enviados + s) = (t - enviados) - s
      BY <1>1
    <3> QED
      BY <1>3, <2>2, <3>1, <3>2, <3>3
  <2>5. CASE pc' = "libre"
    <3>1. enviados' = t
      BY <1>1, <1>2, <1>4, <2>1, <2>3, <2>5, Numeros DEF IInv, EnvioJusto
    <3> QED
      BY <1>1, <1>3, <2>2, <2>5, <3>1 DEF PorEnviar
  <2> QED
    BY <1>1, <1>3, <2>2, <2>4, <2>5
<1>17. Corriente'
  <2> SUFFICES ASSUME rpc' \in {"cabecera", "datos"}, EnCurso'
               PROVE  /\ \E ini \in [Marcas -> Int] : Marca(ini)' /\ Largo(ini)' /\ Flujo(ini)'
                      /\ rpc' = "datos" => /\ Sig' <= paquete' /\ codigo' = Byte(Sig', 1)
                                           /\ tamanio' = Tamanio[Sig']
    BY DEF Corriente
  <2>1. EnCurso /\ rpc \in {"cabecera", "datos"}
    BY <1>4, <1>8 DEF EnCurso
  <2>2. rpc = "datos" => Sig <= paquete /\ codigo = Byte(Sig, 1) /\ tamanio = Tamanio[Sig]
    BY <1>14, <2>1 DEF RInv, Corriente
  <2>3. PICK ini \in [Marcas -> Int] : Marca(ini) /\ Largo(ini) /\ Flujo(ini)
    BY <1>14, <2>1 DEF RInv, Corriente
  <2>4. Marca(ini)'
    BY <1>4, <2>3 DEF Marca, Total
  <2>5. paquete + 1 \in Marcas /\ ini[paquete + 1] \in Int /\ ini[paquete] \in Int
    BY <1>1, Numeros
  <2>6. Len(red) + PorEnviar = ini[paquete + 1]
    BY <1>2, <2>3 DEF Largo
  <2>7. Largo(ini)'
    BY <1>1, <1>2, <1>4, <1>7, <1>16, <2>5, <2>6 DEF Largo
  <2>8. Flujo(ini)'
    <3> SUFFICES ASSUME NEW j \in 1 .. Len(red')
                 PROVE  \E p \in Paquetes : Cae(ini, p, j)'
      BY DEF Flujo
    <3>0. \A p \in Paquetes : Total(p)' = Total(p)
      BY DEF Total
    <3>1. CASE j \in 1 .. Len(red)
      <4>1. PICK p \in Paquetes : Cae(ini, p, j)
        BY <2>3, <3>1 DEF Flujo
      <4>2. Exacto(p, j - ini[p])' => Exacto(p, j - ini[p])
        BY <1>8
      <4>3. red'[j] = red[j]
        BY <1>7, <3>1
      <4>4. Cae(ini, p, j)'
        BY <1>4, <3>0, <4>1, <4>2, <4>3 DEF Cae
      <4> QED
        BY <4>4
    <3>2. CASE j \notin 1 .. Len(red)
      <4>1. PICK i : i = j - Len(red)
        OBVIOUS
      <4>2. j \in Nat /\ i \in 1 .. s /\ i \in Nat /\ j = Len(red) + i /\ i >= 1 /\ i <= s
        BY <1>1, <1>2, <1>7, <3>2, <4>1
      <4>3. red'[j] = Byte(paquete, offset + i)
        BY <1>6, <1>7, <4>2
      <4>4. Sig <= paquete
        <5>1. Sig <= paquete + 1
          BY <2>3 DEF Marca
        <5>2. Len(red) + PorEnviar > 0
          <6>1. PorEnviar >= s
            BY <1>1, <1>5, <1>16
          <6> QED
            BY <1>2, <1>16, <4>2, <6>1
        <5>3. ini[Sig] <= 0
          BY <1>2, <2>3 DEF Marca
        <5>4. Sig # paquete + 1
          BY <2>5, <2>6, <5>2, <5>3
        <5> QED
          BY <1>2, <5>1, <5>4
      <4>5. ini[paquete + 1] = ini[paquete] + t
        BY <1>1, <1>2, <2>3, <4>4 DEF Marca
      <4>6. j - ini[paquete] = enviados + i
        <5>1. \A l, e, a, b, u, x, y \in Int :
                l + e = b /\ b = a + u /\ e = u - x => (l + y) - a = x + y
          OBVIOUS
        <5>2. Len(red) \in Int /\ PorEnviar \in Int /\ t \in Int /\ enviados \in Int /\ i \in Int
          BY <1>1, <1>2, <1>16, <4>2
        <5>3. PorEnviar = t - enviados
          BY <1>16
        <5> HIDE DEF t
        <5>4. (Len(red) + i) - ini[paquete] = enviados + i
          BY <2>5, <2>6, <4>5, <5>1, <5>2, <5>3
        <5> QED
          BY <4>2, <5>4
      <4>7. ini[paquete] < j /\ j <= ini[paquete] + t
        <5>1. \A a, u, x, y \in Int : y - a = x /\ 0 < x /\ x <= u => a < y /\ y <= a + u
          OBVIOUS
        <5>2. enviados + i \in Int /\ 0 < enviados + i /\ enviados + i <= t
          <6>1. \A e, y, v, u \in Int : 0 <= e /\ 1 <= y /\ y <= v /\ v <= u - e =>
                                       e + y \in Int /\ 0 < e + y /\ e + y <= u
            OBVIOUS
          <6>2. enviados \in Int /\ i \in Int /\ s \in Int /\ t \in Int
            BY <1>1, <4>2
          <6>3. 0 <= enviados /\ 1 <= i /\ i <= s
            BY <1>2, <4>2
          <6>4. s <= t - enviados
            BY <1>1, <1>5
          <6> QED
            BY <6>1, <6>2, <6>3, <6>4
        <5> QED
          BY <1>1, <2>5, <4>2, <4>6, <5>1, <5>2
      <4>8. PICK q, x : q = paquete /\ x = j - ini[paquete]
        OBVIOUS
      <4>9. Exacto(q, x)' => offset = enviados
        <5> SUFFICES ASSUME Exacto(q, x)' PROVE offset = enviados
          OBVIOUS
        <5>1. s # 0
          BY <4>2
        <5>2. Len(z) >= 2 => ~ (enviados + i <= z[1] + z[2])
          <6>1. \A a, b, e, y \in Int : a + b <= e /\ 1 <= y => ~ (e + y <= a + b)
            OBVIOUS
          <6>2. enviados \in Int /\ i \in Int /\ 1 <= i
            BY <1>1, <4>2
          <6>3. Len(z) >= 2 => z[1] \in Int /\ z[2] \in Int /\ z[1] + z[2] <= enviados
            <7>1. \A y \in Nat : y \in Int
              OBVIOUS
            <7>2. Len(z) >= 2 => Len(z) >= 1
              BY <1>10
            <7> QED
              BY <1>11, <7>1, <7>2, Zenon
          <6> QED
            BY <6>1, <6>2, <6>3
        <5>3. Len(trozos'[paquete]) <= 2 \/ enviados + i <= trozos'[paquete][1] + trozos'[paquete][2]
          BY <4>6, <4>8 DEF Exacto
        <5>4. Len(z) <= 1
          <6>1. ASSUME Len(z) >= 2 PROVE FALSE
            <7>1. Len(trozos'[paquete]) = Len(z) + 1
              BY <1>10, <5>1
            <7>2. trozos'[paquete][1] = z[1] /\ trozos'[paquete][2] = z[2]
              BY <1>10, <5>1, <6>1
            <7>3. ~ (Len(trozos'[paquete]) <= 2)
              BY <1>10, <6>1, <7>1
            <7> QED
              BY <5>2, <5>3, <6>1, <7>2, <7>3
          <6> QED
            BY <1>10, <6>1
        <5>5. Len(z) = 0 \/ Len(z) = 1
          <6>1. \A y \in Nat : y <= 1 => y = 0 \/ y = 1
            OBVIOUS
          <6>2. Len(z) \in Nat
            BY <1>10, Zenon
          <6> QED
            BY <5>4, <6>1, <6>2, Zenon
        <5>6. /\ Len(z) = 0 => offset = enviados
              /\ Len(z) = 1 => offset = enviados
          BY <1>11, Zenon
        <5> QED
          BY <5>5, <5>6, Zenon
      <4>10. Exacto(q, x)' => red'[j].lugar = x
        <5>1. red'[j].lugar = offset + i
          BY <4>3 DEF Byte
        <5>2. x = enviados + i
          BY <4>6, <4>8
        <5> QED
          BY <4>9, <5>1, <5>2
      <4>11. /\ Sig' <= q /\ q <= paquete' /\ ini[q] < j /\ j <= ini[q] + Total(q)'
             /\ red'[j].de = q /\ x = j - ini[q]
        <5>1. red'[j].de = q
          BY <4>3, <4>8 DEF Byte
        <5>2. Total(q)' = t
          BY <1>1, <3>0, <4>8
        <5>3. Sig' <= q /\ q <= paquete'
          <6>1. paquete <= paquete
            BY <1>2
          <6> QED
            BY <1>4, <4>4, <4>8, <6>1, Zenon
        <5>4. ini[q] < j /\ j <= ini[q] + Total(q)'
          BY <4>7, <4>8, <5>2, Zenon
        <5>5. x = j - ini[q]
          BY <4>8, Zenon
        <5> QED
          BY <5>1, <5>3, <5>4, <5>5, Zenon
      <4>12. q \in Paquetes /\ Cae(ini, q, j)'
        BY <1>1, <4>8, <4>10, <4>11 DEF Cae
      <4> QED
        BY <4>12
    <3> QED
      BY <3>1, <3>2
  <2> QED
    BY <1>4, <2>2, <2>3, <2>4, <2>7, <2>8
<1> QED
  BY <1>12, <1>13, <1>15, <1>17

\* enviar_datos begins: the packet will end where its bytes, and those that the connection
\* holds already, do.
LEMMA PasoEnviar ==
  ASSUME RInv, EnviarDatos
  PROVE  TiposRed' /\ Piezas' /\ Corriente' /\ Buenos'
<1>1. PICK q : q = paquete + 1
  OBVIOUS
<1>2. /\ Len(red) \in Nat /\ Sig \in Nat /\ Sig >= 1 /\ paquete \in Nat /\ q \in Nat
      /\ paquete < q /\ paquete < Len(Tamanio) /\ Len(Tamanio) \in Nat
  BY <1>1, Numeros DEF EnviarDatos
<1>3. q \in Paquetes /\ q \in Marcas /\ q + 1 \in Marcas /\ Total(q) \in Nat
  <2>1. q \in Paquetes
    BY <1>1, <1>2 DEF Paquetes
  <2> QED
    BY <2>1, Numeros
<1>4. /\ pc = "libre" /\ pc' = "envia" /\ paquete' = q /\ cantidad_total' = Total(q)
      /\ offset' = 0 /\ enviados' = 0 /\ trozos' = trozos /\ red' = red /\ cerrada' = cerrada
      /\ rpc' = rpc /\ codigo' = codigo /\ tamanio' = tamanio /\ recibidos' = recibidos
      /\ Sig' = Sig
  BY <1>1 DEF EnviarDatos, receptor, Sig
<1>5. trozos[q] = <<>> /\ cerrada = "no" /\ ~ Agotada
  BY <1>2, <1>3, <1>4 DEF RInv, TiposRed, Agotada
<1>6. TiposRed'
  <2>1. \A p \in Paquetes : p > q => trozos[p] = <<>>
    <3> SUFFICES ASSUME NEW p \in Paquetes, p > q PROVE trozos[p] = <<>>
      OBVIOUS
    <3>1. p > paquete
      BY <1>2, Numeros
    <3> QED
      BY <3>1 DEF RInv, TiposRed
  <2> QED
    BY <1>4, <2>1 DEF RInv, TiposRed
<1>7. Piezas'
  <2>1. Len(trozos'[paquete']) = 0
    BY <1>4, <1>5
  <2> QED
    BY <1>4, <2>1 DEF Piezas
<1>8. Buenos'
  <2> SUFFICES ASSUME NEW k \in 1 .. Len(recibidos)
               PROVE  Bueno(k)'
    BY <1>4 DEF Buenos
  <2>1. Bueno(k)
    BY <1>5 DEF RInv, Buenos
  <2> QED
    BY <1>4, <2>1, BuenoSigue
<1>9. Corriente'
  <2> SUFFICES ASSUME rpc' \in {"cabecera", "datos"}, EnCurso'
               PROVE  /\ \E ini \in [Marcas -> Int] : Marca(ini)' /\ Largo(ini)' /\ Flujo(ini)'
                      /\ rpc' = "datos" => /\ Sig' <= paquete' /\ codigo' = Byte(Sig', 1)
                                           /\ tamanio' = Tamanio[Sig']
    BY DEF Corriente
  <2>1. EnCurso /\ rpc \in {"cabecera", "datos"}
    BY <1>4 DEF EnCurso, Cabe
  <2>2. rpc = "datos" => Sig <= paquete /\ codigo = Byte(Sig, 1) /\ tamanio = Tamanio[Sig]
    BY <1>5, <2>1 DEF RInv, Corriente
  <2>3. PICK ini \in [Marcas -> Int] : Marca(ini) /\ Largo(ini) /\ Flujo(ini)
    BY <1>5, <2>1 DEF RInv, Corriente
  <2>4. PICK g : g = [p \in Marcas |-> IF p = q + 1 THEN ini[q] + Total(q) ELSE ini[p]]
    OBVIOUS
  <2>5. /\ g \in [Marcas -> Int] /\ g[q + 1] = ini[q] + Total(q) /\ ini[q] \in Int
        /\ \A p \in Marcas : ini[p] \in Int /\ (p # q + 1 => g[p] = ini[p])
    BY <1>3, <2>4
  <2>6. \A p \in Paquetes : /\ p \in Marcas /\ p + 1 \in Marcas /\ p \in Nat
                            /\ Total(p) \in Nat /\ Total(p)' = Total(p)
    BY Numeros DEF Total
  <2>7. Sig <= q /\ Sig \in Marcas
    <3>1. Sig <= q
      BY <1>1, <2>3 DEF Marca
    <3> QED
      BY <1>1, <1>2, <3>1 DEF Marcas
  <2>8. g[q] = ini[q] /\ g[Sig] = ini[Sig]
    <3>1. q # q + 1 /\ Sig # q + 1
      BY <1>2, <2>7
    <3> QED
      BY <1>3, <2>5, <2>7, <3>1
  <2>9. Marca(g)'
    <3>1. \A p \in Paquetes : Sig <= p /\ p <= q => g[p + 1] = g[p] + Total(p)
      <4> SUFFICES ASSUME NEW p \in Paquetes, Sig <= p, p <= q
                   PROVE  g[p + 1] = g[p] + Total(p)
        OBVIOUS
      <4>1. CASE p = q
        BY <2>5, <2>8, <4>1
      <4>2. CASE p # q
        <5>0. p \in Nat
          BY <2>6
        <5>1. p <= paquete /\ p # q + 1 /\ p + 1 # q + 1
          BY <1>1, <1>2, <4>2, <5>0
        <5>2. ini[p + 1] = ini[p] + Total(p)
          BY <2>3, <5>1 DEF Marca
        <5> QED
          BY <2>5, <2>6, <5>1, <5>2
      <4> QED
        BY <4>1, <4>2
    <3>2. \A p \in Paquetes, r \in Marcas :
            Sig <= p /\ p < r /\ r <= q + 1 => g[p] + Total(p) <= g[r]
      <4> SUFFICES ASSUME NEW p \in Paquetes, NEW r \in Marcas, Sig <= p, p < r, r <= q + 1
                   PROVE  g[p] + Total(p) <= g[r]
        OBVIOUS
      <4>0. p \in Nat /\ r \in Nat /\ Total(p) \in Nat
        BY Numeros
      <4>1. p # q + 1 /\ p <= q
        BY <1>2, <4>0
      <4>2. g[p] = ini[p] /\ ini[p] \in Int
        BY <2>5, <2>6, <4>1
      <4>3. CASE r = q + 1 /\ p = q
        <5>1. g[r] = ini[p] + Total(p)
          BY <2>5, <4>3
        <5> QED
          BY <4>0, <4>2, <5>1
      <4>4. CASE r = q + 1 /\ p # q
        <5>1. p < q /\ q <= paquete + 1
          BY <1>1, <1>2, <4>0, <4>1, <4>4
        <5>2. ini[p] + Total(p) <= ini[q]
          BY <1>3, <2>3, <5>1 DEF Marca
        <5>3. \A a, t, b, u \in Int : a + t <= b /\ 0 <= u => a + t <= b + u
          OBVIOUS
        <5>4. Total(p) \in Int /\ Total(q) \in Int /\ 0 <= Total(q)
          BY <1>3, <4>0
        <5> QED
          BY <2>5, <4>2, <4>4, <5>2, <5>3, <5>4
      <4>5. CASE r # q + 1
        <5>1. r <= paquete + 1
          BY <1>1, <1>2, <4>0, <4>5
        <5>2. ini[p] + Total(p) <= ini[r]
          BY <2>3, <5>1 DEF Marca
        <5> QED
          BY <2>5, <4>2, <4>5, <5>2
      <4> QED
        BY <4>3, <4>4, <4>5
    <3>3. g[Sig] = IF rpc = "datos" THEN - Cabecera ELSE 0
      BY <2>3, <2>8 DEF Marca
    <3>4. Sig <= q + 1
      BY <1>2, <2>7
    <3> QED
      BY <1>4, <2>6, <3>1, <3>2, <3>3, <3>4 DEF Marca
  <2>10. Largo(g)'
    <3>1. PorEnviar = 0 /\ PorEnviar' = Total(q)
      BY <1>3, <1>4 DEF PorEnviar
    <3>2. Len(red) + 0 = ini[q]
      BY <1>1, <1>5, <2>3, <3>1 DEF Largo
    <3>3. Len(red) + Total(q) = g[q + 1]
      BY <1>2, <2>5, <3>2
    <3> QED
      BY <1>4, <3>1, <3>3 DEF Largo
  <2>11. Flujo(g)'
    <3> SUFFICES ASSUME NEW j \in 1 .. Len(red)
                 PROVE  \E p \in Paquetes : Cae(g, p, j)'
      BY <1>4 DEF Flujo
    <3>1. PICK p \in Paquetes : Cae(ini, p, j)
      BY <2>3 DEF Flujo
    <3>2. Sig <= p /\ p <= paquete
      BY <3>1 DEF Cae
    <3>0. p \in Nat
      BY <2>6
    <3>3. p # q + 1 /\ p <= q
      BY <1>1, <1>2, <3>0, <3>2
    <3>4. g[p] = ini[p]
      BY <2>5, <2>6, <3>3
    <3>5. Exacto(p, j - ini[p])' <=> Exacto(p, j - ini[p])
      BY <1>4 DEF Exacto
    <3>6. Cae(g, p, j)'
      BY <1>4, <2>6, <3>1, <3>3, <3>4, <3>5 DEF Cae
    <3> QED
      BY <3>6
  <2>12. rpc = "datos" => Sig <= q
    BY <2>7
  <2> QED
    BY <1>4, <2>2, <2>5, <2>9, <2>10, <2>11, <2>12
<1> QED
  BY <1>6, <1>7, <1>8, <1>9

\* The sender dies: what is lost is the end of what the connection held.
LEMMA PasoMuere ==
  ASSUME RInv, Muere
  PROVE  TiposRed' /\ Piezas' /\ Corriente' /\ Buenos'
<1>1. /\ pc' = "muerto" /\ cerrada' # "no" /\ paquete' = paquete /\ trozos' = trozos
      /\ rpc' = rpc /\ codigo' = codigo /\ tamanio' = tamanio /\ recibidos' = recibidos
      /\ Sig' = Sig
  BY DEF Muere, receptor, Sig
<1>2. cerrada = "no" /\ ~ Agotada /\ red \in Seq(Octetos) /\ Len(red) \in Nat
  BY DEF RInv, TiposRed, Agotada, Muere
<1>3. /\ red' \in Seq(Octetos) /\ Len(red') \in Nat /\ Len(red') <= Len(red)
      /\ \A j \in 1 .. Len(red') : red'[j] = red[j]
  <2>1. CASE red' = red
    BY <1>2, <2>1
  <2>2. ASSUME NEW n \in 0 .. Len(red), red' = SubSeq(red, 1, n)
        PROVE  /\ red' \in Seq(Octetos) /\ Len(red') = n
               /\ \A j \in 1 .. n : red'[j] = red[j]
    BY <1>2, <2>2
  <2>3. red' = red \/ \E n \in 0 .. Len(red) : red' = SubSeq(red, 1, n)
    BY DEF Muere
  <2> QED
    BY <1>2, <2>1, <2>2, <2>3
<1>4. TiposRed' /\ Piezas'
  BY <1>1, <1>3 DEF RInv, TiposRed, Piezas
<1>5. Buenos'
  <2> SUFFICES ASSUME NEW k \in 1 .. Len(recibidos)
               PROVE  Bueno(k)'
    BY <1>1 DEF Buenos
  <2>1. Bueno(k)
    BY <1>2 DEF RInv, Buenos
  <2> QED
    BY <1>1, <2>1, BuenoSigue
<1>6. Corriente'
  <2> SUFFICES ASSUME rpc' \in {"cabecera", "datos"}, EnCurso'
               PROVE  /\ \E ini \in [Marcas -> Int] : Marca(ini)' /\ Largo(ini)' /\ Flujo(ini)'
                      /\ rpc' = "datos" => /\ Sig' <= paquete' /\ codigo' = Byte(Sig', 1)
                                           /\ tamanio' = Tamanio[Sig']
    BY DEF Corriente
  <2>1. EnCurso /\ rpc \in {"cabecera", "datos"}
    BY <1>1 DEF EnCurso, Cabe
  <2>2. rpc = "datos" => Sig <= paquete /\ codigo = Byte(Sig, 1) /\ tamanio = Tamanio[Sig]
    BY <1>2, <2>1 DEF RInv, Corriente
  <2>3. PICK ini \in [Marcas -> Int] : Marca(ini) /\ Largo(ini) /\ Flujo(ini)
    BY <1>2, <2>1 DEF RInv, Corriente
  <2>4. \A p \in Paquetes : Total(p)' = Total(p)
    BY DEF Total
  <2>5. Marca(ini)' /\ Largo(ini)'
    BY <1>1, <2>3, <2>4 DEF Marca, Largo
  <2>6. Flujo(ini)'
    <3> SUFFICES ASSUME NEW j \in 1 .. Len(red')
                 PROVE  \E p \in Paquetes : Cae(ini, p, j)'
      BY DEF Flujo
    <3>1. j \in 1 .. Len(red) /\ red'[j] = red[j]
      BY <1>2, <1>3
    <3>2. PICK p \in Paquetes : Cae(ini, p, j)
      BY <2>3, <3>1 DEF Flujo
    <3>3. Exacto(p, j - ini[p])' <=> Exacto(p, j - ini[p])
      BY <1>1 DEF Exacto
    <3>4. Cae(ini, p, j)'
      BY <1>1, <2>4, <3>1, <3>2, <3>3 DEF Cae
    <3> QED
      BY <3>4
  <2> QED
    BY <1>1, <2>2, <2>3, <2>5, <2>6
<1> QED
  BY <1>4, <1>5, <1>6

\* send fails: the receiver had gone, and reads no more.
LEMMA PasoSendFalla ==
  ASSUME RInv, SendFalla
  PROVE  TiposRed' /\ Piezas' /\ Corriente' /\ Buenos'
<1>1. /\ pc' = "muerto" /\ cerrada' # "no" /\ paquete' = paquete /\ trozos' = trozos
      /\ red' = red /\ rpc' = rpc /\ codigo' = codigo /\ tamanio' = tamanio
      /\ recibidos' = recibidos /\ rpc = "caida"
  BY DEF SendFalla, receptor
<1>2. ~ Agotada
  BY DEF RInv, TiposRed, Agotada, SendFalla
<1>3. Buenos'
  <2> SUFFICES ASSUME NEW k \in 1 .. Len(recibidos)
               PROVE  Bueno(k)'
    BY <1>1 DEF Buenos
  <2>1. Bueno(k)
    BY <1>2 DEF RInv, Buenos
  <2> QED
    BY <1>1, <2>1, BuenoSigue
<1> QED
  BY <1>1, <1>3 DEF RInv, TiposRed, Piezas, Corriente

\* Nothing moves.
LEMMA Quieto ==
  ASSUME RInv, UNCHANGED vars
  PROVE  TiposRed' /\ Piezas' /\ Corriente' /\ Buenos'
<1>1. /\ UNCHANGED <<pc, paquete, cantidad_total, offset, enviados, trozos>>
      /\ UNCHANGED <<red, cerrada, rpc, codigo, tamanio, recibidos>>
  BY DEF vars, emisor, receptor
<1>2. TiposRed' /\ Piezas'
  BY <1>1 DEF RInv, TiposRed, Piezas, Total
<1>3. Corriente'
  BY <1>1 DEF RInv, Corriente, Agotada, EnCurso, Cabe, Marca, Largo, Flujo, Cae, Exacto, Sig,
              PorEnviar, Total
<1>4. Buenos'
  BY <1>1 DEF RInv, Buenos, Bueno, Entero, Fiel, Cabe, Corto, Agotada
<1> QED
  BY <1>2, <1>3, <1>4

\* At the start nothing has been sent, and the first packet will begin at the first byte.
LEMMA InicioRed == Init => RInv
<1> SUFFICES ASSUME Init
             PROVE  RInv
  OBVIOUS
<1>1. Sig = 1 /\ paquete = 0 /\ red = <<>> /\ recibidos = <<>> /\ cerrada = "no" /\ PorEnviar = 0
  BY DEF Init, Sig, PorEnviar
<1>2. TiposRed /\ Piezas
  <2>1. trozos \in [Paquetes -> Seq(Nat)] /\ \A p \in Paquetes : trozos[p] = <<>>
    BY DEF Init
  <2> QED
    BY <2>1 DEF Init, TiposRed, Piezas
<1>3. Buenos
  BY <1>1 DEF Buenos
<1>4. Corriente
  <2>1. PICK g : g = [p \in Marcas |-> 0]
    OBVIOUS
  <2>2. 1 \in Marcas /\ \A p \in Paquetes : p \in Nat /\ p >= 1
    BY SocketsAssumption DEF Marcas, Paquetes
  <2>3. g \in [Marcas -> Int] /\ g[1] = 0
    BY <2>1, <2>2
  <2>4. rpc = "cabecera"
    BY DEF Init
  <2>5. Marca(g)
    <3>1. \A p \in Paquetes : ~ (p <= 0)
      BY <2>2
    <3>2. \A p \in Paquetes, r \in Marcas : ~ (Sig <= p /\ p < r /\ r <= 1)
      BY <1>1, <2>2, SocketsAssumption DEF Marcas
    <3> QED
      BY <1>1, <2>3, <2>4, <3>1, <3>2 DEF Marca
  <2>6. Largo(g) /\ Flujo(g)
    BY <1>1, <2>3 DEF Largo, Flujo
  <2> QED
    BY <2>3, <2>4, <2>5, <2>6 DEF Corriente
<1> QED
  BY Inicio, <1>2, <1>3, <1>4 DEF RInv

\* Every step keeps what is known of the connection.
LEMMA PasoRed == RInv /\ [Next]_vars => RInv'
<1> SUFFICES ASSUME RInv, [Next]_vars
             PROVE  RInv'
  OBVIOUS
<1>1. IInv'
  BY Paso DEF RInv
<1>2. CASE EnviarDatos
  BY <1>1, <1>2, PasoEnviar DEF RInv
<1>3. CASE \E s \in 0 .. Capacidad : Send(s)
  BY <1>1, <1>3, PasoSend DEF RInv
<1>4. CASE SendFalla
  BY <1>1, <1>4, PasoSendFalla DEF RInv
<1>5. CASE Muere
  BY <1>1, <1>5, PasoMuere DEF RInv
<1>6. CASE RecibirCabecera
  BY <1>1, <1>6, PasoCabecera DEF RInv
<1>7. CASE RecibirDatos
  BY <1>1, <1>7, PasoDatos DEF RInv
<1>8. CASE UNCHANGED vars
  BY <1>1, <1>8, Quieto DEF RInv
<1> QED
  BY <1>2, <1>3, <1>4, <1>5, <1>6, <1>7, <1>8 DEF Next

\* The packets that nothing cut short are good.
LEMMA SinCorteBueno ==
  ASSUME RInv, NEW k \in DOMAIN recibidos, SinCorte(k)
  PROVE  Bueno(k) /\ k \in 1 .. Len(recibidos)
<1>1. k \in 1 .. Len(recibidos)
  BY DEF RInv, TiposRed
<1> QED
  BY <1>1 DEF RInv, Buenos, SinCorte, Agotada

\* recibir_datos: for packets of any size and connections of any capacity, and wherever the
\* sender dies, it gives the packets that were sent, in their order and byte by byte, while
\* every one of them was sent in at most two pieces.
THEOREM PaquetesSiempreFieles == Spec => []PaquetesFieles
<1>1. RInv => PaquetesFieles
  <2> SUFFICES ASSUME RInv, NEW k \in DOMAIN recibidos, SinCorte(k),
                      \A p \in Paquetes : p <= k => Len(trozos[p]) <= 2
               PROVE  /\ k \in Paquetes
                      /\ recibidos[k] = [codigo |-> Byte(k, 1), tamanio |-> Tamanio[k],
                                         datos |-> [i \in 1 .. Tamanio[k] |-> Byte(k, Cabecera + i)]]
    BY DEF PaquetesFieles
  <2>1. Bueno(k) /\ k \in 1 .. Len(recibidos)
    BY SinCorteBueno
  <2>2. Entero(k) /\ Fiel(k)
    BY <2>1 DEF Bueno, Cabe, Corto
  <2>3. PICK e : e = recibidos[k]
    OBVIOUS
  <2>4. e \in Entregas
    BY <2>1, <2>3 DEF RInv, TiposRed
  <2>5. e = [codigo |-> e.codigo, tamanio |-> e.tamanio, datos |-> e.datos] /\ e.datos \in Seq(Octetos)
    BY <2>4 DEF Entregas
  <2>6. e.codigo = Byte(k, 1) /\ e.tamanio = Tamanio[k] /\ Len(e.datos) = Tamanio[k] /\ k \in Paquetes
    BY <2>2, <2>3 DEF Entero
  <2>7. \A i \in 1 .. Tamanio[k] : e.datos[i] = Byte(k, Cabecera + i)
    BY <2>2, <2>3 DEF Fiel
  <2>8. e.datos = [i \in 1 .. Tamanio[k] |-> Byte(k, Cabecera + i)]
    BY <2>5, <2>6, <2>7
  <2> QED
    BY <2>3, <2>5, <2>6, <2>8
<1> QED
  BY InicioRed, PasoRed, <1>1, PTL DEF Spec

\* recibir_datos: for packets of any size, and however many pieces they were sent in, the
\* codes and the sizes are those that were sent, in their order, provided the first two
\* pieces of each carried its header: one that is misplaced does not disturb the next.
THEOREM SiempreEnFase == Spec => []EnFase
<1>1. RInv => EnFase
  <2> SUFFICES ASSUME RInv, NEW k \in DOMAIN recibidos, SinCorte(k),
                      \A p \in Paquetes : p <= k => Cabe(p)
               PROVE  Entero(k)
    BY DEF EnFase, Cabe, Entero
  <2> QED
    BY SinCorteBueno DEF Bueno
<1> QED
  BY InicioRed, PasoRed, <1>1, PTL DEF Spec
================================================================================
