--------------------------- MODULE Ensamblador_proofs ---------------------------
(*****************************************************************************)
(* Proofs about so-ensamblador: for every source, the program written is the *)
(* one of the source, the decompiler gives it back, and what can bring the   *)
(* assembler down.                                                           *)
(*****************************************************************************)
EXTENDS Ensamblador, Lemas

Aca == <<archivo, linea>>

\* The lines that the second pass has translated.
Leidas == IF estado \in {"etiquetas", "traduce"} THEN Previos(fuente, Aca)
                                                 ELSE Lugares(fuente)

Vive == estado \notin {"aborta", "cae", "pisado"}

Largos(f) == [q \in Lugares(f) |-> Largo(f, q)]

Etiquetas(f) == {p \in Lugares(f) : En(f, p).tipo = "etiqueta"}

\* The line p can be translated, if it is an instruction.
Valida(f, p) ==
  p \in Programa(f) =>
    LET x == En(f, p) IN
    /\ x.tipo = "instruccion" /\ x.op \in Codigos
    /\ Len(Regla(x.op)) <= Len(x.parametros)
    /\ \A k \in DOMAIN Regla(x.op) :
         /\ Regla(x.op)[k] = "R" => x.parametros[k].t = "reg"
         /\ Regla(x.op)[k] = "N" /\ x.parametros[k].t = "ref" =>
              Definiciones(f, p, x.parametros[k].nombre) # {}

Tipos ==
  /\ fuente \in Fuentes /\ archivo \in DOMAIN fuente /\ linea \in DOMAIN fuente[archivo]
  /\ isData \in BOOLEAN /\ roto \in BOOLEAN
  /\ estado \in {"etiquetas", "traduce", "listo", "fin", "datos", "aborta", "cae", "pisado"}
  /\ estado = "etiquetas" => linea = 1

\* The position and the flag are those of the lines read, which are right.
Avance ==
  Vive =>
    /\ position = Suma(Largos(fuente), Leidas)
    /\ isData <=> \E q \in Leidas : En(fuente, q).tipo = "data"
    /\ \A p \in Leidas : Valida(fuente, p)
    /\ \A p, q \in Leidas \cap Etiquetas(fuente) :
         p[1] = q[1] /\ En(fuente, p).nombre = En(fuente, q).nombre => p = q

\* The references to nombre in the lines L of the file a.
Pendientes(f, L, a, nombre) ==
  {x \in {q \in Programa(f) \cap L : q[1] = a} \X (1 .. 3) :
     x[2] \in Referencias(f, x[1]) /\ En(f, x[1]).parametros[x[2]].nombre = nombre}

\* Where they are written.
Huecos(f, D) == {Direccion(f, x[1]) + Lugar(En(f, x[1]).op, x[2]) : x \in D}

\* The entry e of the label nombre of the file a, when the lines L have been read.
Cumple(f, L, a, e, nombre) ==
  LET D == {q \in L \cap Etiquetas(f) : q[1] = a /\ En(f, q).nombre = nombre}
      P == Pendientes(f, L, a, nombre)
  IN IF D = {} THEN e.point = -1 /\ e.obsSize = Cardinality(P) /\ Range(e.obs) = Huecos(f, P)
     ELSE /\ e.obs = <<>> /\ e.obsSize = -1
          /\ \A q \in D : e.point = Direccion(f, q)

Nombres(f) == {En(f, q).nombre : q \in Etiquetas(f)}
Entradas   == [label : Seq(STRING \cup {"^"}), point : Int, obs : Seq(Nat), obsSize : Int]

\* The table t of labels of the file a, when the lines L have been read.
Tablero(f, L, a, t) ==
  /\ t \in Seq(Entradas)
  /\ \A i \in DOMAIN t :
       /\ \E q \in Etiquetas(f) : q[1] = a /\ t[i].label = Texto(En(f, q))
       /\ t[i].obsSize <= 0 \/ \E n \in Nombres(f) : i = findLabel(<<n>>, t)
  /\ \A n \in Nombres(f) : findLabel(<<n>>, t) # 0 => Cumple(f, L, a, t[findLabel(<<n>>, t)], n)

Tabla == estado = "traduce" => Tablero(fuente, Leidas, archivo, labels)

\* What the k-th parameter of p may be when the lines L have been read.
Vale(f, L, p, k, valor) ==
  LET x == En(f, p).parametros[k] IN
  /\ x.t = "reg" => valor = x.r
  /\ x.t \in {"num", "llamada"} => valor = x.n
  /\ x.t = "ref" => \A q \in Definiciones(f, p, x.nombre) \cap L : valor = Direccion(f, q)

\* The line p is in s as far as the lines L say.
EstaEscrita(f, L, s, p) ==
  LET dir == Direccion(f, p)
      op  == En(f, p).op
  IN /\ p \in Programa(f) =>
          /\ dir \in DOMAIN s /\ s[dir] = Item("codigo", op)
          /\ \A k \in DOMAIN Regla(op) :
               /\ dir + Lugar(op, k) \in DOMAIN s
               /\ SinSentido(f, p, k) \/ Vale(f, L, p, k, s[dir + Lugar(op, k)].valor)
     /\ Sentencia(f, p) /\ EsDato(f, p) /\ Largo(f, p) > 0 =>
          dir \in DOMAIN s /\ s[dir] = Dado(f, p)

Escritura ==
  Vive => /\ DOMAIN salida \subseteq 0 .. position - 1
          /\ \A p \in Leidas : EstaEscrita(fuente, Leidas, salida, p)

\* Before the line a too many references have waited for a label.
Excedida(f, a) ==
  \E p \in Previos(f, a), e \in Etiquetas(f) :
    e[1] = p[1] /\ Cardinality(Esperan(f, p, En(f, e).nombre)) > CABEN

Repetida == \E q \in Definiciones(fuente, Aca, Linea.nombre) : Antes(q, Aca)

Caidas ==
  /\ roto /\ estado \in {"etiquetas", "traduce"} => Excedida(fuente, Aca)
  /\ estado = "cae" => Excedida(fuente, Aca) \/ (Aca \in Etiquetas(fuente) /\ Repetida)

\* The instructions that the decompiler has printed.
Hechos == {p \in Programa(fuente) : Direccion(fuente, p) < Desde}

Impreso(f, p, e) ==
  /\ e.op = En(f, p).op
  /\ \A k \in DOMAIN Regla(En(f, p).op) : SinSentido(f, p, k) \/ e.valores[k] = Significa(f, p, k)

Listado ==
  /\ estado \in {"etiquetas", "traduce"} => listado = <<>>
  /\ estado \in {"listo", "fin", "datos"} =>
       /\ listado \in Seq(Range(listado)) /\ Len(listado) = Cardinality(Hechos)
       /\ Desde = Suma(Largos(fuente), Hechos)
       /\ \A p \in Hechos :
            Impreso(fuente, p, listado[Cardinality({q \in Hechos : Antes(q, p)}) + 1])
       /\ Hechos \subseteq Suyas(fuente)
       /\ estado # "listo" => Hechos = Suyas(fuente)
       /\ estado = "datos" => ~ Acaba(fuente)

\* The inductive invariant.
EInv == Tipos /\ Avance /\ Tabla /\ Escritura /\ Caidas /\ Listado

-------------------------------------------------------------------------------
(* The instructions and their size *)

\* Each code has a rule, of three parameters at most.
LEMMA ReglaTipo ==
  ASSUME NEW op \in Codigos
  PROVE  /\ Regla(op) \in Seq({"R", "N"}) /\ Len(Regla(op)) \in 0 .. 3
         /\ DOMAIN Regla(op) = 1 .. Len(Regla(op))
<1>1. Regla(op) \in {<<"R", "N">>, <<"N", "R", "R">>, <<"R", "R">>, <<"R">>, <<"N">>,
                     <<"N", "R">>, <<>>}
  BY DEF Regla, Codigos, Aritmeticas, Protegidas
<1> DEFINE Bien(s) == s \in Seq({"R", "N"}) /\ Len(s) \in 0 .. 3 /\ DOMAIN s = 1 .. Len(s)
<1>2. Bien(<<"R", "N">>)
  OBVIOUS
<1>3. Bien(<<"N", "R", "R">>)
  OBVIOUS
<1>4. Bien(<<"R", "R">>)
  OBVIOUS
<1>5. Bien(<<"R">>)
  OBVIOUS
<1>6. Bien(<<"N">>)
  OBVIOUS
<1>7. Bien(<<"N", "R">>)
  OBVIOUS
<1>8. Bien(<<>>)
  OBVIOUS
<1> HIDE DEF Bien
<1>9. Bien(Regla(op))
  BY <1>1, <1>2, <1>3, <1>4, <1>5, <1>6, <1>7, <1>8
<1> QED
  BY <1>9 DEF Bien

\* Every parameter comes after the ones before it, by their size.
LEMMA LugarPaso ==
  ASSUME NEW op \in Codigos, NEW k \in 1 .. Len(Regla(op))
  PROVE  Lugar(op, k + 1) = Lugar(op, k) + IF Regla(op)[k] = "R" THEN 1 ELSE 4
<1> DEFINE S(j) == {i \in 1 .. j - 1 : Regla(op)[i] = "N"}
<1>1. k \in Nat /\ Regla(op)[k] \in {"R", "N"}
  BY ReglaTipo
<1>2. IsFiniteSet(S(k)) /\ Cardinality(S(k)) \in Nat
  <2>1. IsFiniteSet(1 .. k - 1)
    BY <1>1, FS_Interval
  <2> QED
    BY <2>1, FS_Subset, FS_CardinalityType
<1>3. /\ Lugar(op, k) = 4 + (k - 1) + 3 * Cardinality(S(k))
      /\ Lugar(op, k + 1) = 4 + ((k + 1) - 1) + 3 * Cardinality(S(k + 1))
  BY Zenon DEF Lugar, S
<1>4. CASE Regla(op)[k] = "R"
  <2>1. S(k + 1) = S(k)
    BY <1>1, <1>4
  <2> HIDE DEF S
  <2>2. Cardinality(S(k + 1)) = Cardinality(S(k))
    BY <2>1
  <2> QED
    BY <1>1, <1>2, <1>3, <1>4, <2>2
<1>5. CASE Regla(op)[k] = "N"
  <2>1. S(k + 1) = S(k) \cup {k} /\ k \notin S(k)
    BY <1>1, <1>5
  <2> HIDE DEF S
  <2>2. Cardinality(S(k + 1)) = Cardinality(S(k)) + 1
    BY <1>2, <2>1, FS_AddElement
  <2> QED
    BY <1>1, <1>2, <1>3, <1>5, <2>2
<1> QED
  BY <1>1, <1>4, <1>5

\* The parameters are in their order, after the code and inside the instruction.
LEMMA LugarOrden ==
  ASSUME NEW op \in Codigos
  PROVE  /\ Tamanio(op) \in Nat /\ Tamanio(op) >= 4 /\ Lugar(op, 1) = 4
         /\ \A k \in 1 .. Len(Regla(op)) + 1 :
              Lugar(op, k) \in Nat /\ Lugar(op, k) >= 4 /\ Lugar(op, k) <= Tamanio(op)
         /\ \A j, k \in 1 .. Len(Regla(op)) + 1 : j < k => Lugar(op, j) < Lugar(op, k)
<1> DEFINE S(j) == {i \in 1 .. j - 1 : Regla(op)[i] = "N"}
           n == Len(Regla(op)) + 1
<1>1. n \in Nat
  BY ReglaTipo
<1>2. \A j, k \in 1 .. n : j <= k =>
        /\ Cardinality(S(j)) \in Nat /\ Cardinality(S(k)) \in Nat
        /\ Cardinality(S(j)) <= Cardinality(S(k))
  <2> SUFFICES ASSUME NEW j \in 1 .. n, NEW k \in 1 .. n, j <= k
               PROVE  /\ Cardinality(S(j)) \in Nat /\ Cardinality(S(k)) \in Nat
                      /\ Cardinality(S(j)) <= Cardinality(S(k))
    OBVIOUS
  <2>1. IsFiniteSet(1 .. k - 1)
    BY <1>1, FS_Interval
  <2>2. S(j) \in SUBSET S(k) /\ S(k) \in SUBSET (1 .. k - 1)
    BY <1>1
  <2> HIDE DEF S
  <2>3. IsFiniteSet(S(k))
    BY <2>1, <2>2, FS_Subset
  <2> QED
    BY <2>2, <2>3, CardinalMonotono
<1>3. \A k : Lugar(op, k) = 4 + (k - 1) + 3 * Cardinality(S(k))
  BY DEF Lugar
<1>4. S(1) = {}
  OBVIOUS
<1>5. Cardinality(S(1)) = 0
  BY <1>4, FS_EmptySet
<1> HIDE DEF S
<1>6. Tamanio(op) = Lugar(op, n)
  BY DEF Tamanio
<1>7. \A j, k \in 1 .. n : j < k => Lugar(op, j) < Lugar(op, k)
  BY <1>1, <1>2, <1>3
<1>8. Lugar(op, 1) = 4
  BY <1>3, <1>5
<1>9. \A k \in 1 .. n : Lugar(op, k) \in Nat /\ Lugar(op, k) >= 4
  BY <1>1, <1>2, <1>3
<1>10. n \in 1 .. n
  BY <1>1, ReglaTipo
<1>11. \A k \in 1 .. n : k = n \/ k < n
  BY <1>1
<1> HIDE DEF n
<1>12. \A k \in 1 .. n : Lugar(op, k) <= Lugar(op, n)
  BY <1>7, <1>9, <1>10, <1>11
<1> QED
  BY <1>6, <1>7, <1>8, <1>9, <1>10, <1>12 DEF n

-------------------------------------------------------------------------------
(* The lines of a source and their order *)

\* A source has numbered files of numbered lines.
LEMMA FuenteTipos ==
  ASSUME NEW f \in Fuentes
  PROVE  /\ Len(f) \in Nat /\ Len(f) >= 1 /\ DOMAIN f = 1 .. Len(f)
         /\ \A a \in DOMAIN f : /\ f[a] \in Seq(Lineas) /\ Len(f[a]) \in Nat /\ Len(f[a]) >= 1
                                /\ DOMAIN f[a] = 1 .. Len(f[a])
<1>1. f \in Seq(Seq(Lineas) \ {<<>>}) /\ f # <<>>
  BY FuentesAssumption
<1>2. Len(f) \in Nat /\ DOMAIN f = 1 .. Len(f) /\ Len(f) >= 1
  BY <1>1
<1>3. \A a \in DOMAIN f : f[a] \in Seq(Lineas) /\ f[a] # <<>>
  BY <1>1, <1>2
<1>4. \A s \in Seq(Lineas) : s # <<>> =>
        Len(s) \in Nat /\ Len(s) >= 1 /\ DOMAIN s = 1 .. Len(s)
  OBVIOUS
<1> QED
  BY <1>2, <1>3, <1>4

\* The places are the pairs of a file and a line of it.
LEMMA LugaresSon ==
  ASSUME NEW f \in Fuentes
  PROVE  /\ \A p \in Lugares(f) : /\ p = <<p[1], p[2]>> /\ p[1] \in DOMAIN f
                                  /\ p[2] \in DOMAIN f[p[1]]
                                  /\ p[1] \in Nat /\ p[2] \in Nat
                                  /\ En(f, p) \in Lineas
         /\ \A a \in DOMAIN f : \A l \in DOMAIN f[a] : <<a, l>> \in Lugares(f)
<1>1. \A p \in Lugares(f) : p = <<p[1], p[2]>> /\ p[1] \in DOMAIN f /\ p[2] \in DOMAIN f[p[1]]
  BY DEF Lugares
<1>2. \A a \in DOMAIN f : \A l \in DOMAIN f[a] : <<a, l>> \in Lugares(f)
  BY DEF Lugares
<1>3. \A p \in Lugares(f) : p[1] \in Nat /\ p[2] \in Nat
  <2> SUFFICES ASSUME NEW p \in Lugares(f) PROVE p[1] \in Nat /\ p[2] \in Nat
    OBVIOUS
  <2>1. p[1] \in 1 .. Len(f) /\ Len(f) \in Nat
    BY <1>1, FuenteTipos
  <2>2. p[2] \in 1 .. Len(f[p[1]]) /\ Len(f[p[1]]) \in Nat
    BY <1>1, FuenteTipos
  <2> QED
    BY <2>1, <2>2
<1>4. \A p \in Lugares(f) : f[p[1]][p[2]] \in Lineas
  <2> SUFFICES ASSUME NEW p \in Lugares(f) PROVE f[p[1]][p[2]] \in Lineas
    OBVIOUS
  <2> DEFINE s == f[p[1]]
  <2>1. s \in Seq(Lineas) /\ p[2] \in 1 .. Len(s)
    BY <1>1, FuenteTipos
  <2> HIDE DEF s
  <2>2. s[p[2]] \in Lineas
    BY <2>1
  <2> QED
    BY <2>2 DEF s
<1> QED
  BY <1>1, <1>2, <1>3, <1>4 DEF En

\* Antes is a strict total order of the places.
LEMMA OrdenTotal ==
  ASSUME NEW f \in Fuentes
  PROVE  /\ \A p \in Lugares(f) : ~Antes(p, p)
         /\ \A p, q \in Lugares(f) : p = q \/ Antes(p, q) \/ Antes(q, p)
         /\ \A p, q \in Lugares(f) : ~(Antes(p, q) /\ Antes(q, p))
         /\ \A p, q, r \in Lugares(f) : Antes(p, q) /\ Antes(q, r) => Antes(p, r)
<1>1. \A p \in Lugares(f) : p = <<p[1], p[2]>> /\ p[1] \in Nat /\ p[2] \in Nat
  BY LugaresSon
<1>2. \A p, q \in Lugares(f) : p[1] = q[1] /\ p[2] = q[2] => p = q
  BY <1>1
<1> QED
  BY <1>1, <1>2 DEF Antes

\* There are finitely many places.
LEMMA LugaresFinitos ==
  ASSUME NEW f \in Fuentes
  PROVE  IsFiniteSet(Lugares(f))
<1> DEFINE I == {{a} \X DOMAIN f[a] : a \in DOMAIN f}
           c == [a \in DOMAIN f |-> {a} \X DOMAIN f[a]]
<1>1. IsFiniteSet(DOMAIN f)
  BY FuenteTipos, FS_Interval
<1>2. c \in Surjection(DOMAIN f, I)
  BY DEF Surjection
<1>3. \A a \in DOMAIN f : IsFiniteSet({a} \X DOMAIN f[a])
  <2> SUFFICES ASSUME NEW a \in DOMAIN f PROVE IsFiniteSet({a} \X DOMAIN f[a])
    OBVIOUS
  <2>1. IsFiniteSet({a})
    BY FS_Singleton
  <2>2. IsFiniteSet(DOMAIN f[a])
    BY FuenteTipos, FS_Interval
  <2> QED
    BY <2>1, <2>2, FS_Product
<1>4. \A s \in I : IsFiniteSet(s)
  BY <1>3
<1> HIDE DEF I, c
<1>5. IsFiniteSet(I)
  BY <1>1, <1>2, FS_Surjection
<1>6. IsFiniteSet(UNION I)
  BY <1>4, <1>5, FS_UNION
<1> QED
  BY <1>6 DEF Lugares, I

\* A nonempty set of places has a first one and a last one.
LEMMA PrimeroYUltimo ==
  ASSUME NEW f \in Fuentes, NEW S \in SUBSET Lugares(f), S # {}
  PROVE  /\ \E p \in S : \A q \in S : q = p \/ Antes(p, q)
         /\ \E p \in S : \A q \in S : q = p \/ Antes(q, p)
<1>1. IsFiniteSet(S)
  BY LugaresFinitos, FS_Subset
<1>2. \E p \in S : \A q \in S : q = p \/ Antes(p, q)
  <2> DEFINE Menores(p) == {q \in S : Antes(q, p)}
             W == {Menores(p) : p \in S}
  <2>1. W # {} /\ W \in SUBSET SUBSET S
    OBVIOUS
  <2> HIDE DEF W
  <2>2. PICK A \in W : \A B \in W : B \subseteq A => B = A
    BY <1>1, <2>1, MinimoDeSubconjuntos
  <2> USE DEF W
  <2>3. PICK p \in S : A = Menores(p)
    BY <2>2
  <2>4. \A q \in S : ~Antes(q, p)
    <3> SUFFICES ASSUME NEW q \in S, Antes(q, p) PROVE FALSE
      OBVIOUS
    <3>1. Menores(q) \subseteq Menores(p) /\ q \in Menores(p) /\ q \notin Menores(q)
      BY OrdenTotal
    <3> QED
      BY <2>2, <2>3, <3>1
  <2> QED
    BY <2>4, OrdenTotal
<1>3. \E p \in S : \A q \in S : q = p \/ Antes(q, p)
  <2> DEFINE Mayores(p) == {q \in S : Antes(p, q)}
             W == {Mayores(p) : p \in S}
  <2>1. W # {} /\ W \in SUBSET SUBSET S
    OBVIOUS
  <2> HIDE DEF W
  <2>2. PICK A \in W : \A B \in W : B \subseteq A => B = A
    BY <1>1, <2>1, MinimoDeSubconjuntos
  <2> USE DEF W
  <2>3. PICK p \in S : A = Mayores(p)
    BY <2>2
  <2>4. \A q \in S : ~Antes(p, q)
    <3> SUFFICES ASSUME NEW q \in S, Antes(p, q) PROVE FALSE
      OBVIOUS
    <3>1. Mayores(q) \subseteq Mayores(p) /\ q \in Mayores(p) /\ q \notin Mayores(q)
      BY OrdenTotal
    <3> QED
      BY <2>2, <2>3, <3>1
  <2> QED
    BY <2>4, OrdenTotal
<1> QED
  BY <1>2, <1>3

-------------------------------------------------------------------------------
(* Addresses *)

\* A valid line has a size, and an instruction is not empty.
LEMMA LargoTipo ==
  ASSUME NEW f \in Fuentes, NEW p \in Lugares(f), Valida(f, p)
  PROVE  /\ Largo(f, p) \in Nat /\ Largos(f)[p] = Largo(f, p)
         /\ p \in Programa(f) => /\ En(f, p).op \in Codigos
                                 /\ Largo(f, p) = Tamanio(En(f, p).op) /\ Largo(f, p) >= 4
<1>1. Largos(f)[p] = Largo(f, p)
  BY DEF Largos
<1>2. CASE ~Sentencia(f, p)
  BY <1>1, <1>2 DEF Largo, Programa
<1>3. CASE Sentencia(f, p) /\ ~EsDato(f, p)
  <2>1. p \in Programa(f) /\ En(f, p).op \in Codigos
    BY <1>3 DEF Programa, Valida
  <2>2. Largo(f, p) = Tamanio(En(f, p).op)
    BY <1>3 DEF Largo
  <2> QED
    BY <1>1, <2>1, <2>2, LugarOrden
<1>4. CASE Sentencia(f, p) /\ EsDato(f, p)
  <2>1. En(f, p).tipo = "texto" => En(f, p).largo \in Nat
    BY LugaresSon DEF Lineas
  <2>2. Largo(f, p) \in Nat
    BY <1>4, <2>1 DEF Largo
  <2> QED
    BY <1>1, <1>4, <2>2 DEF Programa
<1> QED
  BY <1>2, <1>3, <1>4

\* The address of a line is the sum of the sizes of those before it.
LEMMA DireccionEs ==
  ASSUME NEW f, NEW p
  PROVE  Direccion(f, p) = Suma(Largos(f), Previos(f, p))
<1> DEFINE S == Previos(f, p)
           g == [q \in S |-> Largo(f, q)]
<1>1. Direccion(f, p) = FoldFunction(+, 0, g)
  BY DEF Direccion
<1>2. DOMAIN g = S
  OBVIOUS
<1>3. \A q \in S : g[q] = Largos(f)[q]
  BY DEF Largos, Previos
<1> HIDE DEF g, S
<1>4. FoldFunction(+, 0, g) = Suma(g, DOMAIN g)
  BY Zenon DEF FoldFunction, FoldFunctionOnSet, Suma, MapThenSumSet, MapThenFoldSet
<1>5. Suma(g, S) = Suma(Largos(f), S)
  BY <1>3, SumaIgual
<1> QED
  BY <1>1, <1>2, <1>4, <1>5 DEF S

\* Lines that can be translated, with all those before them.
Prefijo(f, L) ==
  /\ L \subseteq Lugares(f)
  /\ \A p \in L : Valida(f, p) /\ Previos(f, p) \subseteq L

\* They are finitely many, with a size each.
LEMMA PrefijoSuma ==
  ASSUME NEW f \in Fuentes, NEW L, Prefijo(f, L)
  PROVE  /\ IsFiniteSet(L) /\ Suma(Largos(f), L) \in Nat
         /\ \A x \in L : Largos(f)[x] \in Nat
         /\ \A M \in SUBSET L : Suma(Largos(f), M) \in Nat /\ Suma(Largos(f), M) <= Suma(Largos(f), L)
<1>1. IsFiniteSet(L)
  BY LugaresFinitos, FS_Subset DEF Prefijo
<1>2. \A x \in L : Largos(f)[x] \in Nat
  BY LargoTipo DEF Prefijo
<1>3. L \in SUBSET L
  OBVIOUS
<1> QED
  BY <1>1, <1>2, <1>3, SumaMonotona

\* The next line is at the sum of all of them, and each ends before it.
LEMMA DireccionOrden ==
  ASSUME NEW f \in Fuentes, NEW L, Prefijo(f, L), NEW p \in L
  PROVE  /\ Direccion(f, p) \in Nat /\ Largo(f, p) \in Nat
         /\ Direccion(f, p) + Largo(f, p) <= Suma(Largos(f), L)
         /\ \A q \in Lugares(f) : Antes(p, q) /\ Previos(f, q) \subseteq L =>
              Direccion(f, p) + Largo(f, p) <= Direccion(f, q)
<1> DEFINE S == Previos(f, p) \cup {p}
<1>1. Previos(f, p) \subseteq L /\ p \in Lugares(f) /\ S \in SUBSET L
  BY DEF Prefijo
<1>2. p \notin Previos(f, p)
  BY <1>1, OrdenTotal DEF Previos
<1>3. Largo(f, p) \in Nat /\ Largos(f)[p] = Largo(f, p)
  BY <1>1, LargoTipo DEF Prefijo
<1>4. Suma(Largos(f), S) = Direccion(f, p) + Largo(f, p) /\ Direccion(f, p) \in Nat
  <2>1. IsFiniteSet(S) /\ \A x \in S : Largos(f)[x] \in Int
    BY <1>1, PrefijoSuma, FS_Subset
  <2>2. S \ {p} = Previos(f, p) /\ p \in S
    BY <1>2
  <2> HIDE DEF S
  <2>3. Suma(Largos(f), S) = Largos(f)[p] + Suma(Largos(f), Previos(f, p))
    BY <2>1, <2>2, SumaSin
  <2>4. Suma(Largos(f), Previos(f, p)) \in Nat
    BY <1>1, PrefijoSuma
  <2> QED
    BY <1>3, <2>3, <2>4, DireccionEs
<1>5. ASSUME NEW q \in Lugares(f), Antes(p, q), Previos(f, q) \subseteq L
      PROVE  Suma(Largos(f), S) <= Direccion(f, q)
  <2>1. S \in SUBSET Previos(f, q)
    BY <1>1, <1>5, OrdenTotal DEF Previos
  <2>2. IsFiniteSet(Previos(f, q)) /\ \A x \in Previos(f, q) : Largos(f)[x] \in Nat
    BY <1>5, PrefijoSuma, FS_Subset
  <2> HIDE DEF S
  <2>3. Suma(Largos(f), S) <= Suma(Largos(f), Previos(f, q))
    BY <2>1, <2>2, SumaMonotona
  <2> QED
    BY <2>3, DireccionEs
<1>6. Suma(Largos(f), S) <= Suma(Largos(f), L)
  BY <1>1, PrefijoSuma
<1> QED
  BY <1>3, <1>4, <1>5, <1>6

\* No two lines share an address.
LEMMA SinSolape ==
  ASSUME NEW f \in Fuentes, NEW L, Prefijo(f, L), NEW p \in L, NEW q \in L,
         NEW i \in 0 .. Largo(f, p) - 1, NEW j \in 0 .. Largo(f, q) - 1,
         Direccion(f, p) + i = Direccion(f, q) + j
  PROVE  p = q /\ i = j
<1>1. p \in Lugares(f) /\ q \in Lugares(f) /\ Previos(f, p) \subseteq L /\ Previos(f, q) \subseteq L
  BY DEF Prefijo
<1>2. /\ Direccion(f, p) \in Nat /\ Largo(f, p) \in Nat
      /\ Direccion(f, q) \in Nat /\ Largo(f, q) \in Nat
  BY DireccionOrden
<1>3. ~Antes(p, q)
  <2>1. Antes(p, q) => Direccion(f, p) + Largo(f, p) <= Direccion(f, q)
    BY <1>1, DireccionOrden
  <2> QED
    BY <1>2, <2>1
<1>4. ~Antes(q, p)
  <2>1. Antes(q, p) => Direccion(f, q) + Largo(f, q) <= Direccion(f, p)
    BY <1>1, DireccionOrden
  <2> QED
    BY <1>2, <2>1
<1>5. p = q
  BY <1>1, <1>3, <1>4, OrdenTotal
<1> QED
  BY <1>2, <1>5

\* The k-th parameter of the instruction p is inside it, after its code.
LEMMA HuecoDentro ==
  ASSUME NEW f \in Fuentes, NEW L, Prefijo(f, L), NEW p \in L \cap Programa(f),
         NEW k \in DOMAIN Regla(En(f, p).op)
  PROVE  /\ k \in 1 .. 3 /\ Lugar(En(f, p).op, k) \in 4 .. Largo(f, p) - 1
         /\ Largo(f, p) = Tamanio(En(f, p).op)
         /\ \A j \in DOMAIN Regla(En(f, p).op) :
              Lugar(En(f, p).op, j) = Lugar(En(f, p).op, k) => j = k
<1> DEFINE op == En(f, p).op
           n == Len(Regla(op))
<1>1. op \in Codigos /\ Largo(f, p) = Tamanio(op) /\ Largo(f, p) \in Nat
  BY LargoTipo DEF Prefijo
<1>2. n \in 0 .. 3 /\ DOMAIN Regla(op) = 1 .. n
  BY <1>1, ReglaTipo
<1>3. Tamanio(op) = Lugar(op, n + 1)
  BY DEF Tamanio
<1>4. /\ \A j \in 1 .. n + 1 : Lugar(op, j) \in Nat /\ Lugar(op, j) >= 4
      /\ \A i, j \in 1 .. n + 1 : i < j => Lugar(op, i) < Lugar(op, j)
  BY <1>1, LugarOrden
<1> HIDE DEF op, n
<1>5. k \in 1 .. n
  BY <1>2 DEF op
<1>6. k \in 1 .. n + 1 /\ n + 1 \in 1 .. n + 1 /\ k < n + 1
  BY <1>2, <1>5
<1>7. Lugar(op, k) \in 4 .. Tamanio(op) - 1
  BY <1>3, <1>4, <1>6
<1>8. \A j \in 1 .. n : j \in 1 .. n + 1 /\ (j = k \/ j < k \/ k < j)
  BY <1>2, <1>5
<1>9. \A j \in 1 .. n : Lugar(op, j) = Lugar(op, k) => j = k
  BY <1>4, <1>6, <1>8
<1> QED
  BY <1>1, <1>2, <1>5, <1>7, <1>9 DEF op

\* Instructions come before data.
LEMMA DatosAlFinal ==
  ASSUME NEW f \in Fuentes, NEW p \in Programa(f), NEW q \in Lugares(f), EsDato(f, q)
  PROVE  Antes(p, q)
<1>1. p \in Lugares(f) /\ ~EsDato(f, p)
  BY DEF Programa
<1>2. PICK d \in Previos(f, q) : En(f, d).tipo = "data"
  BY DEF EsDato
<1>3. ~Antes(q, p)
  <2>1. Antes(q, p) => d \in Previos(f, p)
    BY <1>1, <1>2, OrdenTotal DEF Previos
  <2> QED
    BY <1>1, <1>2, <2>1 DEF EsDato
<1> QED
  BY <1>1, <1>3, OrdenTotal

-------------------------------------------------------------------------------
(* The table of labels *)

\* The indices of the entries with this text.
Con(texto, tabla) == {i \in 1 .. Len(tabla) : tabla[i].label = texto}

\* findLabel gives the first entry with the text, or 0.
LEMMA FindLabelEs ==
  ASSUME NEW tabla \in Seq(Entradas), NEW texto
  PROVE  /\ findLabel(texto, tabla) = IF Con(texto, tabla) # {} THEN Min(Con(texto, tabla)) ELSE 0
         /\ findLabel(texto, tabla) # 0 =>
              /\ findLabel(texto, tabla) \in DOMAIN tabla
              /\ tabla[findLabel(texto, tabla)].label = texto
<1>1. findLabel(texto, tabla) = IF Con(texto, tabla) # {} THEN Min(Con(texto, tabla)) ELSE 0
  BY Zenon DEF findLabel, SelectInSeq, Con
<1>2. Len(tabla) \in Nat /\ Con(texto, tabla) \in SUBSET (1 .. Len(tabla))
  BY DEF Con
<1>3. Con(texto, tabla) # {} => Min(Con(texto, tabla)) \in Con(texto, tabla)
  BY <1>2, MinDeIndices
<1>4. \A i \in Con(texto, tabla) : i \in DOMAIN tabla /\ tabla[i].label = texto
  BY DEF Con
<1> QED
  BY <1>1, <1>3, <1>4

\* It looks at nothing but the texts.
LEMMA FindLabelIgual ==
  ASSUME NEW t \in Seq(Entradas), NEW u \in Seq(Entradas), Len(t) = Len(u),
         \A i \in DOMAIN t : u[i].label = t[i].label, NEW texto
  PROVE  findLabel(texto, u) = findLabel(texto, t)
<1>1. Con(texto, u) = Con(texto, t)
  BY DEF Con
<1> QED
  BY <1>1, FindLabelEs

\* The first pass gives an entry without uses for every label of the file.
LEMMA TablaDeEs ==
  ASSUME NEW s \in Seq(Lineas)
  PROVE  /\ TablaDe(s) \in Seq(Entradas)
         /\ \A i \in DOMAIN TablaDe(s) :
              LET e == TablaDe(s)[i] IN
              /\ e.point = -1 /\ e.obs = <<>> /\ e.obsSize = 0
              /\ \E l \in DOMAIN s : s[l].tipo = "etiqueta" /\ e.label = Texto(s[l])
<1> DEFINE Recorrido(t, n) ==
             t = [m \in 0 .. n |-> IF m = 0 THEN <<>> ELSE addLabel(t[m - 1], s[m])]
           Nueva(e) == /\ e.point = -1 /\ e.obs = <<>> /\ e.obsSize = 0
                       /\ \E l \in DOMAIN s : s[l].tipo = "etiqueta" /\ e.label = Texto(s[l])
           Bien(u) == u \in Seq(Entradas) /\ \A i \in DOMAIN u : Nueva(u[i])
<1>1. Len(s) \in Nat /\ DOMAIN s = 1 .. Len(s)
  OBVIOUS
<1>2. \E t : Recorrido(t, Len(s))
  <2> DEFINE Hay(n) == \E t : Recorrido(t, n)
             W == {n \in 0 .. Len(s) : ~Hay(n)}
  <2>1. SUFFICES ASSUME W # {} PROVE FALSE
    <3>1. Len(s) \in 0 .. Len(s)
      BY <1>1
    <3> QED
      BY <3>1
  <2> HIDE DEF Hay
  <2>2. PICK n \in W : \A m \in W : n <= m
    <3>1. W \subseteq Nat
      BY <1>1
    <3> HIDE DEF W
    <3> QED
      BY <2>1, <3>1, MinimoNatural
  <2>3. n \in 0 .. Len(s) /\ ~Hay(n)
    OBVIOUS
  <2>4. n # 0
    <3>1. Hay(0)
      <4> DEFINE t == [m \in 0 .. 0 |-> <<>>]
      <4>1. Recorrido(t, 0)
        OBVIOUS
      <4> QED
        BY <4>1 DEF Hay
    <3> QED
      BY <2>3, <3>1
  <2>5. Hay(n - 1)
    <3>1. n - 1 \in 0 .. Len(s) /\ ~(n <= n - 1)
      BY <1>1, <2>3, <2>4
    <3>2. n - 1 \notin W
      BY <2>2, <3>1
    <3> QED
      BY <3>1, <3>2
  <2>6. PICK t : Recorrido(t, n - 1)
    BY <2>5 DEF Hay
  <2> DEFINE v == [m \in 0 .. n |-> IF m = n THEN addLabel(t[n - 1], s[n]) ELSE t[m]]
             w == [m \in 0 .. n |-> IF m = 0 THEN <<>> ELSE addLabel(v[m - 1], s[m])]
  <2>7. \A m \in 0 .. n - 1 : t[m] = IF m = 0 THEN <<>> ELSE addLabel(t[m - 1], s[m])
    BY <2>6
  <2>8. \A m \in 0 .. n : v[m] = w[m]
    <3> SUFFICES ASSUME NEW m \in 0 .. n PROVE v[m] = w[m]
      OBVIOUS
    <3>1. CASE m = n
      <4>1. n - 1 \in 0 .. n /\ n - 1 # n
        BY <1>1, <2>3, <2>4
      <4>2. v[n - 1] = t[n - 1]
        BY <4>1
      <4> QED
        BY <2>3, <2>4, <3>1, <4>2
    <3>2. CASE m # n
      <4>1. m \in 0 .. n - 1 /\ v[m] = t[m]
        BY <1>1, <2>3, <3>2
      <4>2. m # 0 => m - 1 \in 0 .. n /\ m - 1 # n
        BY <1>1, <2>3, <3>2
      <4>3. m # 0 => v[m - 1] = t[m - 1]
        BY <4>2
      <4> QED
        BY <2>7, <4>1, <4>3
    <3> QED
      BY <3>1, <3>2
  <2>9. v = w
    BY <2>8
  <2>10. Recorrido(v, n)
    BY <2>9
  <2> QED
    BY <2>3, <2>10 DEF Hay
<1> DEFINE t == CHOOSE t : Recorrido(t, Len(s))
<1>3. Recorrido(t, Len(s))
  BY <1>2, Zenon
<1>4. TablaDe(s) = t[Len(s)]
  BY Zenon DEF TablaDe
<1> HIDE DEF t
<1>5. \A m \in 0 .. Len(s) : t[m] = IF m = 0 THEN <<>> ELSE addLabel(t[m - 1], s[m])
  BY <1>3
<1>6. ASSUME NEW u, Bien(u), NEW l \in DOMAIN s
      PROVE  Bien(addLabel(u, s[l]))
  <2>1. CASE s[l].tipo # "etiqueta"
    BY <1>6, <2>1 DEF addLabel
  <2>2. CASE s[l].tipo = "etiqueta"
    <3> DEFINE e == [label |-> Texto(s[l]), point |-> -1, obs |-> <<>>, obsSize |-> 0]
    <3>1. s[l] \in Lineas
      BY <1>1, <1>6
    <3>2. s[l].nombre \in STRING /\ s[l].nota \in BOOLEAN
      BY <2>2, <3>1 DEF Lineas
    <3>3. Texto(s[l]) \in Seq(STRING \cup {"^"})
      <4> DEFINE S == STRING \cup {"^"}
                 x == s[l].nombre
                 y == "^"
      <4>1. x \in S /\ y \in S
        BY <3>2
      <4>2. Texto(s[l]) = <<x>> \/ Texto(s[l]) = <<x, y>>
        BY <3>2 DEF Texto
      <4> HIDE DEF S, x, y
      <4>3. <<x>> \in Seq(S) /\ <<x, y>> \in Seq(S)
        BY <4>1
      <4> QED
        BY <4>2, <4>3 DEF S
    <3>4. e \in Entradas /\ Nueva(e)
      BY <1>6, <2>2, <3>3 DEF Entradas
    <3>5. addLabel(u, s[l]) = Append(u, e)
      BY <2>2 DEF addLabel
    <3> HIDE DEF e, Nueva
    <3> QED
      BY <1>6, <3>4, <3>5
  <2> QED
    BY <2>1, <2>2
<1>7. Bien(<<>>)
  OBVIOUS
<1> HIDE DEF Bien
<1>8. \A m \in 0 .. Len(s) : Bien(t[m])
  <2> DEFINE W == {m \in 0 .. Len(s) : ~Bien(t[m])}
  <2>1. SUFFICES ASSUME W # {} PROVE FALSE
    OBVIOUS
  <2>2. PICK n \in W : \A m \in W : n <= m
    <3>1. W \subseteq Nat
      BY <1>1
    <3> HIDE DEF W
    <3> QED
      BY <2>1, <3>1, MinimoNatural
  <2>3. n \in 0 .. Len(s) /\ ~Bien(t[n])
    OBVIOUS
  <2>4. n # 0
    BY <1>5, <1>7, <2>3
  <2>5. n - 1 \in 0 .. Len(s) /\ ~(n <= n - 1) /\ n \in DOMAIN s
    BY <1>1, <2>3, <2>4
  <2>6. Bien(t[n - 1])
    BY <2>2, <2>5
  <2> QED
    BY <1>5, <1>6, <2>3, <2>4, <2>5, <2>6
<1>9. Bien(TablaDe(s))
  BY <1>1, <1>4, <1>8
<1> QED
  BY <1>9 DEF Bien

-------------------------------------------------------------------------------
(* The translation of an instruction *)

\* What the first k parameters of i have done to the labels, at m: those that refer to it.
Suyos(i, k, m) ==
  {j \in 1 .. k : i.parametros[j].t = "ref" /\ findLabel(<<i.parametros[j].nombre>>, labels) = m}

\* The item of the j-th parameter.
Escrito(i, j) ==
  IF Regla(i.op)[j] = "R" THEN Item("reg", i.parametros[j].r)
  ELSE Item("num", Numero(i.op, i.parametros[j], labels))

\* c is what the instruction i is after its code and its first k parameters.
Traducida(i, k, c) ==
  /\ DOMAIN c = {"dir", "tabla", "en"}
  /\ c.dir = position + Lugar(i.op, k + 1)
  /\ DOMAIN c.en = DOMAIN salida \cup {position} \cup {position + Lugar(i.op, j) : j \in 1 .. k}
  /\ \A d \in DOMAIN salida : c.en[d] = salida[d]
  /\ c.en[position] = Item("codigo", i.op)
  /\ \A j \in 1 .. k : c.en[position + Lugar(i.op, j)] = Escrito(i, j)
  /\ c.tabla \in Seq(Entradas) /\ Len(c.tabla) = Len(labels)
  /\ \A m \in DOMAIN labels :
       /\ c.tabla[m].label = labels[m].label /\ c.tabla[m].point = labels[m].point
       /\ IF labels[m].point # -1 THEN c.tabla[m] = labels[m]
          ELSE /\ c.tabla[m].obsSize = labels[m].obsSize + Cardinality(Suyos(i, k, m))
               /\ Range(c.tabla[m].obs) = Range(labels[m].obs) \cup
                                          {position + Lugar(i.op, j) : j \in Suyos(i, k, m)}

\* Before an instruction is translated.
Lista(i) ==
  /\ position \in Nat /\ DOMAIN salida \subseteq 0 .. position - 1 /\ labels \in Seq(Entradas)
  /\ i \in Lineas /\ ~Erronea(i)

\* What it takes for the instruction to be right.
LEMMA SinErrores ==
  ASSUME NEW i, Lista(i)
  PROVE  /\ i.tipo = "instruccion" /\ i.op \in Codigos /\ Len(Regla(i.op)) \in 0 .. 3
         /\ Len(Regla(i.op)) <= Len(i.parametros)
         /\ \A k \in 1 .. Len(Regla(i.op)) :
              /\ i.parametros[k] \in Argumentos
              /\ Regla(i.op)[k] \in {"R", "N"}
              /\ Regla(i.op)[k] = "R" => i.parametros[k].t = "reg"
              /\ Regla(i.op)[k] = "N" /\ i.parametros[k].t = "ref" =>
                   /\ findLabel(<<i.parametros[k].nombre>>, labels) \in DOMAIN labels
                   /\ labels[findLabel(<<i.parametros[k].nombre>>, labels)].label
                        = <<i.parametros[k].nombre>>
<1>1. i.tipo = "instruccion" /\ i.op \in Codigos /\ Len(Regla(i.op)) <= Len(i.parametros)
  <2>1. i.tipo = "instruccion"
    BY DEF Lista, Erronea
  <2>2. i.parametros \in Seq(Argumentos)
    BY <2>1 DEF Lista, Lineas
  <2>3. i.op \in Codigos /\ ~(Len(i.parametros) < Len(Regla(i.op)))
    BY <2>1 DEF Lista, Erronea
  <2>4. Len(i.parametros) \in Nat /\ Len(Regla(i.op)) \in Nat
    BY <2>2, <2>3, ReglaTipo
  <2> QED
    BY <2>1, <2>3, <2>4
<1>2. Len(Regla(i.op)) \in 0 .. 3 /\ DOMAIN Regla(i.op) = 1 .. Len(Regla(i.op))
  BY <1>1, ReglaTipo
<1>3. i.parametros \in Seq(Argumentos)
  BY <1>1 DEF Lista, Lineas
<1>4. \A k \in 1 .. Len(Regla(i.op)) : i.parametros[k] \in Argumentos /\ Regla(i.op)[k] \in {"R", "N"}
  BY <1>1, <1>2, <1>3, ReglaTipo
<1>5. ASSUME NEW k \in 1 .. Len(Regla(i.op))
      PROVE  /\ Regla(i.op)[k] = "R" => i.parametros[k].t = "reg"
             /\ Regla(i.op)[k] = "N" /\ i.parametros[k].t = "ref" =>
                  findLabel(<<i.parametros[k].nombre>>, labels) # 0
  BY <1>1, <1>2, <1>5 DEF Lista, Erronea
<1>6. labels \in Seq(Entradas)
  BY DEF Lista
<1> QED
  BY <1>1, <1>2, <1>4, <1>5, <1>6, FindLabelEs

\* Suscribe changes only the entry of a label that has no address yet.
LEMMA SuscribeEs ==
  ASSUME NEW t \in Seq(Entradas), NEW i \in DOMAIN t, NEW d \in Nat
  PROVE  /\ Suscribe(t, i, d) \in Seq(Entradas) /\ Len(Suscribe(t, i, d)) = Len(t)
         /\ \A m \in DOMAIN t :
              /\ Suscribe(t, i, d)[m].label = t[m].label
              /\ Suscribe(t, i, d)[m].point = t[m].point
              /\ m # i \/ t[m].point # -1 => Suscribe(t, i, d)[m] = t[m]
<1> DEFINE u == Suscribe(t, i, d)
           e == [t[i] EXCEPT !.obs = Append(@, d), !.obsSize = @ + 1]
<1>1. t[i] \in Entradas
  OBVIOUS
<1>2. CASE t[i].point # -1
  <2>1. u = t
    BY <1>2 DEF Suscribe
  <2> QED
    BY <1>2, <2>1
<1>3. CASE t[i].point = -1
  <2>1. Append(t[i].obs, d) \in Seq(Nat) /\ t[i].obsSize + 1 \in Int
    BY <1>1 DEF Entradas
  <2>2. e \in Entradas /\ e.label = t[i].label /\ e.point = t[i].point
    BY <1>1, <2>1 DEF Entradas
  <2>3. u = [t EXCEPT ![i] = e]
    BY <1>3 DEF Suscribe
  <2> HIDE DEF u, e
  <2>4. u \in Seq(Entradas) /\ Len(u) = Len(t) /\ u[i] = e /\ \A m \in DOMAIN t : m # i => u[m] = t[m]
    BY <2>2, <2>3
  <2> QED
    BY <1>3, <2>2, <2>4 DEF u
<1> QED
  BY <1>2, <1>3

\* The entry of a label still to come gets the place, and one more of them.
LEMMA SuscribeCrece ==
  ASSUME NEW t \in Seq(Entradas), NEW i \in DOMAIN t, NEW d \in Nat, t[i].point = -1
  PROVE  /\ Suscribe(t, i, d)[i].obsSize = t[i].obsSize + 1
         /\ Suscribe(t, i, d)[i].obs = Append(t[i].obs, d)
         /\ t[i].obs \in Seq(Nat)
<1> DEFINE e == [t[i] EXCEPT !.obs = Append(@, d), !.obsSize = @ + 1]
<1>1. t[i] \in Entradas
  OBVIOUS
<1>2. Suscribe(t, i, d) = [t EXCEPT ![i] = e]
  BY DEF Suscribe
<1>3. e.obsSize = t[i].obsSize + 1 /\ e.obs = Append(t[i].obs, d) /\ t[i].obs \in Seq(Nat)
  BY <1>1 DEF Entradas
<1> HIDE DEF e
<1> QED
  BY <1>2, <1>3

\* Before the parameters.
Comienzo(i) == [dir |-> position + 4, tabla |-> labels,
                en |-> save(salida, position, Item("codigo", i.op))]

\* Escrita goes through the parameters, of which there are three at most.
LEMMA EscritaEs ==
  ASSUME NEW i, i.op \in Codigos
  PROVE  \E c : /\ c[0] = Comienzo(i) /\ Escrita(i) = c[Len(Regla(i.op))]
                /\ \A k \in 1 .. Len(Regla(i.op)) : c[k] = Parametro(i, c[k - 1], k)
<1> DEFINE n == Len(Regla(i.op))
           Recorrido(c) == c = [k \in 0 .. n |-> IF k = 0 THEN Comienzo(i)
                                                 ELSE Parametro(i, c[k - 1], k)]
           p1 == Parametro(i, Comienzo(i), 1)
           p2 == Parametro(i, p1, 2)
           p3 == Parametro(i, p2, 3)
           v == [k \in 0 .. n |-> IF k = 0 THEN Comienzo(i) ELSE
                                  IF k = 1 THEN p1 ELSE IF k = 2 THEN p2 ELSE p3]
           w == [k \in 0 .. n |-> IF k = 0 THEN Comienzo(i) ELSE Parametro(i, v[k - 1], k)]
<1>1. n \in 0 .. 3
  BY ReglaTipo
<1>2. \A k \in 0 .. n : v[k] = w[k]
  <2> SUFFICES ASSUME NEW k \in 0 .. n PROVE v[k] = w[k]
    OBVIOUS
  <2> HIDE DEF n, p1, p2, p3
  <2>1. k \in {0, 1, 2, 3}
    BY <1>1
  <2>2. CASE k = 0
    BY <2>2
  <2>3. CASE k = 1
    <3>1. v[0] = Comienzo(i)
      BY <1>1
    <3> QED
      BY <2>3, <3>1 DEF p1
  <2>4. CASE k = 2
    <3>1. v[1] = p1
      BY <1>1, <2>4
    <3> QED
      BY <2>4, <3>1 DEF p2
  <2>5. CASE k = 3
    <3>1. v[2] = p2
      BY <1>1, <2>5
    <3> QED
      BY <2>5, <3>1 DEF p3
  <2> QED
    BY <2>1, <2>2, <2>3, <2>4, <2>5
<1>3. Recorrido(v)
  BY <1>2
<1> DEFINE c == CHOOSE c : Recorrido(c)
<1>4. Recorrido(c)
  BY <1>3, Zenon
<1>5. Escrita(i) = c[n]
  BY Zenon DEF Escrita, Comienzo
<1> HIDE DEF c, n
<1>6. c[0] = Comienzo(i) /\ \A k \in 1 .. n : c[k] = Parametro(i, c[k - 1], k)
  BY <1>1, <1>4
<1> QED
  BY <1>5, <1>6 DEF n

\* A parameter more.
LEMMA ParametroPaso ==
  ASSUME NEW i, Lista(i), NEW k \in 1 .. Len(Regla(i.op)), NEW c, Traducida(i, k - 1, c)
  PROVE  Traducida(i, k, Parametro(i, c, k))
<1> DEFINE op == i.op
           n == Len(Regla(op))
           x == i.parametros[k]
           e == Parametro(i, c, k)
           d == position + Lugar(op, k)
           r == findLabel(<<x.nombre>>, labels)
<1>1. /\ op \in Codigos /\ n \in 0 .. 3 /\ k \in 1 .. n
      /\ Regla(op)[k] \in {"R", "N"}
      /\ Regla(op)[k] = "R" => x.t = "reg"
      /\ Regla(op)[k] = "N" /\ x.t = "ref" => r \in DOMAIN labels
  BY SinErrores
<1>2. /\ position \in Nat /\ DOMAIN salida \subseteq 0 .. position - 1 /\ labels \in Seq(Entradas)
      /\ DOMAIN labels = 1 .. Len(labels) /\ Len(labels) \in Nat
  BY DEF Lista
<1>3. c.dir = d
  BY <1>1 DEF Traducida
<1>4. /\ \A j \in 1 .. n + 1 : Lugar(op, j) \in Nat /\ Lugar(op, j) >= 4
      /\ \A j \in 1 .. k - 1 : Lugar(op, j) < Lugar(op, k)
      /\ Lugar(op, k + 1) = Lugar(op, k) + (IF Regla(op)[k] = "R" THEN 1 ELSE 4)
  <2>1. \A j, l \in 1 .. n + 1 : j < l => Lugar(op, j) < Lugar(op, l)
    BY <1>1, LugarOrden
  <2>2. \A j \in 1 .. n + 1 : Lugar(op, j) \in Nat /\ Lugar(op, j) >= 4
    BY <1>1, LugarOrden
  <2>3. k \in 1 .. n + 1 /\ \A j \in 1 .. k - 1 : j \in 1 .. n + 1 /\ j < k
    BY <1>1
  <2> QED
    BY <1>1, <2>1, <2>2, <2>3, LugarPaso
<1>5. d \in Nat /\ d > position /\ d \notin DOMAIN salida /\ \A j \in 1 .. k - 1 : position + Lugar(op, j) # d
  <2>1. k \in 1 .. n + 1 /\ k \in Int /\ \A j \in 1 .. k - 1 : j \in 1 .. n + 1
    BY <1>1
  <2>2. /\ Lugar(op, k) \in Nat /\ Lugar(op, k) >= 4
        /\ \A j \in 1 .. k - 1 : Lugar(op, j) \in Nat /\ Lugar(op, j) < Lugar(op, k)
    BY <1>4, <2>1
  <2>3. position \in Nat /\ \A z \in DOMAIN salida : z \in Nat /\ z < position
    BY <1>2
  <2>4. d \in Nat /\ d > position
    BY <2>2, <2>3
  <2>5. d \notin DOMAIN salida
    BY <2>3, <2>4
  <2>6. \A j \in 1 .. k - 1 : position + Lugar(op, j) # d
    BY <2>2, <2>3
  <2> QED
    BY <2>4, <2>5, <2>6
<1>6. \A y : findLabel(<<y>>, c.tabla) = findLabel(<<y>>, labels)
  BY <1>2, FindLabelIgual DEF Traducida
<1>7. e.dir = position + Lugar(op, k + 1) /\ e.en = save(c.en, d, Escrito(i, k))
      /\ e.tabla = (IF x.t # "ref" THEN c.tabla ELSE Suscribe(c.tabla, r, d))
      /\ DOMAIN e = {"dir", "tabla", "en"}
  <2>1. CASE Regla(op)[k] = "R"
    <3>1. e = [c EXCEPT !.dir = @ + 1, !.en = save(@, c.dir, Item("reg", x.r))]
      BY <2>1 DEF Parametro
    <3>2. e.dir = c.dir + 1 /\ e.en = save(c.en, c.dir, Item("reg", x.r)) /\ e.tabla = c.tabla
          /\ DOMAIN e = {"dir", "tabla", "en"}
      BY <3>1 DEF Traducida
    <3>3. Escrito(i, k) = Item("reg", x.r)
      BY <2>1 DEF Escrito
    <3>4. c.dir + 1 = position + Lugar(op, k + 1)
      <4>1. k \in 1 .. n + 1
        BY <1>1
      <4> QED
        BY <1>2, <1>3, <1>4, <2>1, <4>1
    <3>5. x.t # "ref"
      BY <1>1, <2>1
    <3> QED
      BY <1>3, <3>2, <3>3, <3>4, <3>5
  <2>2. CASE Regla(op)[k] = "N"
    <3>1. e = [dir |-> c.dir + 4, en |-> save(c.en, c.dir, Item("num", Numero(op, x, c.tabla))),
               tabla |-> IF x.t # "ref" THEN c.tabla
                         ELSE Suscribe(c.tabla, findLabel(<<x.nombre>>, c.tabla), c.dir)]
      BY <2>2 DEF Parametro
    <3>2. Numero(op, x, c.tabla) = Numero(op, x, labels)
      <4>1. x.t = "ref" => c.tabla[r].point = labels[r].point
        BY <1>1, <2>2 DEF Traducida
      <4> QED
        BY <1>6, <4>1 DEF Numero
    <3>3. Escrito(i, k) = Item("num", Numero(op, x, labels))
      BY <2>2 DEF Escrito
    <3>4. c.dir + 4 = position + Lugar(op, k + 1)
      <4>1. k \in 1 .. n + 1
        BY <1>1
      <4> QED
        BY <1>2, <1>3, <1>4, <2>2, <4>1
    <3>5. findLabel(<<x.nombre>>, c.tabla) = r
      BY <1>6
    <3> HIDE DEF e, r, d, x
    <3> QED
      BY <1>3, <3>1, <3>2, <3>3, <3>4, <3>5
  <2> QED
    BY <1>1, <2>1, <2>2
<1> HIDE DEF e
<1>8. /\ DOMAIN e.en = DOMAIN salida \cup {position} \cup {position + Lugar(op, j) : j \in 1 .. k}
      /\ \A a \in DOMAIN salida : e.en[a] = salida[a]
      /\ e.en[position] = Item("codigo", op)
      /\ \A j \in 1 .. k : e.en[position + Lugar(op, j)] = Escrito(i, j)
  <2> DEFINE L(j) == position + Lugar(op, j)
             u == c.en
             v == e.en
  <2>1. /\ DOMAIN u = DOMAIN salida \cup {position} \cup {L(j) : j \in 1 .. k - 1}
        /\ \A a \in DOMAIN salida : u[a] = salida[a]
        /\ u[position] = Item("codigo", op)
        /\ \A j \in 1 .. k - 1 : u[L(j)] = Escrito(i, j)
    BY DEF Traducida
  <2>2. v = save(u, d, Escrito(i, k)) /\ d = L(k)
    BY <1>7
  <2>3. d \notin DOMAIN salida /\ d # position /\ \A j \in 1 .. k - 1 : L(j) # d
    BY <1>2, <1>5
  <2>4. \A j \in 1 .. k : j = k \/ j \in 1 .. k - 1
    BY <1>1
  <2>5. \A j \in 1 .. k - 1 : j \in 1 .. k
    BY <1>1
  <2>6. k \in 1 .. k
    BY <1>1
  <2> HIDE DEF L, u, v, d
  <2>7. DOMAIN v = DOMAIN u \cup {d} /\ v[d] = Escrito(i, k) /\ \A a \in DOMAIN u : a # d => v[a] = u[a]
    BY <2>2 DEF save
  <2>8. DOMAIN v = DOMAIN salida \cup {position} \cup {L(j) : j \in 1 .. k}
    BY <2>1, <2>2, <2>4, <2>5, <2>6, <2>7
  <2>9. \A j \in 1 .. k : v[L(j)] = Escrito(i, j)
    <3> SUFFICES ASSUME NEW j \in 1 .. k PROVE v[L(j)] = Escrito(i, j)
      OBVIOUS
    <3>1. CASE j = k
      BY <2>2, <2>7, <3>1
    <3>2. CASE j \in 1 .. k - 1
      BY <2>1, <2>3, <2>7, <3>2
    <3> QED
      BY <2>4, <3>1, <3>2
  <2>10. /\ \A a \in DOMAIN salida : v[a] = salida[a]
         /\ v[position] = Item("codigo", op)
    BY <2>1, <2>3, <2>7
  <2> QED
    BY <2>8, <2>9, <2>10 DEF L, v
<1>9. ASSUME NEW m \in DOMAIN labels
      PROVE  /\ x.t = "ref" /\ m = r => /\ Suyos(i, k, m) = Suyos(i, k - 1, m) \cup {k}
                                        /\ Cardinality(Suyos(i, k, m)) = Cardinality(Suyos(i, k - 1, m)) + 1
             /\ ~(x.t = "ref" /\ m = r) => Suyos(i, k, m) = Suyos(i, k - 1, m)
             /\ Cardinality(Suyos(i, k - 1, m)) \in Nat
  <2>1. 1 .. k = (1 .. k - 1) \cup {k} /\ k \notin 1 .. k - 1
    BY <1>1
  <2>2. IsFiniteSet(1 .. k - 1) /\ Suyos(i, k - 1, m) \in SUBSET (1 .. k - 1)
    <3>1. IsFiniteSet(1 .. k - 1)
      BY <1>1, FS_Interval
    <3> QED
      BY <3>1 DEF Suyos
  <2>3. IsFiniteSet(Suyos(i, k - 1, m)) /\ Cardinality(Suyos(i, k - 1, m)) \in Nat
    BY <2>2, CardinalMonotono
  <2>4. x.t = "ref" /\ m = r => Suyos(i, k, m) = Suyos(i, k - 1, m) \cup {k} /\ k \notin Suyos(i, k - 1, m)
    BY <2>1 DEF Suyos
  <2>5. ~(x.t = "ref" /\ m = r) => Suyos(i, k, m) = Suyos(i, k - 1, m)
    BY <2>1 DEF Suyos
  <2>6. x.t = "ref" /\ m = r => Cardinality(Suyos(i, k, m)) = Cardinality(Suyos(i, k - 1, m)) + 1
    <3> SUFFICES ASSUME x.t = "ref", m = r PROVE Cardinality(Suyos(i, k, m)) = Cardinality(Suyos(i, k - 1, m)) + 1
      OBVIOUS
    <3> DEFINE S == Suyos(i, k - 1, m)
    <3>1. Suyos(i, k, m) = S \cup {k} /\ k \notin S
      BY <2>4
    <3> HIDE DEF S
    <3>2. Cardinality(S \cup {k}) = Cardinality(S) + 1
      BY <2>3, <3>1, FS_AddElement DEF S
    <3> QED
      BY <3>1, <3>2 DEF S
  <2> QED
    BY <2>3, <2>4, <2>5, <2>6
<1>10. /\ e.tabla \in Seq(Entradas) /\ Len(e.tabla) = Len(labels)
       /\ \A m \in DOMAIN labels :
            /\ e.tabla[m].label = labels[m].label /\ e.tabla[m].point = labels[m].point
            /\ IF labels[m].point # -1 THEN e.tabla[m] = labels[m]
               ELSE /\ e.tabla[m].obsSize = labels[m].obsSize + Cardinality(Suyos(i, k, m))
                    /\ Range(e.tabla[m].obs) = Range(labels[m].obs) \cup
                                               {position + Lugar(op, j) : j \in Suyos(i, k, m)}
  <2> DEFINE t == c.tabla
             u == e.tabla
             Z(j, m) == {position + Lugar(op, l) : l \in Suyos(i, j, m)}
  <2>1. /\ t \in Seq(Entradas) /\ Len(t) = Len(labels)
        /\ \A m \in DOMAIN labels :
             /\ t[m].label = labels[m].label /\ t[m].point = labels[m].point
             /\ IF labels[m].point # -1 THEN t[m] = labels[m]
                ELSE /\ t[m].obsSize = labels[m].obsSize + Cardinality(Suyos(i, k - 1, m))
                     /\ Range(t[m].obs) = Range(labels[m].obs) \cup Z(k - 1, m)
    BY DEF Traducida
  <2>2. CASE x.t # "ref"
    <3>1. u = t
      BY <1>7, <2>2
    <3>2. \A m \in DOMAIN labels : Suyos(i, k, m) = Suyos(i, k - 1, m)
      BY <1>9, <2>2
    <3> HIDE DEF t, u
    <3> QED
      BY <2>1, <3>1, <3>2 DEF u
  <2>3. CASE x.t = "ref"
    <3>1. r \in DOMAIN labels /\ r \in DOMAIN t
      BY <1>1, <1>2, <2>1, <2>3
    <3>2. u = Suscribe(t, r, d)
      BY <1>7, <2>3
    <3> HIDE DEF t, u, r, d
    <3>3. /\ u \in Seq(Entradas) /\ Len(u) = Len(t)
          /\ \A m \in DOMAIN t :
               /\ u[m].label = t[m].label /\ u[m].point = t[m].point
               /\ m # r \/ t[m].point # -1 => u[m] = t[m]
          /\ t[r].point = -1 => /\ u[r].obsSize = t[r].obsSize + 1
                                /\ Range(u[r].obs) = Range(t[r].obs) \cup {d}
      <4>1. t \in Seq(Entradas) /\ r \in DOMAIN t /\ d \in Nat
        BY <1>5, <2>1, <3>1
      <4>2. Suscribe(t, r, d) \in Seq(Entradas) /\ Len(Suscribe(t, r, d)) = Len(t)
        BY <4>1, SuscribeEs
      <4>3. \A m \in DOMAIN t :
              /\ Suscribe(t, r, d)[m].label = t[m].label
              /\ Suscribe(t, r, d)[m].point = t[m].point
              /\ m # r \/ t[m].point # -1 => Suscribe(t, r, d)[m] = t[m]
        BY <4>1, SuscribeEs
      <4>4. ASSUME t[r].point = -1
            PROVE  /\ u[r].obsSize = t[r].obsSize + 1
                   /\ Range(u[r].obs) = Range(t[r].obs) \cup {d}
        <5>1. /\ u[r].obsSize = t[r].obsSize + 1 /\ u[r].obs = Append(t[r].obs, d)
              /\ t[r].obs \in Seq(Nat)
          BY <3>2, <4>1, <4>4, SuscribeCrece
        <5> DEFINE o == t[r].obs
        <5>2. o \in Seq(Nat) /\ d \in Nat
          BY <4>1, <5>1
        <5> HIDE DEF o
        <5>3. Range(Append(o, d)) = Range(o) \cup {d}
          BY <5>2, RangoAppend
        <5> QED
          BY <5>1, <5>3 DEF o
      <4> QED
        BY <3>2, <4>2, <4>3, <4>4, Zenon
    <3>4. DOMAIN t = DOMAIN labels
      BY <1>2, <2>1
    <3>5. ASSUME NEW m \in DOMAIN labels
          PROVE  /\ u[m].label = labels[m].label /\ u[m].point = labels[m].point
                 /\ IF labels[m].point # -1 THEN u[m] = labels[m]
                    ELSE /\ u[m].obsSize = labels[m].obsSize + Cardinality(Suyos(i, k, m))
                         /\ Range(u[m].obs) = Range(labels[m].obs) \cup Z(k, m)
      <4>1. u[m].label = labels[m].label /\ u[m].point = labels[m].point
        BY <2>1, <3>3, <3>4
      <4>2. CASE labels[m].point # -1
        <5>1. t[m] = labels[m] /\ u[m] = t[m]
          BY <2>1, <3>3, <3>4, <4>2
        <5> QED
          BY <4>1, <4>2, <5>1
      <4>3. CASE labels[m].point = -1 /\ m # r
        <5>1. Suyos(i, k, m) = Suyos(i, k - 1, m)
          BY <1>9, <4>3
        <5>2. u[m] = t[m]
          BY <3>3, <3>4, <4>3
        <5>3. Z(k, m) = Z(k - 1, m)
          BY <5>1
        <5> HIDE DEF Z
        <5> QED
          BY <2>1, <4>1, <4>3, <5>1, <5>2, <5>3
      <4>4. CASE labels[m].point = -1 /\ m = r
        <5>1. /\ Suyos(i, k, r) = Suyos(i, k - 1, r) \cup {k}
              /\ Cardinality(Suyos(i, k, r)) = Cardinality(Suyos(i, k - 1, r)) + 1
              /\ Cardinality(Suyos(i, k - 1, r)) \in Nat
          BY <1>9, <2>3, <3>1
        <5>2. Z(k, r) = Z(k - 1, r) \cup {d}
          BY <5>1 DEF d
        <5>3. labels[r].obsSize \in Int
          <6>1. labels[r] \in Entradas
            BY <1>2, <3>1
          <6> QED
            BY <6>1 DEF Entradas
        <5> HIDE DEF Z
        <5>4. /\ t[r].point = -1 /\ t[r].obsSize = labels[r].obsSize + Cardinality(Suyos(i, k - 1, r))
              /\ Range(t[r].obs) = Range(labels[r].obs) \cup Z(k - 1, r)
          BY <2>1, <3>1, <4>4
        <5>5. u[r].obsSize = t[r].obsSize + 1 /\ Range(u[r].obs) = Range(t[r].obs) \cup {d}
          BY <3>3, <5>4
        <5>6. u[r].obsSize = labels[r].obsSize + Cardinality(Suyos(i, k, r))
          BY <5>1, <5>3, <5>4, <5>5
        <5>7. Range(u[r].obs) = Range(labels[r].obs) \cup Z(k, r)
          BY <5>2, <5>4, <5>5
        <5> QED
          BY <4>1, <4>4, <5>6, <5>7
      <4> QED
        BY <4>2, <4>3, <4>4
    <3> QED
      BY <2>1, <3>3, <3>5 DEF u
  <2> QED
    BY <2>2, <2>3
<1> QED
  BY <1>7, <1>8, <1>10 DEF Traducida, e

\* The whole instruction.
LEMMA EscritaTraduce ==
  ASSUME NEW i, Lista(i)
  PROVE  Traducida(i, Len(Regla(i.op)), Escrita(i))
<1> DEFINE n == Len(Regla(i.op))
<1>1. i.op \in Codigos /\ n \in 0 .. 3
  BY SinErrores
<1>2. PICK c : /\ c[0] = Comienzo(i) /\ Escrita(i) = c[n]
               /\ \A k \in 1 .. n : c[k] = Parametro(i, c[k - 1], k)
  BY <1>1, EscritaEs
<1> HIDE DEF n
<1>3. Traducida(i, 0, c[0])
  <2> DEFINE s == save(salida, position, Item("codigo", i.op))
             b == c[0]
  <2>1. position \in Nat /\ position \notin DOMAIN salida /\ labels \in Seq(Entradas)
    BY DEF Lista
  <2>2. /\ DOMAIN s = DOMAIN salida \cup {position} /\ s[position] = Item("codigo", i.op)
        /\ \A a \in DOMAIN salida : s[a] = salida[a]
    BY <2>1 DEF save
  <2>3. b.dir = position + 4 /\ b.tabla = labels /\ b.en = s /\ DOMAIN b = {"dir", "tabla", "en"}
    BY <1>2 DEF Comienzo
  <2>4. Lugar(i.op, 0 + 1) = 4
    BY <1>1, LugarOrden
  <2>5. 1 .. 0 = {}
    OBVIOUS
  <2>6. \A m : Suyos(i, 0, m) = {}
    BY <2>5 DEF Suyos
  <2>7. \A m : Cardinality(Suyos(i, 0, m)) = 0 /\ {position + Lugar(i.op, j) : j \in Suyos(i, 0, m)} = {}
    BY <2>6, FS_EmptySet
  <2>8. \A m \in DOMAIN labels : labels[m].obsSize \in Int
    <3>1. \A m \in DOMAIN labels : labels[m] \in Entradas
      BY <2>1
    <3> QED
      BY <3>1 DEF Entradas
  <2>9. {position + Lugar(i.op, j) : j \in 1 .. 0} = {}
    BY <2>5
  <2> HIDE DEF s, b
  <2>10. Traducida(i, 0, b)
    BY <2>1, <2>2, <2>3, <2>4, <2>5, <2>7, <2>8, <2>9 DEF Traducida
  <2> QED
    BY <2>10 DEF b
<1>4. ASSUME NEW k \in 1 .. n, Traducida(i, k - 1, c[k - 1])
      PROVE  Traducida(i, k, c[k])
  BY <1>2, <1>4, ParametroPaso DEF n
<1>5. n = 0 \/ n = 1 \/ n = 2 \/ n = 3
  BY <1>1
<1>6. n >= 1 => Traducida(i, 1, c[1])
  <2>1. n >= 1 => 1 \in 1 .. n /\ 1 - 1 = 0
    BY <1>1
  <2> QED
    BY <1>3, <1>4, <2>1
<1>7. n >= 2 => Traducida(i, 2, c[2])
  <2>1. n >= 2 => 2 \in 1 .. n /\ 2 - 1 = 1 /\ n >= 1
    BY <1>1
  <2> QED
    BY <1>4, <1>6, <2>1
<1>8. n >= 3 => Traducida(i, 3, c[3])
  <2>1. n >= 3 => 3 \in 1 .. n /\ 3 - 1 = 2 /\ n >= 2
    BY <1>1
  <2> QED
    BY <1>4, <1>7, <2>1
<1>9. Traducida(i, n, c[n])
  BY <1>3, <1>5, <1>6, <1>7, <1>8
<1> QED
  BY <1>2, <1>9 DEF n

-------------------------------------------------------------------------------
(* Steps from a line to the next one *)

\* In the second pass the lines read are those before the present one.
LEMMA AcaEsta ==
  ASSUME Tipos
  PROVE  /\ Aca \in Lugares(fuente) /\ En(fuente, Aca) = Linea /\ Linea \in Lineas
         /\ Aca[1] = archivo /\ Aca[2] = linea
         /\ estado \in {"etiquetas", "traduce"} => Leidas = Previos(fuente, Aca)
<1>1. fuente \in Fuentes /\ archivo \in DOMAIN fuente /\ linea \in DOMAIN fuente[archivo]
  BY DEF Tipos
<1>2. Aca \in Lugares(fuente) /\ Aca[1] = archivo /\ Aca[2] = linea
  BY <1>1, LugaresSon DEF Aca
<1>3. En(fuente, Aca) = Linea
  BY <1>2 DEF En, Linea
<1>4. En(fuente, Aca) \in Lineas
  BY <1>1, <1>2, LugaresSon
<1> QED
  BY <1>2, <1>3, <1>4 DEF Leidas

\* With those of a live assembler the lines read can be translated.
LEMMA LeidasPrefijo ==
  ASSUME Tipos, Avance, Vive
  PROVE  Prefijo(fuente, Leidas)
<1>1. fuente \in Fuentes /\ \A p \in Leidas : Valida(fuente, p)
  BY DEF Tipos, Avance
<1>2. CASE estado \in {"etiquetas", "traduce"}
  <2>1. Leidas = Previos(fuente, Aca) /\ Aca \in Lugares(fuente)
    BY <1>2, AcaEsta
  <2>2. \A p \in Leidas : Previos(fuente, p) \subseteq Leidas
    BY <1>1, <2>1, OrdenTotal DEF Previos
  <2> QED
    BY <1>1, <2>1, <2>2 DEF Prefijo, Previos
<1>3. CASE estado \notin {"etiquetas", "traduce"}
  BY <1>1, <1>3 DEF Prefijo, Leidas, Previos
<1> QED
  BY <1>2, <1>3

\* Pasa goes on to the line that follows, of this file or of the next one, or ends.
LEMMA PasaEs ==
  ASSUME Tipos, estado = "traduce", Pasa, fuente' = fuente
  PROVE  /\ archivo' \in DOMAIN fuente /\ linea' \in DOMAIN fuente[archivo']
         /\ estado' \in {"traduce", "etiquetas", "listo"}
         /\ estado' = "etiquetas" => linea' = 1
         /\ estado' = "traduce" => archivo' = archivo
         /\ Leidas' = Leidas \cup {Aca}
         /\ estado' # "listo" => Previos(fuente, Aca') = Leidas \cup {Aca}
<1> DEFINE f == fuente
           a == archivo
           l == linea
           L == Previos(f, Aca) \cup {Aca}
<1>1. f \in Fuentes /\ a \in DOMAIN f /\ l \in DOMAIN f[a]
  BY DEF Tipos
<1>2. /\ Len(f) \in Nat /\ DOMAIN f = 1 .. Len(f) /\ Len(f) >= 1
      /\ \A b \in DOMAIN f : Len(f[b]) \in Nat /\ DOMAIN f[b] = 1 .. Len(f[b]) /\ Len(f[b]) >= 1
  BY <1>1, FuenteTipos
<1>3. /\ \A p \in Lugares(f) : p = <<p[1], p[2]>> /\ p[1] \in DOMAIN f /\ p[2] \in DOMAIN f[p[1]]
      /\ \A b \in DOMAIN f : \A m \in DOMAIN f[b] : <<b, m>> \in Lugares(f)
  BY <1>1, LugaresSon
<1>4. Aca = <<a, l>> /\ Aca \in Lugares(f) /\ Leidas = Previos(f, Aca)
  BY AcaEsta DEF Aca
<1>5. Leidas' = (IF estado' \in {"etiquetas", "traduce"} THEN Previos(f, Aca') ELSE Lugares(f))
      /\ Aca' = <<archivo', linea'>>
  BY DEF Leidas, Aca
<1>6. a \in 1 .. Len(f) /\ l \in 1 .. Len(f[a])
  BY <1>1, <1>2
<1>7. CASE l < Len(f[a])
  <2>1. linea' = l + 1 /\ archivo' = a /\ estado' = "traduce"
    BY <1>7 DEF Pasa
  <2>2. l + 1 \in DOMAIN f[a]
    BY <1>1, <1>2, <1>6, <1>7
  <2>3. Previos(f, <<a, l + 1>>) = L
    <3>1. \A p \in Lugares(f) : p[1] \in Nat /\ p[2] \in Nat
      BY <1>1, LugaresSon
    <3>2. \A p \in Lugares(f) : Antes(p, <<a, l + 1>>) <=> Antes(p, <<a, l>>) \/ p = <<a, l>>
      BY <1>2, <1>3, <1>6, <3>1 DEF Antes
    <3> QED
      BY <1>4, <3>2 DEF Previos
  <2> QED
    BY <1>1, <1>4, <1>5, <2>1, <2>2, <2>3
<1>8. CASE ~(l < Len(f[a])) /\ a < Len(f)
  <2>1. linea' = 1 /\ archivo' = a + 1 /\ estado' = "etiquetas"
    BY <1>8 DEF Pasa
  <2>2. a + 1 \in DOMAIN f
    BY <1>2, <1>6, <1>8
  <2>3. 1 \in DOMAIN f[a + 1]
    BY <1>2, <2>2
  <2>4. Previos(f, <<a + 1, 1>>) = L
    <3>1. \A p \in Lugares(f) : p[1] \in Nat /\ p[2] \in Nat
      BY <1>1, LugaresSon
    <3>2. \A p \in Lugares(f) : p[2] >= 1 /\ (p[1] = a => p[2] <= l)
      <4> SUFFICES ASSUME NEW p \in Lugares(f) PROVE p[2] >= 1 /\ (p[1] = a => p[2] <= l)
        OBVIOUS
      <4>1. p[2] \in 1 .. Len(f[p[1]]) /\ Len(f[p[1]]) \in Nat
        BY <1>2, <1>3
      <4>2. p[1] = a => p[2] \in 1 .. Len(f[a])
        BY <4>1
      <4> QED
        BY <1>2, <1>6, <1>8, <4>1, <4>2
    <3>3. \A p \in Lugares(f) : Antes(p, <<a + 1, 1>>) <=> Antes(p, <<a, l>>) \/ p = <<a, l>>
      <4> SUFFICES ASSUME NEW p \in Lugares(f)
                   PROVE  Antes(p, <<a + 1, 1>>) <=> Antes(p, <<a, l>>) \/ p = <<a, l>>
        OBVIOUS
      <4>1. p[1] \in Nat /\ p[2] \in Nat /\ p[2] >= 1 /\ (p[1] = a => p[2] <= l) /\ p = <<p[1], p[2]>>
        BY <1>3, <3>1, <3>2
      <4>2. Antes(p, <<a + 1, 1>>) <=> p[1] <= a
        BY <1>2, <1>6, <4>1 DEF Antes
      <4>3. Antes(p, <<a, l>>) <=> p[1] < a \/ (p[1] = a /\ p[2] < l)
        BY DEF Antes
      <4>4. p = <<a, l>> <=> p[1] = a /\ p[2] = l
        BY <4>1
      <4> QED
        BY <1>2, <1>6, <4>1, <4>2, <4>3, <4>4
    <3> QED
      BY <1>4, <3>3 DEF Previos
  <2> QED
    BY <1>1, <1>4, <1>5, <2>1, <2>2, <2>3, <2>4
<1>9. CASE ~(l < Len(f[a])) /\ ~(a < Len(f))
  <2>1. linea' = 1 /\ archivo' = 1 /\ estado' = "listo"
    BY <1>9 DEF Pasa
  <2>2. 1 \in DOMAIN f /\ 1 \in DOMAIN f[1]
    BY <1>2
  <2>3. Lugares(f) = L
    <3>1. \A p \in Lugares(f) : p[1] \in Nat /\ p[2] \in Nat
      BY <1>1, LugaresSon
    <3>2. \A p \in Lugares(f) : p[1] <= a /\ (p[1] = a => p[2] <= l)
      <4> SUFFICES ASSUME NEW p \in Lugares(f) PROVE p[1] <= a /\ (p[1] = a => p[2] <= l)
        OBVIOUS
      <4>1. p[1] \in 1 .. Len(f) /\ p[2] \in 1 .. Len(f[p[1]]) /\ Len(f[p[1]]) \in Nat
        BY <1>2, <1>3
      <4>2. p[1] = a => p[2] \in 1 .. Len(f[a])
        BY <4>1
      <4> QED
        BY <1>2, <1>6, <1>9, <4>1, <4>2
    <3>3. \A p \in Lugares(f) : Antes(p, <<a, l>>) \/ p = <<a, l>>
      <4> SUFFICES ASSUME NEW p \in Lugares(f) PROVE Antes(p, <<a, l>>) \/ p = <<a, l>>
        OBVIOUS
      <4>1. p[1] \in Nat /\ p[2] \in Nat /\ p[1] <= a /\ (p[1] = a => p[2] <= l) /\ p = <<p[1], p[2]>>
        BY <1>3, <3>1, <3>2
      <4>2. Antes(p, <<a, l>>) <=> p[1] < a \/ (p[1] = a /\ p[2] < l)
        BY DEF Antes
      <4>3. p = <<a, l>> <=> p[1] = a /\ p[2] = l
        BY <4>1
      <4> QED
        BY <1>2, <1>6, <4>1, <4>2, <4>3
    <3> QED
      BY <1>4, <3>3 DEF Previos
  <2> QED
    BY <1>1, <1>4, <1>5, <2>1, <2>2, <2>3
<1> QED
  BY <1>7, <1>8, <1>9

\* The present line has not been read.
LEMMA AcaNueva ==
  ASSUME Tipos, Avance, estado = "traduce"
  PROVE  /\ fuente \in Fuentes /\ Prefijo(fuente, Leidas)
         /\ Aca \in Lugares(fuente) \ Leidas /\ Leidas = Previos(fuente, Aca)
         /\ position = Direccion(fuente, Aca) /\ position \in Nat
         /\ isData = EsDato(fuente, Aca)
<1>1. Aca \in Lugares(fuente) /\ Leidas = Previos(fuente, Aca) /\ fuente \in Fuentes
  BY AcaEsta DEF Tipos
<1>2. Prefijo(fuente, Leidas)
  BY LeidasPrefijo DEF Vive
<1>3. Aca \notin Leidas
  BY <1>1, OrdenTotal DEF Previos
<1>4. position = Direccion(fuente, Aca)
  BY <1>1, DireccionEs DEF Avance, Vive
<1>5. Direccion(fuente, Aca) \in Nat
  BY <1>1, <1>2, PrefijoSuma, DireccionEs
<1>6. isData \in BOOLEAN /\ (isData <=> \E q \in Leidas : En(fuente, q).tipo = "data")
  BY DEF Avance, Vive, Tipos
<1>7. EsDato(fuente, Aca) <=> \E q \in Leidas : En(fuente, q).tipo = "data"
  BY <1>1 DEF EsDato
<1> QED
  BY <1>1, <1>2, <1>3, <1>4, <1>5, <1>6, <1>7 DEF EsDato

\* A line that is right keeps what the position and the flag say.
LEMMA AvancePaso ==
  ASSUME Tipos, Avance, estado = "traduce", Pasa, fuente' = fuente, Valida(fuente, Aca),
         position' = position + Largo(fuente, Aca),
         isData' = (isData \/ Linea.tipo = "data"), Linea.tipo = "etiqueta" => ~Repetida
  PROVE  Avance'
<1> DEFINE f == fuente
           M == Leidas \cup {Aca}
<1>1. /\ f \in Fuentes /\ Prefijo(f, Leidas) /\ Aca \in Lugares(f) \ Leidas
      /\ Leidas = Previos(f, Aca) /\ position \in Nat
  BY AcaNueva
<1>2. Linea = En(f, Aca) /\ Aca[1] = archivo
  BY AcaEsta
<1>3. Leidas' = M
  BY PasaEs
<1>4. position' = Suma(Largos(f), M)
  <2>1. IsFiniteSet(Leidas) /\ \A x \in Leidas : Largos(f)[x] \in Nat
    BY <1>1, PrefijoSuma
  <2>2. Largos(f)[Aca] = Largo(f, Aca) /\ Largo(f, Aca) \in Nat
    BY <1>1, LargoTipo
  <2>3. Aca \notin Leidas /\ \A x \in Leidas \cup {Aca} : Largos(f)[x] \in Int
    BY <1>1, <2>1, <2>2
  <2>4. Suma(Largos(f), M) = Largos(f)[Aca] + Suma(Largos(f), Leidas)
    BY <2>1, <2>3, SumaMas
  <2>5. position = Suma(Largos(f), Leidas)
    BY DEF Avance, Vive
  <2> QED
    BY <1>1, <2>2, <2>4, <2>5
<1>5. isData' <=> \E q \in M : En(f, q).tipo = "data"
  BY <1>2 DEF Avance, Vive
<1>6. \A p \in M : Valida(f, p)
  BY DEF Avance, Vive
<1>7. \A p, q \in M \cap Etiquetas(f) : p[1] = q[1] /\ En(f, p).nombre = En(f, q).nombre => p = q
  <2>1. \A p, q \in Leidas \cap Etiquetas(f) : p[1] = q[1] /\ En(f, p).nombre = En(f, q).nombre => p = q
    BY DEF Avance, Vive
  <2>2. \A p \in Leidas \cap Etiquetas(f) :
          Aca \in Etiquetas(f) => ~(p[1] = Aca[1] /\ En(f, p).nombre = En(f, Aca).nombre)
    <3> SUFFICES ASSUME NEW p \in Leidas \cap Etiquetas(f), Aca \in Etiquetas(f),
                        p[1] = Aca[1], En(f, p).nombre = En(f, Aca).nombre
                 PROVE  FALSE
      OBVIOUS
    <3>1. p \in Definiciones(f, Aca, Linea.nombre) /\ Antes(p, Aca)
      BY <1>1, <1>2 DEF Definiciones, Etiquetas, Previos
    <3>2. Linea.tipo = "etiqueta"
      BY <1>2 DEF Etiquetas
    <3> QED
      BY <3>1, <3>2 DEF Repetida
  <2> QED
    BY <2>1, <2>2
<1>8. fuente' = f
  OBVIOUS
<1> HIDE DEF f, M
<1> QED
  BY <1>3, <1>4, <1>5, <1>6, <1>7, <1>8 DEF Avance

\* It keeps the types.
LEMMA TiposPaso ==
  ASSUME Tipos, estado = "traduce", Pasa, fuente' = fuente, isData' \in BOOLEAN, roto' \in BOOLEAN
  PROVE  Tipos'
<1>1. /\ archivo' \in DOMAIN fuente /\ linea' \in DOMAIN fuente[archivo']
      /\ estado' \in {"traduce", "etiquetas", "listo"} /\ (estado' = "etiquetas" => linea' = 1)
  BY PasaEs
<1> QED
  BY <1>1 DEF Tipos

\* What is written stays, when the line a is not a label.
LEMMA EscritaSigue ==
  ASSUME NEW f, NEW L, NEW a, En(f, a).tipo # "etiqueta", NEW s, NEW u,
         DOMAIN s \subseteq DOMAIN u, \A d \in DOMAIN s : u[d] = s[d],
         NEW p, EstaEscrita(f, L, s, p)
  PROVE  EstaEscrita(f, L \cup {a}, u, p)
<1> DEFINE dir == Direccion(f, p)
           op == En(f, p).op
<1>1. ASSUME NEW k, NEW v, Vale(f, L, p, k, v)
      PROVE  Vale(f, L \cup {a}, p, k, v)
  <2>1. \A n : Definiciones(f, p, n) \cap (L \cup {a}) = Definiciones(f, p, n) \cap L
    BY DEF Definiciones
  <2> QED
    BY <1>1, <2>1 DEF Vale
<1>2. p \in Programa(f) =>
        /\ dir \in DOMAIN u /\ u[dir] = Item("codigo", op)
        /\ \A k \in DOMAIN Regla(op) :
             /\ dir + Lugar(op, k) \in DOMAIN u
             /\ SinSentido(f, p, k) \/ Vale(f, L \cup {a}, p, k, u[dir + Lugar(op, k)].valor)
  <2> SUFFICES ASSUME p \in Programa(f)
               PROVE  /\ dir \in DOMAIN u /\ u[dir] = Item("codigo", op)
                      /\ \A k \in DOMAIN Regla(op) :
                           /\ dir + Lugar(op, k) \in DOMAIN u
                           /\ SinSentido(f, p, k) \/
                                Vale(f, L \cup {a}, p, k, u[dir + Lugar(op, k)].valor)
    OBVIOUS
  <2>1. /\ dir \in DOMAIN s /\ s[dir] = Item("codigo", op)
        /\ \A k \in DOMAIN Regla(op) :
             /\ dir + Lugar(op, k) \in DOMAIN s
             /\ SinSentido(f, p, k) \/ Vale(f, L, p, k, s[dir + Lugar(op, k)].valor)
    BY DEF EstaEscrita
  <2> HIDE DEF dir, op
  <2> QED
    BY <1>1, <2>1
<1>3. Sentencia(f, p) /\ EsDato(f, p) /\ Largo(f, p) > 0 => dir \in DOMAIN u /\ u[dir] = Dado(f, p)
  BY DEF EstaEscrita
<1> QED
  BY <1>2, <1>3 DEF EstaEscrita

\* A line that is no statement asks for nothing in the output.
LEMMA NadaEscrito ==
  ASSUME NEW f, NEW L, NEW s, NEW p, ~Sentencia(f, p)
  PROVE  EstaEscrita(f, L, s, p)
BY DEF EstaEscrita, Programa

\* A line that is neither a label nor an instruction leaves what a label waits for.
LEMMA TableroSigue ==
  ASSUME NEW f, NEW L, NEW a, a \notin Etiquetas(f), a \notin Programa(f), NEW b, NEW t,
         Tablero(f, L, b, t)
  PROVE  Tablero(f, L \cup {a}, b, t)
<1>1. ASSUME NEW e, NEW n, Cumple(f, L, b, e, n)
      PROVE  Cumple(f, L \cup {a}, b, e, n)
  <2>1. {q \in (L \cup {a}) \cap Etiquetas(f) : q[1] = b /\ En(f, q).nombre = n}
          = {q \in L \cap Etiquetas(f) : q[1] = b /\ En(f, q).nombre = n}
    OBVIOUS
  <2>2. Programa(f) \cap (L \cup {a}) = Programa(f) \cap L
    OBVIOUS
  <2>3. Pendientes(f, L \cup {a}, b, n) = Pendientes(f, L, b, n)
    BY <2>2 DEF Pendientes
  <2> QED
    BY <1>1, <2>1, <2>3 DEF Cumple
<1> QED
  BY <1>1 DEF Tablero

\* What holds of the table in the second pass passes to the next line.
LEMMA TablaPaso ==
  ASSUME Tipos, estado = "traduce", Pasa, fuente' = fuente,
         Tablero(fuente, Leidas \cup {Aca}, archivo, labels')
  PROVE  Tabla'
<1>1. Leidas' = Leidas \cup {Aca} /\ (estado' = "traduce" => archivo' = archivo)
  BY PasaEs
<1> QED
  BY <1>1 DEF Tabla

\* What holds of the output after the line.
LEMMA EscrituraPaso ==
  ASSUME Tipos, estado = "traduce", Pasa, fuente' = fuente,
         DOMAIN salida' \subseteq 0 .. position' - 1,
         \A p \in Leidas \cup {Aca} : EstaEscrita(fuente, Leidas \cup {Aca}, salida', p)
  PROVE  Escritura'
<1>1. Leidas' = Leidas \cup {Aca}
  BY PasaEs
<1> QED
  BY <1>1 DEF Escritura

\* Too many references are still too many.
LEMMA CaidasPaso ==
  ASSUME Tipos, estado = "traduce", Pasa, fuente' = fuente,
         roto' => Excedida(fuente, Aca)
                  \/ \E e \in Etiquetas(fuente) : e[1] = archivo /\
                       Cardinality(Esperan(fuente, Aca, En(fuente, e).nombre)) > CABEN
  PROVE  Caidas'
<1>1. estado' \in {"traduce", "etiquetas", "listo"}
      /\ (estado' # "listo" => Previos(fuente, Aca') = Leidas \cup {Aca})
  BY PasaEs
<1>2. Leidas = Previos(fuente, Aca) /\ Aca[1] = archivo
  BY AcaEsta
<1>3. roto' /\ estado' # "listo" => Excedida(fuente, Aca')
  BY <1>1, <1>2 DEF Excedida
<1> QED
  BY <1>1, <1>3 DEF Caidas

\* The decompiler has printed nothing before the end of the second pass.
LEMMA ListadoPaso ==
  ASSUME Tipos, Listado, estado = "traduce", Pasa, fuente' = fuente, listado' = listado, Avance', Tipos'
  PROVE  Listado'
<1>1. estado' \in {"traduce", "etiquetas", "listo"} /\ listado' = <<>>
  BY PasaEs DEF Listado
<1>2. CASE estado' # "listo"
  BY <1>1, <1>2 DEF Listado
<1>3. CASE estado' = "listo"
  <2>1. Leidas' = Lugares(fuente)
    BY <1>3 DEF Leidas
  <2>2. fuente \in Fuentes /\ \A p \in Lugares(fuente) : Valida(fuente, p)
    BY <1>3, <2>1 DEF Tipos, Avance, Vive
  <2>3. Prefijo(fuente, Lugares(fuente))
    BY <2>2 DEF Prefijo, Previos
  <2>4. Desde' = 0
    BY <1>1 DEF Desde
  <2>5. \A p \in Programa(fuente) : ~(Direccion(fuente, p) < 0)
    BY <2>2, <2>3, DireccionOrden DEF Programa
  <2>6. Hechos' = {}
    BY <2>4, <2>5 DEF Hechos
  <2>7. Suma(Largos(fuente), {}) = 0 /\ Cardinality({}) = 0
    BY SumaVacia, FS_EmptySet
  <2>8. <<>> \in Seq(Range(<<>>)) /\ Len(<<>>) = 0
    OBVIOUS
  <2> QED
    BY <1>1, <1>3, <2>4, <2>6, <2>7, <2>8 DEF Listado
<1> QED
  BY <1>2, <1>3

\* All of it, for a line that writes nothing and is not a label.
LEMMA MudaPaso ==
  ASSUME EInv, estado = "traduce", Pasa, fuente' = fuente, Linea.tipo \in {"comentario", "data"},
         isData' = (isData \/ Linea.tipo = "data"),
         UNCHANGED <<labels, roto, position, salida, listado>>
  PROVE  EInv'
<1> DEFINE f == fuente
<1>1. /\ f \in Fuentes /\ Aca \in Lugares(f) \ Leidas /\ Leidas = Previos(f, Aca) /\ position \in Nat
  BY AcaNueva DEF EInv
<1>2. Linea = En(f, Aca)
  BY AcaEsta DEF EInv
<1>3. ~Sentencia(f, Aca) /\ Aca \notin Programa(f) /\ Aca \notin Etiquetas(f) /\ Largo(f, Aca) = 0
      /\ En(f, Aca).tipo # "etiqueta"
  BY <1>2 DEF Sentencia, Programa, Etiquetas, Largo
<1>4. Tipos'
  BY TiposPaso DEF EInv, Tipos
<1>5. Avance'
  <2>1. Valida(f, Aca)
    BY <1>3 DEF Valida
  <2>2. position' = position + Largo(f, Aca)
    BY <1>1, <1>3
  <2> QED
    BY <2>1, <2>2, AvancePaso DEF EInv
<1>6. Tabla'
  <2>1. Tablero(f, Leidas, archivo, labels)
    BY DEF EInv, Tabla
  <2>2. Tablero(f, Leidas \cup {Aca}, archivo, labels)
    BY <1>3, <2>1, TableroSigue
  <2> QED
    BY <2>2, TablaPaso DEF EInv
<1>7. Escritura'
  <2>1. DOMAIN salida \subseteq 0 .. position - 1 /\ \A p \in Leidas : EstaEscrita(f, Leidas, salida, p)
    BY DEF EInv, Escritura, Vive
  <2>2. \A p \in Leidas : EstaEscrita(f, Leidas \cup {Aca}, salida, p)
    BY <1>3, <2>1, EscritaSigue
  <2>3. EstaEscrita(f, Leidas \cup {Aca}, salida, Aca)
    BY <1>3, NadaEscrito
  <2> QED
    BY <2>1, <2>2, <2>3, EscrituraPaso DEF EInv
<1>8. Caidas'
  <2>1. roto' => Excedida(f, Aca)
    BY DEF EInv, Caidas
  <2> QED
    BY <2>1, CaidasPaso DEF EInv
<1>9. Listado'
  BY <1>4, <1>5, ListadoPaso DEF EInv
<1> QED
  BY <1>4, <1>5, <1>6, <1>7, <1>8, <1>9 DEF EInv

\* A datum.
LEMMA DatoPaso ==
  ASSUME EInv, Dato
  PROVE  EInv'
<1> DEFINE f == fuente
           item == Dado(f, Aca)
           n == Largo(f, Aca)
<1>1. /\ f \in Fuentes /\ Prefijo(f, Leidas) /\ Aca \in Lugares(f) \ Leidas
      /\ Leidas = Previos(f, Aca) /\ position \in Nat /\ position = Direccion(f, Aca)
      /\ isData = EsDato(f, Aca) /\ estado = "traduce"
  BY AcaNueva DEF EInv, Dato
<1>2. Linea = En(f, Aca) /\ Linea \in Lineas
  BY AcaEsta DEF EInv
<1>3. /\ Linea.tipo \in {"texto", "numero", "instruccion", "vacia"}
      /\ UNCHANGED <<fuente, labels, roto, isData, listado>> /\ Pasa /\ isData
  BY DEF Dato
<1>4. Sentencia(f, Aca) /\ EsDato(f, Aca) /\ Aca \notin Programa(f) /\ Aca \notin Etiquetas(f)
      /\ En(f, Aca).tipo # "etiqueta"
  BY <1>1, <1>2, <1>3 DEF Sentencia, Programa, Etiquetas
<1>5. Valida(f, Aca)
  BY <1>4 DEF Valida
<1>6. n \in Nat
  BY <1>1, <1>5, LargoTipo
<1>7. salida' = (IF n = 0 THEN salida ELSE save(salida, position, item)) /\ position' = position + n
  <2>1. CASE Linea.tipo = "texto"
    BY <1>2, <1>4, <2>1 DEF Dato, Escribe1, Dado, Largo
  <2>2. CASE Linea.tipo # "texto"
    <3>1. n = 4
      BY <1>2, <1>4, <2>2 DEF Largo
    <3>2. item = Item("num", IF Linea.tipo = "numero" THEN Linea.n ELSE 0)
      BY <1>2, <2>2 DEF Dado
    <3> HIDE DEF n, item
    <3> QED
      BY <2>2, <3>1, <3>2 DEF Dato, Escribe1
  <2> QED
    BY <2>1, <2>2
<1>8. Tipos'
  BY <1>1, <1>3, TiposPaso DEF EInv, Tipos
<1>9. Avance'
  <2>1. isData' = (isData \/ Linea.tipo = "data") /\ Linea.tipo # "etiqueta"
    BY <1>3 DEF EInv, Tipos
  <2> QED
    BY <1>1, <1>3, <1>5, <1>7, <2>1, AvancePaso DEF EInv
<1>10. Tabla'
  <2>1. Tablero(f, Leidas, archivo, labels)
    BY <1>1 DEF EInv, Tabla
  <2>2. Tablero(f, Leidas \cup {Aca}, archivo, labels)
    BY <1>4, <2>1, TableroSigue
  <2> QED
    BY <1>1, <1>3, <2>2, TablaPaso DEF EInv
<1>11. Escritura'
  <2> DEFINE u == salida'
  <2>1. DOMAIN salida \subseteq 0 .. position - 1 /\ \A p \in Leidas : EstaEscrita(f, Leidas, salida, p)
    BY <1>1 DEF EInv, Escritura, Vive
  <2>2. /\ DOMAIN salida \subseteq DOMAIN u /\ \A d \in DOMAIN salida : u[d] = salida[d]
        /\ DOMAIN u \subseteq 0 .. position' - 1
        /\ n > 0 => position \in DOMAIN u /\ u[position] = item
    <3>1. CASE n = 0
      <4>1. u = salida /\ position' = position
        BY <1>1, <1>7, <3>1
      <4> QED
        BY <2>1, <3>1, <4>1
    <3>2. CASE n # 0
      <4>1. u = save(salida, position, item) /\ position \notin DOMAIN salida
        BY <1>1, <1>7, <2>1, <3>2
      <4> HIDE DEF u, item, n
      <4>2. DOMAIN u = DOMAIN salida \cup {position} /\ u[position] = item
            /\ \A d \in DOMAIN salida : u[d] = salida[d]
        BY <4>1 DEF save
      <4> QED
        BY <1>1, <1>6, <1>7, <2>1, <3>2, <4>2
    <3> QED
      BY <3>1, <3>2
  <2> HIDE DEF u, item, n
  <2>3. \A p \in Leidas : EstaEscrita(f, Leidas \cup {Aca}, u, p)
    BY <1>4, <2>1, <2>2, EscritaSigue
  <2>4. EstaEscrita(f, Leidas \cup {Aca}, u, Aca)
    BY <1>1, <1>4, <2>2 DEF EstaEscrita, n, item
  <2> USE DEF u
  <2> QED
    BY <1>1, <1>3, <2>2, <2>3, <2>4, EscrituraPaso DEF EInv
<1>12. Caidas'
  <2>1. roto' => Excedida(f, Aca)
    BY <1>1, <1>3 DEF EInv, Caidas
  <2> QED
    BY <1>1, <1>3, <2>1, CaidasPaso DEF EInv
<1>13. Listado'
  BY <1>1, <1>3, <1>8, <1>9, ListadoPaso DEF EInv
<1> QED
  BY <1>8, <1>9, <1>10, <1>11, <1>12, <1>13 DEF EInv

\* When it goes down nothing is left to keep but why.
LEMMA TerminaPaso ==
  ASSUME EInv, estado' \in {"aborta", "cae", "pisado"},
         UNCHANGED <<fuente, archivo, linea, isData, roto, listado>>,
         estado' = "cae" => Excedida(fuente, Aca) \/ (Aca \in Etiquetas(fuente) /\ Repetida)
  PROVE  EInv'
<1>1. Tipos'
  BY DEF EInv, Tipos
<1>2. ~Vive'
  BY DEF Vive
<1>3. Aca' = Aca /\ Linea' = Linea
  BY DEF Aca, Linea
<1>4. Repetida' = Repetida
  BY <1>3 DEF Repetida
<1>5. Caidas'
  BY <1>3, <1>4 DEF Caidas
<1> QED
  BY <1>1, <1>2, <1>5 DEF EInv, Avance, Tabla, Escritura, Listado

-------------------------------------------------------------------------------
(* Labels *)

\* Each place that waits for a label is that of one parameter, and of nothing else.
LEMMA HuecoEs ==
  ASSUME NEW f \in Fuentes, NEW L, Prefijo(f, L), NEW b, NEW n, NEW p \in L
  PROVE  /\ Largo(f, p) > 0 => Direccion(f, p) \notin Huecos(f, Pendientes(f, L, b, n))
         /\ p \in Programa(f) => \A k \in DOMAIN Regla(En(f, p).op) :
              Direccion(f, p) + Lugar(En(f, p).op, k) \in Huecos(f, Pendientes(f, L, b, n)) <=>
                <<p, k>> \in Pendientes(f, L, b, n)
<1> DEFINE D == Pendientes(f, L, b, n)
           H(x) == Direccion(f, x[1]) + Lugar(En(f, x[1]).op, x[2])
<1>1. ASSUME NEW x \in D
      PROVE  /\ x = <<x[1], x[2]>> /\ x[1] \in L \cap Programa(f)
             /\ x[2] \in DOMAIN Regla(En(f, x[1]).op)
             /\ Lugar(En(f, x[1]).op, x[2]) \in 4 .. Largo(f, x[1]) - 1
             /\ Lugar(En(f, x[1]).op, x[2]) \in 0 .. Largo(f, x[1]) - 1
  <2>1. x = <<x[1], x[2]>> /\ x[1] \in L \cap Programa(f) /\ x[2] \in DOMAIN Regla(En(f, x[1]).op)
    BY DEF Pendientes, Referencias
  <2>2. Lugar(En(f, x[1]).op, x[2]) \in 4 .. Largo(f, x[1]) - 1 /\ Largo(f, x[1]) \in Int
    <3>1. Lugar(En(f, x[1]).op, x[2]) \in 4 .. Largo(f, x[1]) - 1
      BY <2>1, HuecoDentro
    <3> QED
      BY <2>1, <3>1, DireccionOrden
  <2>3. \A m \in Int : 4 .. m - 1 \subseteq 0 .. m - 1
    OBVIOUS
  <2> QED
    BY <2>1, <2>2, <2>3
<1>2. Huecos(f, D) = {H(x) : x \in D}
  BY DEF Huecos
<1>3. Direccion(f, p) \in Nat /\ Largo(f, p) \in Nat
  BY DireccionOrden
<1> HIDE DEF D
<1>4. ASSUME Largo(f, p) > 0, NEW x \in D, Direccion(f, p) = H(x)
      PROVE  FALSE
  <2>1. 0 \in 0 .. Largo(f, p) - 1 /\ Direccion(f, p) + 0 = Direccion(f, p)
    BY <1>3, <1>4
  <2>2. 0 = Lugar(En(f, x[1]).op, x[2])
    BY <1>1, <1>4, <2>1, SinSolape
  <2> QED
    BY <1>1, <2>2
<1>5. ASSUME p \in Programa(f), NEW k \in DOMAIN Regla(En(f, p).op), NEW x \in D,
             Direccion(f, p) + Lugar(En(f, p).op, k) = H(x)
      PROVE  x = <<p, k>>
  <2>1. /\ Lugar(En(f, p).op, k) \in 4 .. Largo(f, p) - 1
        /\ \A j \in DOMAIN Regla(En(f, p).op) :
             Lugar(En(f, p).op, j) = Lugar(En(f, p).op, k) => j = k
    BY <1>5, HuecoDentro
  <2>2. Lugar(En(f, p).op, k) \in 0 .. Largo(f, p) - 1
    BY <1>3, <2>1
  <2>3. p = x[1] /\ Lugar(En(f, p).op, k) = Lugar(En(f, x[1]).op, x[2])
    BY <1>1, <1>5, <2>2, SinSolape
  <2> QED
    BY <1>1, <2>1, <2>3
<1>6. ASSUME p \in Programa(f), NEW k \in DOMAIN Regla(En(f, p).op)
      PROVE  Direccion(f, p) + Lugar(En(f, p).op, k) \in {H(x) : x \in D} <=> <<p, k>> \in D
  <2>1. H(<<p, k>>) = Direccion(f, p) + Lugar(En(f, p).op, k)
    OBVIOUS
  <2> HIDE DEF H
  <2> QED
    BY <1>5, <1>6, <2>1
<1> QED
  BY <1>2, <1>4, <1>6 DEF D

\* The entry of a label in the table, by its definitions among the lines read.
LEMMA EntradaEs ==
  ASSUME NEW f \in Fuentes, NEW L, Prefijo(f, L), NEW b, NEW e, NEW n, Cumple(f, L, b, e, n)
  PROVE  LET D == {q \in L \cap Etiquetas(f) : q[1] = b /\ En(f, q).nombre = n} IN
         /\ D = {} <=> e.obsSize # -1
         /\ D = {} <=> e.point = -1
         /\ \A q \in D : e.point = Direccion(f, q)
         /\ D = {} => /\ e.obsSize = Cardinality(Pendientes(f, L, b, n))
                      /\ Range(e.obs) = Huecos(f, Pendientes(f, L, b, n))
         /\ IsFiniteSet(Pendientes(f, L, b, n)) /\ Cardinality(Pendientes(f, L, b, n)) \in Nat
<1> DEFINE D == {q \in L \cap Etiquetas(f) : q[1] = b /\ En(f, q).nombre = n}
           P == Pendientes(f, L, b, n)
<1>1. IsFiniteSet(P) /\ Cardinality(P) \in Nat
  <2> DEFINE A == {q \in Programa(f) \cap L : q[1] = b}
  <2>1. IsFiniteSet(A)
    BY PrefijoSuma, FS_Subset
  <2>2. IsFiniteSet(1 .. 3)
    <3>1. 1 \in Int /\ 3 \in Int
      OBVIOUS
    <3> QED
      BY <3>1, FS_Interval, Zenon
  <2> HIDE DEF A
  <2>3. IsFiniteSet(A \X (1 .. 3))
    BY <2>1, <2>2, FS_Product
  <2>4. P \in SUBSET (A \X (1 .. 3))
    BY DEF Pendientes, A
  <2> QED
    BY <2>3, <2>4, CardinalMonotono
<1>2. \A q \in D : Direccion(f, q) \in Nat
  BY DireccionOrden
<1>3. IF D = {} THEN e.point = -1 /\ e.obsSize = Cardinality(P) /\ Range(e.obs) = Huecos(f, P)
      ELSE e.obs = <<>> /\ e.obsSize = -1 /\ \A q \in D : e.point = Direccion(f, q)
  BY DEF Cumple
<1> HIDE DEF D, P
<1>4. D = {} => e.obsSize # -1 /\ e.point = -1
  BY <1>1, <1>3
<1>5. D # {} => e.obsSize = -1 /\ e.point # -1
  BY <1>2, <1>3
<1> QED
  BY <1>1, <1>3, <1>4, <1>5 DEF D, P

\* The texts of the labels, and the lines that define one.
LEMMA TextoIgual ==
  ASSUME NEW n, NEW e, Texto(e) = <<n>>
  PROVE  e.nombre = n
<1>1. CASE e.nota
  <2>1. Len(Texto(e)) = 2
    BY <1>1 DEF Texto
  <2>2. Len(<<n>>) = 1
    OBVIOUS
  <2> QED
    BY <2>1, <2>2
<1>2. CASE ~e.nota
  <2>1. <<e.nombre>> = <<n>>
    BY <1>2 DEF Texto
  <2> QED
    BY <2>1
<1> QED
  BY <1>1, <1>2

\* A label is the first line of its name in its file, and gets its address.
LEMMA EtiquetaTabla ==
  ASSUME EInv, estado = "traduce", Linea.tipo = "etiqueta", NEW i,
         i = findLabel(<<Linea.nombre>>, labels), i # 0, labels[i].obsSize # -1,
         NEW t, t = [labels EXCEPT ![i].point = position, ![i].obs = <<>>, ![i].obsSize = -1]
  PROVE  /\ Tablero(fuente, Leidas \cup {Aca}, archivo, t)
         /\ Range(labels[i].obs) = Huecos(fuente, Pendientes(fuente, Leidas, archivo, Linea.nombre))
         /\ labels[i].obs \in Seq(Nat)
         /\ {q \in Leidas \cap Etiquetas(fuente) :
               q[1] = archivo /\ En(fuente, q).nombre = Linea.nombre} = {}
<1> DEFINE f == fuente
           n == Linea.nombre
           M == Leidas \cup {Aca}
           De(L, y) == {q \in L \cap Etiquetas(f) : q[1] = archivo /\ En(f, q).nombre = y}
<1>1. /\ f \in Fuentes /\ Prefijo(f, Leidas) /\ Aca \in Lugares(f) \ Leidas
      /\ position = Direccion(f, Aca) /\ position \in Nat
  BY AcaNueva DEF EInv
<1>2. Linea = En(f, Aca) /\ Linea \in Lineas /\ Aca[1] = archivo
  BY AcaEsta DEF EInv
<1>3. Aca \in Etiquetas(f) /\ n \in Nombres(f) /\ Aca \notin Programa(f)
  BY <1>1, <1>2 DEF Etiquetas, Nombres, Programa, Sentencia
<1>4. /\ labels \in Seq(Entradas)
      /\ \A j \in DOMAIN labels :
           /\ \E q \in Etiquetas(f) : q[1] = archivo /\ labels[j].label = Texto(En(f, q))
           /\ labels[j].obsSize <= 0 \/ \E y \in Nombres(f) : j = findLabel(<<y>>, labels)
      /\ \A y \in Nombres(f) : findLabel(<<y>>, labels) # 0 =>
           Cumple(f, Leidas, archivo, labels[findLabel(<<y>>, labels)], y)
  BY DEF EInv, Tabla, Tablero
<1>5. i \in DOMAIN labels /\ labels[i].label = <<n>>
  BY <1>4, FindLabelEs
<1>6. labels[i] \in Entradas
  BY <1>4, <1>5
<1>7. Cumple(f, Leidas, archivo, labels[i], n)
  BY <1>3, <1>4
<1>8. /\ De(Leidas, n) = {}
      /\ Range(labels[i].obs) = Huecos(f, Pendientes(f, Leidas, archivo, n))
  BY <1>1, <1>7, EntradaEs
<1> DEFINE e == [labels[i] EXCEPT !.point = position, !.obs = <<>>, !.obsSize = -1]
<1>9. /\ e \in Entradas /\ e.label = labels[i].label /\ e.point = position
      /\ e.obs = <<>> /\ e.obsSize = -1
  <2>1. <<>> \in Seq(Nat) /\ -1 \in Int /\ position \in Int
    BY <1>1
  <2>2. e.label = labels[i].label /\ e.point = position /\ e.obs = <<>> /\ e.obsSize = -1
    BY <1>6 DEF Entradas
  <2>3. e \in Entradas
    BY <1>6, <2>1 DEF Entradas
  <2> QED
    BY <2>2, <2>3
<1>10. t = [labels EXCEPT ![i] = e]
  OBVIOUS
<1> HIDE DEF e
<1>11. /\ t \in Seq(Entradas) /\ Len(t) = Len(labels) /\ t[i] = e
       /\ \A j \in DOMAIN labels : j # i => t[j] = labels[j]
       /\ DOMAIN t = DOMAIN labels
  BY <1>4, <1>5, <1>9, <1>10
<1>12. \A j \in DOMAIN labels : t[j].label = labels[j].label
  BY <1>9, <1>11
<1>13. \A y : findLabel(<<y>>, t) = findLabel(<<y>>, labels)
  <2>1. labels \in Seq(Entradas) /\ t \in Seq(Entradas) /\ Len(t) = Len(labels)
    BY <1>4, <1>11
  <2>2. \A u, w \in Seq(Entradas) :
          Len(u) = Len(w) /\ (\A j \in DOMAIN w : u[j].label = w[j].label) =>
            \A x : findLabel(x, u) = findLabel(x, w)
    BY FindLabelIgual
  <2>3. \A x : findLabel(x, t) = findLabel(x, labels)
    BY <1>12, <2>1, <2>2, Zenon
  <2> QED
    BY <2>3
<1>14. \A j \in DOMAIN t : t[j].obsSize <= 0 \/ \E y \in Nombres(f) : j = findLabel(<<y>>, t)
  <2> SUFFICES ASSUME NEW j \in DOMAIN t
               PROVE  t[j].obsSize <= 0 \/ \E y \in Nombres(f) : j = findLabel(<<y>>, t)
    OBVIOUS
  <2>1. CASE j = i
    BY <1>9, <1>11, <2>1
  <2>2. CASE j # i
    <3>1. t[j] = labels[j] /\ j \in DOMAIN labels
      BY <1>11, <2>2
    <3>2. labels[j].obsSize <= 0 \/ \E y \in Nombres(f) : j = findLabel(<<y>>, labels)
      BY <1>4, <3>1
    <3> QED
      BY <1>13, <3>1, <3>2
  <2> QED
    BY <2>1, <2>2
<1>15. Programa(f) \cap M = Programa(f) \cap Leidas
  BY <1>3
<1>16. \A y : Pendientes(f, M, archivo, y) = Pendientes(f, Leidas, archivo, y)
  BY <1>15 DEF Pendientes
<1>17. De(M, n) = {Aca} /\ \A y : y # n => De(M, y) = De(Leidas, y)
  <2>1. En(f, Aca).nombre = n
    BY <1>2
  <2> QED
    BY <1>2, <1>3, <1>8, <2>1
<1>18. Cumple(f, M, archivo, e, n)
  <2>1. De(M, n) # {} /\ \A q \in De(M, n) : e.point = Direccion(f, q)
    BY <1>1, <1>9, <1>17
  <2> QED
    BY <1>9, <2>1 DEF Cumple
<1>19. ASSUME NEW y \in Nombres(f), findLabel(<<y>>, labels) # 0
       PROVE  Cumple(f, M, archivo, t[findLabel(<<y>>, labels)], y)
  <2> DEFINE j == findLabel(<<y>>, labels)
  <2>1. CASE y = n
    BY <1>11, <1>18, <2>1
  <2>2. CASE y # n
    <3>1. j \in DOMAIN labels /\ labels[j].label = <<y>>
      BY <1>4, <1>19, FindLabelEs
    <3>2. j # i
      <4>1. <<y>> # <<n>>
        BY <2>2
      <4> QED
        BY <1>5, <3>1, <4>1
    <3>3. t[j] = labels[j]
      BY <1>11, <3>1, <3>2
    <3>4. Cumple(f, Leidas, archivo, labels[j], y)
      BY <1>4, <1>19
    <3>5. De(M, y) = De(Leidas, y)
      BY <1>17, <2>2
    <3>6. Cumple(f, M, archivo, labels[j], y)
      BY <1>16, <3>4, <3>5 DEF Cumple
    <3> QED
      BY <3>3, <3>6
  <2> QED
    BY <2>1, <2>2
<1>20. labels[i].obs \in Seq(Nat)
  BY <1>6 DEF Entradas
<1>21. Tablero(f, M, archivo, t)
  <2>1. \A j \in DOMAIN t : \E q \in Etiquetas(f) : q[1] = archivo /\ t[j].label = Texto(En(f, q))
    BY <1>4, <1>11, <1>12
  <2>2. \A y \in Nombres(f) : findLabel(<<y>>, t) # 0 =>
          Cumple(f, M, archivo, t[findLabel(<<y>>, t)], y)
    BY <1>13, <1>19
  <2> HIDE DEF f, M, De, n
  <2> QED
    BY <1>11, <1>14, <2>1, <2>2 DEF Tablero
<1> QED
  BY <1>8, <1>20, <1>21

\* The places that waited for the label of the line get its address.
LEMMA EtiquetaEscribe ==
  ASSUME NEW f \in Fuentes, NEW L, Prefijo(f, L), NEW a \in Etiquetas(f) \ L, NEW n, n = En(f, a).nombre,
         {q \in L \cap Etiquetas(f) : q[1] = a[1] /\ En(f, q).nombre = n} = {},
         NEW s, NEW obs \in Seq(Nat), Range(obs) = Huecos(f, Pendientes(f, L, a[1], n)),
         NEW p \in L, EstaEscrita(f, L, s, p)
  PROVE  EstaEscrita(f, L \cup {a}, Completa(obs, s, Direccion(f, a)), p)
<1> DEFINE dir == Direccion(f, p)
           op == En(f, p).op
           D == Pendientes(f, L, a[1], n)
           u == Completa(obs, s, Direccion(f, a))
           M == L \cup {a}
<1>1. /\ DOMAIN u = DOMAIN s
      /\ \A d \in DOMAIN s : u[d] = IF d \in Huecos(f, D) THEN Item("num", Direccion(f, a)) ELSE s[d]
  <2>1. DOMAIN obs = 1 .. Len(obs)
    OBVIOUS
  <2>2. \A d : Contains(obs, d) <=> d \in Range(obs)
    BY <2>1 DEF Contains, Range
  <2>3. u = [d \in DOMAIN s |-> IF Contains(obs, d) THEN Item("num", Direccion(f, a)) ELSE s[d]]
    BY DEF Completa
  <2> HIDE DEF u, D
  <2> QED
    BY <2>2, <2>3 DEF D
<1>2. ASSUME Largo(f, p) > 0, dir \in DOMAIN s
      PROVE  u[dir] = s[dir]
  <2>1. dir \notin Huecos(f, D)
    BY <1>2, HuecoEs
  <2> HIDE DEF u, D, dir
  <2> QED
    BY <1>1, <1>2, <2>1
<1>3. ASSUME p \in Programa(f)
      PROVE  /\ dir \in DOMAIN u /\ u[dir] = Item("codigo", op)
             /\ \A k \in DOMAIN Regla(op) :
                  /\ dir + Lugar(op, k) \in DOMAIN u
                  /\ SinSentido(f, p, k) \/ Vale(f, M, p, k, u[dir + Lugar(op, k)].valor)
  <2>1. /\ dir \in DOMAIN s /\ s[dir] = Item("codigo", op)
        /\ \A k \in DOMAIN Regla(op) :
             /\ dir + Lugar(op, k) \in DOMAIN s
             /\ SinSentido(f, p, k) \/ Vale(f, L, p, k, s[dir + Lugar(op, k)].valor)
    BY <1>3 DEF EstaEscrita
  <2>2. Largo(f, p) > 0
    <3>1. Largo(f, p) \in Nat /\ Largo(f, p) >= 4
      BY <1>3, LargoTipo DEF Prefijo
    <3> QED
      BY <3>1
  <2>3. dir \in DOMAIN u /\ u[dir] = Item("codigo", op)
    BY <1>1, <1>2, <2>1, <2>2
  <2>4. ASSUME NEW k \in DOMAIN Regla(op)
        PROVE  /\ dir + Lugar(op, k) \in DOMAIN u
               /\ SinSentido(f, p, k) \/ Vale(f, M, p, k, u[dir + Lugar(op, k)].valor)
    <3> DEFINE h == dir + Lugar(op, k)
               x == En(f, p).parametros[k]
    <3>1. h \in DOMAIN s /\ h \in DOMAIN u /\ (SinSentido(f, p, k) \/ Vale(f, L, p, k, s[h].valor))
      BY <1>1, <2>1
    <3>2. h \in Huecos(f, D) <=> <<p, k>> \in D
      BY <1>3, HuecoEs
    <3>3. <<p, k>> \in D <=> p[1] = a[1] /\ x.t = "ref" /\ x.nombre = n
      <4>1. k \in 1 .. 3
        BY <1>3, HuecoDentro
      <4> QED
        BY <1>3, <4>1 DEF Pendientes, Referencias
    <3>4. \A m : Definiciones(f, p, m) \cap M =
                   (Definiciones(f, p, m) \cap L) \cup (IF a[1] = p[1] /\ m = n THEN {a} ELSE {})
      <4>1. a \in Lugares(f) /\ En(f, a).tipo = "etiqueta"
        BY DEF Etiquetas
      <4> QED
        BY <4>1 DEF Definiciones
    <3>5. CASE <<p, k>> \in D
      <4>1. u[h].valor = Direccion(f, a)
        <5> HIDE DEF u, h, D
        <5>1. u[h] = Item("num", Direccion(f, a))
          BY <1>1, <3>1, <3>2, <3>5
        <5> QED
          BY <5>1 DEF Item
      <4>2. Definiciones(f, p, n) \cap L = {}
        BY <3>3, <3>5 DEF Definiciones, Etiquetas
      <4>3. Definiciones(f, p, x.nombre) \cap M \subseteq {a}
        BY <3>3, <3>4, <3>5, <4>2
      <4>4. x.t = "ref"
        BY <3>3, <3>5
      <4>5. Vale(f, M, p, k, u[h].valor)
        BY <4>1, <4>3, <4>4 DEF Vale
      <4> QED
        BY <3>1, <4>5
    <3>6. CASE <<p, k>> \notin D
      <4>1. u[h] = s[h]
        <5> HIDE DEF u, h, D
        <5> QED
          BY <1>1, <3>1, <3>2, <3>6
      <4>2. x.t = "ref" => Definiciones(f, p, x.nombre) \cap M = Definiciones(f, p, x.nombre) \cap L
        BY <3>3, <3>4, <3>6
      <4>3. Vale(f, L, p, k, s[h].valor) => Vale(f, M, p, k, s[h].valor)
        BY <4>2 DEF Vale
      <4> QED
        BY <3>1, <4>1, <4>3
    <3> QED
      BY <3>5, <3>6
  <2> QED
    BY <2>3, <2>4
<1>4. Sentencia(f, p) /\ EsDato(f, p) /\ Largo(f, p) > 0 => dir \in DOMAIN u /\ u[dir] = Dado(f, p)
  BY <1>1, <1>2 DEF EstaEscrita
<1> HIDE DEF u, M
<1>5. EstaEscrita(f, M, u, p)
  BY <1>3, <1>4 DEF EstaEscrita
<1> QED
  BY <1>5 DEF u, M

\* A line with a label, which may be the second one of its name.
LEMMA EtiquetaPaso ==
  ASSUME EInv, Etiqueta
  PROVE  EInv'
<1> DEFINE f == fuente
           i == findLabel(<<Linea.nombre>>, labels)
           n == Linea.nombre
<1>1. /\ f \in Fuentes /\ Prefijo(f, Leidas) /\ Aca \in Lugares(f) \ Leidas
      /\ Leidas = Previos(f, Aca) /\ position \in Nat /\ position = Direccion(f, Aca)
      /\ isData = EsDato(f, Aca) /\ estado = "traduce" /\ Linea.tipo = "etiqueta"
  BY AcaNueva DEF EInv, Etiqueta
<1>2. Linea = En(f, Aca) /\ Linea \in Lineas /\ Aca[1] = archivo
  BY AcaEsta DEF EInv
<1>3. UNCHANGED <<fuente, roto, listado>>
  BY DEF Etiqueta
<1>4. Aca \in Etiquetas(f) /\ n \in Nombres(f) /\ Aca \notin Programa(f) /\ ~Sentencia(f, Aca)
      /\ Largo(f, Aca) = 0
  BY <1>1, <1>2 DEF Etiquetas, Nombres, Programa, Sentencia, Largo
<1>5. CASE i = 0
  <2>1. Termina("aborta")
    BY <1>5 DEF Etiqueta
  <2> QED
    BY <1>3, <2>1, TerminaPaso DEF Termina
<1>6. CASE i # 0 /\ labels[i].obsSize = -1
  <2>1. Termina("cae")
    BY <1>6 DEF Etiqueta
  <2>2. Cumple(f, Leidas, archivo, labels[i], n)
    BY <1>1, <1>4, <1>6 DEF EInv, Tabla, Tablero
  <2>3. {q \in Leidas \cap Etiquetas(f) : q[1] = archivo /\ En(f, q).nombre = n} # {}
    BY <1>1, <1>6, <2>2, EntradaEs
  <2>4. Repetida
    BY <1>1, <1>2, <2>3 DEF Repetida, Definiciones, Etiquetas, Previos
  <2> QED
    BY <1>3, <1>4, <2>1, <2>4, TerminaPaso DEF Termina
<1>7. CASE i # 0 /\ labels[i].obsSize # -1
  <2>1. /\ labels' = [labels EXCEPT ![i].point = position, ![i].obs = <<>>, ![i].obsSize = -1]
        /\ salida' = Completa(labels[i].obs, salida, position)
        /\ Pasa /\ UNCHANGED <<position, isData>>
    BY <1>7 DEF Etiqueta
  <2>2. /\ Tablero(f, Leidas \cup {Aca}, archivo, labels')
        /\ Range(labels[i].obs) = Huecos(f, Pendientes(f, Leidas, archivo, n))
        /\ labels[i].obs \in Seq(Nat)
        /\ {q \in Leidas \cap Etiquetas(f) : q[1] = archivo /\ En(f, q).nombre = n} = {}
    BY <1>1, <1>7, <2>1, EtiquetaTabla
  <2>3. Tipos'
    BY <1>1, <1>3, <2>1, TiposPaso DEF EInv, Tipos
  <2>4. Avance'
    <3>1. Valida(f, Aca)
      BY <1>4 DEF Valida
    <3>2. position' = position + Largo(f, Aca)
      BY <1>1, <1>4, <2>1
    <3>3. isData' = (isData \/ Linea.tipo = "data")
      BY <1>1, <2>1 DEF EInv, Tipos
    <3>4. ~Repetida
      <4> SUFFICES ASSUME NEW q \in Definiciones(f, Aca, n), Antes(q, Aca) PROVE FALSE
        BY DEF Repetida
      <4>1. q \in Leidas \cap Etiquetas(f) /\ q[1] = archivo /\ En(f, q).nombre = n
        BY <1>1, <1>2 DEF Definiciones, Etiquetas, Previos
      <4> QED
        BY <2>2, <4>1
    <3> QED
      BY <1>1, <1>3, <2>1, <3>1, <3>2, <3>3, <3>4, AvancePaso DEF EInv
  <2>5. Tabla'
    BY <1>1, <1>3, <2>1, <2>2, TablaPaso DEF EInv
  <2>6. Escritura'
    <3>1. DOMAIN salida \subseteq 0 .. position - 1 /\ \A p \in Leidas : EstaEscrita(f, Leidas, salida, p)
      BY <1>1 DEF EInv, Escritura, Vive
    <3>3. n = En(f, Aca).nombre
      BY <1>2
    <3>4. Aca \in Etiquetas(f) \ Leidas
      BY <1>1, <1>4
    <3>5. \A p \in Leidas : EstaEscrita(f, Leidas \cup {Aca}, salida', p)
      <4> SUFFICES ASSUME NEW p \in Leidas PROVE EstaEscrita(f, Leidas \cup {Aca}, salida', p)
        OBVIOUS
      <4> DEFINE obs == labels[i].obs
      <4>1. salida' = Completa(obs, salida, Direccion(f, Aca))
        BY <1>1, <2>1
      <4>2. /\ Range(obs) = Huecos(f, Pendientes(f, Leidas, Aca[1], n)) /\ obs \in Seq(Nat)
            /\ {q \in Leidas \cap Etiquetas(f) : q[1] = Aca[1] /\ En(f, q).nombre = n} = {}
        BY <1>2, <2>2
      <4>3. EstaEscrita(f, Leidas, salida, p)
        BY <3>1
      <4> HIDE DEF obs, n, i
      <4>4. EstaEscrita(f, Leidas \cup {Aca}, Completa(obs, salida, Direccion(f, Aca)), p)
        BY <1>1, <3>3, <3>4, <4>2, <4>3, EtiquetaEscribe
      <4> QED
        BY <4>1, <4>4
    <3>6. EstaEscrita(f, Leidas \cup {Aca}, salida', Aca)
      BY <1>4, NadaEscrito
    <3>7. DOMAIN salida' = DOMAIN salida
      BY <2>1 DEF Completa
    <3> QED
      BY <1>1, <1>3, <2>1, <3>1, <3>5, <3>6, <3>7, EscrituraPaso DEF EInv
  <2>7. Caidas'
    <3>1. roto' => Excedida(f, Aca)
      BY <1>1, <1>3 DEF EInv, Caidas
    <3> QED
      BY <1>1, <1>3, <2>1, <3>1, CaidasPaso DEF EInv
  <2>8. Listado'
    BY <1>1, <1>3, <2>1, <2>3, <2>4, ListadoPaso DEF EInv
  <2> QED
    BY <2>3, <2>4, <2>5, <2>6, <2>7, <2>8 DEF EInv
<1> QED
  BY <1>5, <1>6, <1>7

-------------------------------------------------------------------------------
(* Instructions *)

\* A line that assembleLine translates is right, and so is what the table gives it.
LEMMA InstruccionLista ==
  ASSUME EInv, estado = "traduce", ~isData, ~Erronea(Linea),
         Linea.tipo \in {"texto", "numero", "instruccion", "vacia"}
  PROVE  /\ Lista(Linea) /\ Aca \in Programa(fuente) /\ Valida(fuente, Aca)
         /\ Aca \notin Etiquetas(fuente)
         /\ \A k \in 1 .. Len(Regla(Linea.op)) : Linea.parametros[k].t = "ref" =>
              LET m == findLabel(<<Linea.parametros[k].nombre>>, labels) IN
              /\ m \in DOMAIN labels /\ Linea.parametros[k].nombre \in Nombres(fuente)
              /\ labels[m].label = <<Linea.parametros[k].nombre>>
              /\ Cumple(fuente, Leidas, archivo, labels[m], Linea.parametros[k].nombre)
<1> DEFINE f == fuente
           n == Len(Regla(Linea.op))
<1>1. /\ Aca \in Lugares(f) /\ position \in Nat /\ isData = EsDato(f, Aca) /\ f \in Fuentes
  BY AcaNueva DEF EInv
<1>2. Linea = En(f, Aca) /\ Linea \in Lineas /\ Aca[1] = archivo
  BY AcaEsta DEF EInv
<1>3. /\ labels \in Seq(Entradas)
      /\ \A j \in DOMAIN labels :
           \E q \in Etiquetas(f) : q[1] = archivo /\ labels[j].label = Texto(En(f, q))
      /\ \A y \in Nombres(f) : findLabel(<<y>>, labels) # 0 =>
           Cumple(f, Leidas, archivo, labels[findLabel(<<y>>, labels)], y)
  BY DEF EInv, Tabla, Tablero
<1>4. Lista(Linea)
  BY <1>1, <1>2, <1>3 DEF Lista, EInv, Escritura, Vive
<1>5. Aca \in Programa(f) /\ Aca \notin Etiquetas(f)
  BY <1>1, <1>2 DEF Programa, Sentencia, Etiquetas
<1>6. /\ Linea.tipo = "instruccion" /\ Linea.op \in Codigos /\ n \in 0 .. 3
      /\ n <= Len(Linea.parametros)
      /\ \A k \in 1 .. n :
           /\ Regla(Linea.op)[k] \in {"R", "N"}
           /\ Regla(Linea.op)[k] = "R" => Linea.parametros[k].t = "reg"
           /\ Regla(Linea.op)[k] = "N" /\ Linea.parametros[k].t = "ref" =>
                /\ findLabel(<<Linea.parametros[k].nombre>>, labels) \in DOMAIN labels
                /\ labels[findLabel(<<Linea.parametros[k].nombre>>, labels)].label
                     = <<Linea.parametros[k].nombre>>
  BY <1>4, SinErrores
<1>7. ASSUME NEW k \in 1 .. n, Linea.parametros[k].t = "ref"
      PROVE  LET y == Linea.parametros[k].nombre
                 m == findLabel(<<y>>, labels)
             IN /\ m \in DOMAIN labels /\ labels[m].label = <<y>>
                /\ y \in Nombres(f) /\ Cumple(f, Leidas, archivo, labels[m], y)
                /\ Definiciones(f, Aca, y) # {}
  <2> DEFINE y == Linea.parametros[k].nombre
             m == findLabel(<<y>>, labels)
  <2>1. m \in DOMAIN labels /\ labels[m].label = <<y>>
    <3>1. Regla(Linea.op)[k] \in {"R", "N"} /\ Regla(Linea.op)[k] # "R"
      BY <1>6, <1>7
    <3> QED
      BY <1>6, <1>7, <3>1
  <2> HIDE DEF m, y
  <2>2. PICK q \in Etiquetas(f) : q[1] = archivo /\ labels[m].label = Texto(En(f, q))
    BY <1>3, <2>1
  <2>3. En(f, q).nombre = y
    BY <2>1, <2>2, TextoIgual
  <2>4. y \in Nombres(f)
    BY <2>3 DEF Nombres
  <2>5. m # 0
    <3>1. DOMAIN labels = 1 .. Len(labels)
      BY <1>3
    <3> QED
      BY <2>1, <3>1
  <2>6. Cumple(f, Leidas, archivo, labels[m], y)
    BY <1>3, <2>4, <2>5 DEF m
  <2>7. q \in Definiciones(f, Aca, y)
    BY <1>2, <2>2, <2>3 DEF Definiciones, Etiquetas
  <2> QED
    BY <2>1, <2>4, <2>6, <2>7 DEF m, y
<1>8. Valida(f, Aca)
  <2>1. DOMAIN Regla(Linea.op) = 1 .. n
    BY <1>6, ReglaTipo
  <2>2. \A k \in DOMAIN Regla(Linea.op) :
          /\ Regla(Linea.op)[k] = "R" => Linea.parametros[k].t = "reg"
          /\ Regla(Linea.op)[k] = "N" /\ Linea.parametros[k].t = "ref" =>
               Definiciones(f, Aca, Linea.parametros[k].nombre) # {}
    BY <1>6, <1>7, <2>1
  <2> QED
    BY <1>2, <1>6, <2>2 DEF Valida
<1> QED
  BY <1>4, <1>5, <1>7, <1>8

\* The references of the line are those that Suyos has for their entry.
LEMMA PendientesMas ==
  ASSUME EInv, estado = "traduce", ~isData, ~Erronea(Linea),
         Linea.tipo \in {"texto", "numero", "instruccion", "vacia"},
         NEW y \in Nombres(fuente), NEW m, m = findLabel(<<y>>, labels), m # 0,
         NEW S, S = Suyos(Linea, Len(Regla(Linea.op)), m)
  PROVE  LET P == Pendientes(fuente, Leidas, archivo, y)
             Q == Pendientes(fuente, Leidas \cup {Aca}, archivo, y)
         IN /\ Q = P \cup {<<Aca, k>> : k \in S}
            /\ Cardinality(Q) = Cardinality(P) + Cardinality(S)
            /\ Cardinality(P) \in Nat /\ Cardinality(S) \in Nat
            /\ Huecos(fuente, Q) =
                 Huecos(fuente, P) \cup {position + Lugar(Linea.op, k) : k \in S}
<1> DEFINE f == fuente
           n == Len(Regla(Linea.op))
           P == Pendientes(f, Leidas, archivo, y)
           Q == Pendientes(f, Leidas \cup {Aca}, archivo, y)
           N == {Aca} \X S
<1>1. /\ f \in Fuentes /\ Prefijo(f, Leidas) /\ Aca \in Lugares(f) \ Leidas
      /\ position = Direccion(f, Aca)
  BY AcaNueva DEF EInv
<1>2. Linea = En(f, Aca) /\ Aca[1] = archivo
  BY AcaEsta DEF EInv
<1>3. /\ Lista(Linea) /\ Aca \in Programa(f)
      /\ \A k \in 1 .. n : Linea.parametros[k].t = "ref" =>
           labels[findLabel(<<Linea.parametros[k].nombre>>, labels)].label
             = <<Linea.parametros[k].nombre>>
  BY InstruccionLista
<1>4. n \in 0 .. 3 /\ DOMAIN Regla(Linea.op) = 1 .. n
  BY <1>3, SinErrores, ReglaTipo
<1>5. labels[m].label = <<y>> /\ labels \in Seq(Entradas)
  <2>1. labels \in Seq(Entradas)
    BY <1>3 DEF Lista
  <2> QED
    BY <2>1, FindLabelEs
<1>6. ASSUME NEW k \in 1 .. n
      PROVE  k \in S <=> k \in Referencias(f, Aca) /\ En(f, Aca).parametros[k].nombre = y
  <2> DEFINE x == Linea.parametros[k]
  <2>1. k \in S <=> x.t = "ref" /\ findLabel(<<x.nombre>>, labels) = m
    BY DEF Suyos
  <2>2. k \in Referencias(f, Aca) <=> x.t = "ref"
    BY <1>2, <1>4 DEF Referencias
  <2>3. x.t = "ref" /\ findLabel(<<x.nombre>>, labels) = m => x.nombre = y
    <3> SUFFICES ASSUME x.t = "ref", findLabel(<<x.nombre>>, labels) = m PROVE x.nombre = y
      OBVIOUS
    <3>1. labels[m].label = <<x.nombre>>
      BY <1>3
    <3>2. <<x.nombre>> = <<y>>
      BY <1>5, <3>1
    <3> QED
      BY <3>2
  <2> QED
    BY <1>2, <2>1, <2>2, <2>3
<1>7. S \in SUBSET (1 .. n)
  BY DEF Suyos
<1>8. Q = P \cup N
  <2>1. ASSUME NEW x
        PROVE  x \in Q <=> x \in P \/ x \in N
    <3>1. x \in Q <=> /\ x \in {q \in Programa(f) \cap (Leidas \cup {Aca}) : q[1] = archivo} \X (1 .. 3)
                      /\ x[2] \in Referencias(f, x[1]) /\ En(f, x[1]).parametros[x[2]].nombre = y
      BY DEF Pendientes
    <3>2. x \in P <=> /\ x \in {q \in Programa(f) \cap Leidas : q[1] = archivo} \X (1 .. 3)
                      /\ x[2] \in Referencias(f, x[1]) /\ En(f, x[1]).parametros[x[2]].nombre = y
      BY DEF Pendientes
    <3>3. x \in N <=> /\ x \in {Aca} \X (1 .. 3)
                      /\ x[2] \in Referencias(f, Aca) /\ En(f, Aca).parametros[x[2]].nombre = y
      <4>1. S \subseteq 1 .. 3 /\ 1 .. n \subseteq 1 .. 3
        <5> HIDE DEF n
        <5>1. 1 .. n \subseteq 1 .. 3
          BY <1>4
        <5> QED
          BY <1>7, <5>1
      <4>2. \A k \in Referencias(f, Aca) : k \in 1 .. n
        BY <1>2, <1>4 DEF Referencias
      <4>3. \A k : k \in S <=> k \in 1 .. n /\ k \in S
        BY <1>7
      <4>4. \A k : k \in S <=> k \in Referencias(f, Aca) /\ En(f, Aca).parametros[k].nombre = y
        BY <1>6, <4>2, <4>3
      <4> HIDE DEF f, n
      <4> QED
        BY <4>1, <4>4
    <3> QED
      BY <1>2, <1>3, <3>1, <3>2, <3>3
  <2> QED
    BY <2>1
<1>9. IsFiniteSet(P) /\ Cardinality(P) \in Nat
  <2>1. Cumple(f, Leidas, archivo, labels[m], y)
    BY DEF EInv, Tabla, Tablero
  <2> QED
    BY <1>1, <2>1, EntradaEs
<1>10. IsFiniteSet(S) /\ Cardinality(S) \in Nat
  <2>1. 1 \in Int /\ n \in Int
    BY <1>4
  <2>2. IsFiniteSet(1 .. n)
    BY <2>1, FS_Interval, Zenon
  <2> QED
    BY <1>7, <2>2, CardinalMonotono
<1>11. IsFiniteSet(N) /\ Cardinality(N) = Cardinality(S)
  <2>1. IsFiniteSet({Aca}) /\ Cardinality({Aca}) = 1
    BY FS_Singleton
  <2>2. IsFiniteSet(N) /\ Cardinality(N) = 1 * Cardinality(S)
    BY <1>10, <2>1, FS_Product
  <2> QED
    BY <1>10, <2>2
<1>12. P \cap N = {}
  <2>1. \A x \in P : x[1] \in Leidas
    BY DEF Pendientes
  <2> QED
    BY <1>1, <2>1
<1>13. N = {<<Aca, k>> : k \in S}
  OBVIOUS
<1> HIDE DEF P, Q, N
<1>14. Cardinality(Q) = Cardinality(P) + Cardinality(S)
  <2>1. Cardinality(P \cap N) = 0
    BY <1>12, FS_EmptySet
  <2>2. Cardinality(P \cup N) = Cardinality(P) + Cardinality(N) - Cardinality(P \cap N)
    BY <1>9, <1>11, FS_Union
  <2> QED
    BY <1>8, <1>9, <1>10, <1>11, <2>1, <2>2
<1>15. Huecos(f, Q) = Huecos(f, P) \cup {position + Lugar(Linea.op, k) : k \in S}
  <2> DEFINE H(x) == Direccion(f, x[1]) + Lugar(En(f, x[1]).op, x[2])
  <2>1. {H(x) : x \in N} = {position + Lugar(Linea.op, k) : k \in S}
    <3>1. \A k : H(<<Aca, k>>) = position + Lugar(Linea.op, k)
      BY <1>1, <1>2
    <3>2. \A x \in N : \E k \in S : x = <<Aca, k>>
      BY <1>13
    <3>3. \A k \in S : <<Aca, k>> \in N
      BY <1>13
    <3> HIDE DEF H
    <3>4. \A x \in N : \E k \in S : H(x) = position + Lugar(Linea.op, k)
      BY <3>1, <3>2
    <3>5. \A k \in S : \E x \in N : H(x) = position + Lugar(Linea.op, k)
      BY <3>1, <3>3
    <3> QED
      BY <3>4, <3>5
  <2>2. Huecos(f, P) = {H(x) : x \in P} /\ Huecos(f, Q) = {H(x) : x \in Q}
    BY DEF Huecos
  <2> HIDE DEF H
  <2> QED
    BY <1>8, <2>1, <2>2
<1> QED
  BY <1>8, <1>9, <1>10, <1>13, <1>14, <1>15 DEF P, Q

\* The table after an instruction.
LEMMA InstruccionTabla ==
  ASSUME EInv, estado = "traduce", ~isData, ~Erronea(Linea),
         Linea.tipo \in {"texto", "numero", "instruccion", "vacia"},
         NEW c, Traducida(Linea, Len(Regla(Linea.op)), c)
  PROVE  Tablero(fuente, Leidas \cup {Aca}, archivo, c.tabla)
<1> DEFINE f == fuente
           n == Len(Regla(Linea.op))
           t == c.tabla
           M == Leidas \cup {Aca}
           De(L, y) == {q \in L \cap Etiquetas(f) : q[1] = archivo /\ En(f, q).nombre = y}
<1>1. f \in Fuentes /\ Prefijo(f, Leidas)
  BY AcaNueva DEF EInv
<1>2. /\ Lista(Linea) /\ Aca \notin Etiquetas(f)
      /\ \A k \in 1 .. n : Linea.parametros[k].t = "ref" => Linea.parametros[k].nombre \in Nombres(f)
  BY InstruccionLista
<1>3. /\ labels \in Seq(Entradas)
      /\ \A j \in DOMAIN labels :
           /\ \E q \in Etiquetas(f) : q[1] = archivo /\ labels[j].label = Texto(En(f, q))
           /\ labels[j].obsSize <= 0 \/ \E y \in Nombres(f) : j = findLabel(<<y>>, labels)
      /\ \A y \in Nombres(f) : findLabel(<<y>>, labels) # 0 =>
           Cumple(f, Leidas, archivo, labels[findLabel(<<y>>, labels)], y)
  BY DEF EInv, Tabla, Tablero
<1>4. /\ t \in Seq(Entradas) /\ Len(t) = Len(labels)
      /\ \A m \in DOMAIN labels :
           /\ t[m].label = labels[m].label /\ t[m].point = labels[m].point
           /\ IF labels[m].point # -1 THEN t[m] = labels[m]
              ELSE /\ t[m].obsSize = labels[m].obsSize + Cardinality(Suyos(Linea, n, m))
                   /\ Range(t[m].obs) = Range(labels[m].obs) \cup
                                        {position + Lugar(Linea.op, j) : j \in Suyos(Linea, n, m)}
  BY DEF Traducida
<1> HIDE DEF t
<1>5. DOMAIN t = DOMAIN labels
  BY <1>3, <1>4
<1>6. \A x : findLabel(x, t) = findLabel(x, labels)
  BY <1>3, <1>4, FindLabelIgual
<1>7. \A y : De(M, y) = De(Leidas, y)
  BY <1>2
<1>8. ASSUME NEW y \in Nombres(f), findLabel(<<y>>, labels) # 0
      PROVE  Cumple(f, M, archivo, t[findLabel(<<y>>, labels)], y)
  <2> DEFINE m == findLabel(<<y>>, labels)
             S == Suyos(Linea, n, m)
             P == Pendientes(f, Leidas, archivo, y)
             Q == Pendientes(f, M, archivo, y)
  <2>1. m \in DOMAIN labels /\ Cumple(f, Leidas, archivo, labels[m], y)
    BY <1>3, <1>8, FindLabelEs
  <2>2. /\ De(Leidas, y) = {} <=> labels[m].point = -1
        /\ \A q \in De(Leidas, y) : labels[m].point = Direccion(f, q)
        /\ De(Leidas, y) = {} => /\ labels[m].obsSize = Cardinality(P)
                                 /\ Range(labels[m].obs) = Huecos(f, P)
    BY <1>1, <2>1, EntradaEs
  <2>3. CASE De(Leidas, y) = {}
    <3>1. /\ Cardinality(Q) = Cardinality(P) + Cardinality(S)
          /\ Huecos(f, Q) = Huecos(f, P) \cup {position + Lugar(Linea.op, k) : k \in S}
      BY <1>8, PendientesMas
    <3>2. /\ t[m].point = -1 /\ t[m].obsSize = Cardinality(P) + Cardinality(S)
          /\ Range(t[m].obs) = Huecos(f, P) \cup {position + Lugar(Linea.op, k) : k \in S}
      BY <1>4, <2>1, <2>2, <2>3
    <3>3. De(M, y) = {} /\ t[m].obsSize = Cardinality(Q) /\ Range(t[m].obs) = Huecos(f, Q)
      BY <1>7, <2>3, <3>1, <3>2
    <3> QED
      BY <3>2, <3>3 DEF Cumple
  <2>4. CASE De(Leidas, y) # {}
    <3>1. t[m] = labels[m] /\ De(M, y) # {} /\ De(M, y) = De(Leidas, y)
      BY <1>4, <1>7, <2>1, <2>2, <2>4
    <3>2. labels[m].obs = <<>> /\ labels[m].obsSize = -1 /\ \A q \in De(M, y) : labels[m].point = Direccion(f, q)
      BY <2>1, <3>1 DEF Cumple
    <3> QED
      BY <3>1, <3>2 DEF Cumple
  <2> QED
    BY <2>3, <2>4
<1>9. ASSUME NEW j \in DOMAIN t
      PROVE  t[j].obsSize <= 0 \/ \E y \in Nombres(f) : j = findLabel(<<y>>, t)
  <2>1. labels[j].obsSize <= 0 \/ \E y \in Nombres(f) : j = findLabel(<<y>>, labels)
    BY <1>3, <1>5
  <2>2. CASE labels[j].point # -1
    <3>1. t[j] = labels[j]
      BY <1>4, <1>5, <2>2
    <3> QED
      BY <1>6, <2>1, <3>1
  <2>3. CASE labels[j].point = -1 /\ Suyos(Linea, n, j) = {}
    <3>1. Cardinality(Suyos(Linea, n, j)) = 0
      BY <2>3, FS_EmptySet
    <3>2. labels[j].obsSize \in Int
      <4>1. labels[j] \in Entradas
        BY <1>3, <1>5
      <4> QED
        BY <4>1 DEF Entradas
    <3>3. t[j].obsSize = labels[j].obsSize
      <4>1. t[j].obsSize = labels[j].obsSize + Cardinality(Suyos(Linea, n, j))
        BY <1>4, <1>5, <2>3
      <4> DEFINE z == Cardinality(Suyos(Linea, n, j))
                 o == labels[j].obsSize
      <4>2. t[j].obsSize = o + z /\ z = 0 /\ o \in Int
        BY <3>1, <3>2, <4>1
      <4> HIDE DEF z, o
      <4>3. t[j].obsSize = o
        BY <4>2
      <4> QED
        BY <4>3 DEF o
    <3> QED
      BY <1>6, <2>1, <3>3
  <2>4. CASE Suyos(Linea, n, j) # {}
    <3>1. PICK k \in Suyos(Linea, n, j) : TRUE
      BY <2>4
    <3>2. k \in 1 .. n /\ Linea.parametros[k].t = "ref"
          /\ findLabel(<<Linea.parametros[k].nombre>>, labels) = j
      BY DEF Suyos
    <3>3. Linea.parametros[k].nombre \in Nombres(f)
      BY <1>2, <3>2
    <3> QED
      BY <1>6, <3>2, <3>3
  <2> QED
    BY <2>2, <2>3, <2>4
<1>10. \A j \in DOMAIN t : \E q \in Etiquetas(f) : q[1] = archivo /\ t[j].label = Texto(En(f, q))
  BY <1>3, <1>4, <1>5
<1>11. \A y \in Nombres(f) : findLabel(<<y>>, t) # 0 => Cumple(f, M, archivo, t[findLabel(<<y>>, t)], y)
  BY <1>6, <1>8
<1> HIDE DEF f, M
<1>12. Tablero(f, M, archivo, t)
  BY <1>4, <1>9, <1>10, <1>11 DEF Tablero
<1> QED
  BY <1>12 DEF f, M, t

\* What is written of an instruction is right as far as the labels read.
LEMMA InstruccionEscribe ==
  ASSUME EInv, estado = "traduce", ~isData, ~Erronea(Linea),
         Linea.tipo \in {"texto", "numero", "instruccion", "vacia"},
         NEW c, Traducida(Linea, Len(Regla(Linea.op)), c)
  PROVE  /\ c.dir = position + Largo(fuente, Aca)
         /\ DOMAIN c.en \subseteq 0 .. c.dir - 1
         /\ \A p \in Leidas \cup {Aca} : EstaEscrita(fuente, Leidas \cup {Aca}, c.en, p)
<1> DEFINE f == fuente
           op == Linea.op
           n == Len(Regla(op))
           s == c.en
           M == Leidas \cup {Aca}
<1>1. /\ f \in Fuentes /\ Prefijo(f, Leidas) /\ Aca \in Lugares(f) \ Leidas
      /\ position = Direccion(f, Aca) /\ position \in Nat
  BY AcaNueva DEF EInv
<1>2. Linea = En(f, Aca) /\ Aca[1] = archivo
  BY AcaEsta DEF EInv
<1>3. /\ Lista(Linea) /\ Aca \in Programa(f) /\ Valida(f, Aca) /\ Aca \notin Etiquetas(f)
      /\ \A k \in 1 .. n : Linea.parametros[k].t = "ref" =>
           LET m == findLabel(<<Linea.parametros[k].nombre>>, labels) IN
           Cumple(f, Leidas, archivo, labels[m], Linea.parametros[k].nombre)
  BY InstruccionLista
<1>4. /\ op \in Codigos /\ n \in 0 .. 3
      /\ \A k \in 1 .. n :
           /\ Linea.parametros[k] \in Argumentos
           /\ Regla(op)[k] \in {"R", "N"}
           /\ Regla(op)[k] = "R" => Linea.parametros[k].t = "reg"
  BY <1>3, SinErrores
<1>5. /\ c.dir = position + Lugar(op, n + 1)
      /\ DOMAIN s = DOMAIN salida \cup {position} \cup {position + Lugar(op, j) : j \in 1 .. n}
      /\ \A d \in DOMAIN salida : s[d] = salida[d]
      /\ s[position] = Item("codigo", op)
      /\ \A j \in 1 .. n : s[position + Lugar(op, j)] = Escrito(Linea, j)
  BY DEF Traducida
<1>6. DOMAIN Regla(op) = 1 .. n
  BY <1>4, ReglaTipo
<1>7. /\ Lugar(op, n + 1) = Tamanio(op) /\ Tamanio(op) \in Nat /\ Tamanio(op) >= 4
      /\ \A j \in 1 .. n : Lugar(op, j) \in Nat /\ Lugar(op, j) < Tamanio(op)
  <2>1. Lugar(op, n + 1) = Tamanio(op)
    BY DEF Tamanio
  <2>2. /\ \A j \in 1 .. n + 1 : Lugar(op, j) \in Nat
        /\ \A j, k \in 1 .. n + 1 : j < k => Lugar(op, j) < Lugar(op, k)
        /\ Tamanio(op) \in Nat /\ Tamanio(op) >= 4
    BY <1>4, LugarOrden
  <2>3. n + 1 \in 1 .. n + 1 /\ \A j \in 1 .. n : j \in 1 .. n + 1 /\ j < n + 1
    BY <1>4
  <2> QED
    BY <2>1, <2>2, <2>3
<1>8. c.dir = position + Largo(f, Aca)
  <2>1. Largo(f, Aca) = Tamanio(op)
    BY <1>1, <1>2, <1>3, LargoTipo
  <2> QED
    BY <1>5, <1>7, <2>1
<1>9. DOMAIN salida \subseteq 0 .. position - 1 /\ \A p \in Leidas : EstaEscrita(f, Leidas, salida, p)
  BY DEF EInv, Escritura, Vive
<1> HIDE DEF s, n
<1>10. DOMAIN s \subseteq 0 .. c.dir - 1
  <2> SUFFICES ASSUME NEW d \in DOMAIN s PROVE d \in 0 .. c.dir - 1
    OBVIOUS
  <2>1. CASE d \in DOMAIN salida
    BY <1>1, <1>5, <1>7, <1>9, <2>1
  <2>2. CASE d = position
    BY <1>1, <1>5, <1>7, <2>2
  <2>3. CASE \E j \in 1 .. n : d = position + Lugar(op, j)
    BY <1>1, <1>5, <1>7, <2>3
  <2> QED
    BY <1>5, <2>1, <2>2, <2>3
<1>11. \A p \in Leidas : EstaEscrita(f, M, s, p)
  <2>1. En(f, Aca).tipo # "etiqueta"
    BY <1>1, <1>3 DEF Etiquetas
  <2>2. DOMAIN salida \subseteq DOMAIN s
    BY <1>5
  <2> QED
    BY <1>5, <1>9, <2>1, <2>2, EscritaSigue
<1>12. ASSUME NEW k \in 1 .. n
       PROVE  SinSentido(f, Aca, k) \/ Vale(f, M, Aca, k, Escrito(Linea, k).valor)
  <2> DEFINE x == Linea.parametros[k]
             v == Escrito(Linea, k).valor
  <2>1. En(f, Aca).parametros[k] = x /\ En(f, Aca).op = op
    BY <1>2
  <2>2. CASE Regla(op)[k] = "R"
    <3>1. x.t = "reg"
      BY <1>4, <2>2
    <3>2. v = x.r
      BY <2>2 DEF Escrito, Item
    <3> HIDE DEF v
    <3>3. Vale(f, M, Aca, k, v)
      BY <2>1, <3>1, <3>2 DEF Vale
    <3> QED
      BY <3>3 DEF v
  <2>3. CASE Regla(op)[k] = "N"
    <3>1. v = Numero(op, x, labels)
      BY <2>3 DEF Escrito, Item
    <3>2. x.t \in {"reg", "num", "llamada", "ref"}
      BY <1>4 DEF Argumentos
    <3> HIDE DEF v
    <3>3. CASE x.t = "reg"
      BY <2>1, <2>3, <3>3 DEF SinSentido
    <3>4. CASE x.t = "num"
      <4>1. v = x.n
        BY <3>1, <3>4 DEF Numero
      <4>2. Vale(f, M, Aca, k, v)
        BY <2>1, <3>4, <4>1 DEF Vale
      <4> QED
        BY <4>2 DEF v
    <3>5. CASE x.t = "llamada" /\ op # "INTE"
      BY <2>1, <3>5 DEF SinSentido
    <3>6. CASE x.t = "llamada" /\ op = "INTE"
      <4>1. v = x.n
        BY <3>1, <3>6 DEF Numero
      <4>2. Vale(f, M, Aca, k, v)
        BY <2>1, <3>6, <4>1 DEF Vale
      <4> QED
        BY <4>2 DEF v
    <3>7. CASE x.t = "ref" /\ op = "INTE"
      BY <2>1, <3>7 DEF SinSentido
    <3>8. CASE x.t = "ref" /\ op # "INTE"
      <4> DEFINE m == findLabel(<<x.nombre>>, labels)
      <4>1. v = labels[m].point
        BY <3>1, <3>8 DEF Numero
      <4>2. Cumple(f, Leidas, archivo, labels[m], x.nombre)
        BY <1>3, <3>8 DEF n
      <4>3. ASSUME NEW q \in Definiciones(f, Aca, x.nombre) \cap M
            PROVE  v = Direccion(f, q)
        <5>1. q \in Leidas \cap Etiquetas(f) /\ q[1] = archivo /\ En(f, q).nombre = x.nombre
          BY <1>2, <1>3 DEF Definiciones, Etiquetas
        <5> QED
          BY <1>1, <4>1, <4>2, <5>1, EntradaEs
      <4>4. Vale(f, M, Aca, k, v)
        BY <2>1, <3>8, <4>3 DEF Vale
      <4> QED
        BY <4>4 DEF v
    <3> QED
      BY <3>2, <3>3, <3>4, <3>5, <3>6, <3>7, <3>8
  <2> QED
    BY <1>4, <2>2, <2>3 DEF n
<1>13. EstaEscrita(f, M, s, Aca)
  <2>1. position \in DOMAIN s /\ \A k \in 1 .. n : position + Lugar(op, k) \in DOMAIN s
    BY <1>5
  <2>2. \A k \in 1 .. n : SinSentido(f, Aca, k) \/ Vale(f, M, Aca, k, s[position + Lugar(op, k)].valor)
    BY <1>5, <1>12
  <2>3. ~EsDato(f, Aca) /\ En(f, Aca).op = op
    BY <1>2, <1>3 DEF Programa
  <2> HIDE DEF op
  <2> QED
    BY <1>1, <1>5, <1>6, <2>1, <2>2, <2>3 DEF EstaEscrita
<1> QED
  BY <1>8, <1>10, <1>11, <1>13 DEF s

\* The memory is written over when too many references wait for a label.
LEMMA InstruccionDesborda ==
  ASSUME EInv, estado = "traduce", Valida(fuente, Aca),
         NEW t, Tablero(fuente, Leidas \cup {Aca}, archivo, t), Desborda(t)
  PROVE  \E e \in Etiquetas(fuente) : e[1] = archivo /\
           Cardinality(Esperan(fuente, Aca, En(fuente, e).nombre)) > CABEN
<1> DEFINE f == fuente
           M == Leidas \cup {Aca}
<1>1. /\ f \in Fuentes /\ Prefijo(f, Leidas) /\ Aca \in Lugares(f) \ Leidas
      /\ Leidas = Previos(f, Aca)
  BY AcaNueva DEF EInv
<1>2. Aca[1] = archivo
  BY AcaEsta DEF EInv
<1>3. Prefijo(f, M)
  BY <1>1 DEF Prefijo
<1>4. PICK k \in DOMAIN t : t[k].obsSize > CABEN
  BY DEF Desborda
<1>5. /\ t \in Seq(Entradas)
      /\ \E q \in Etiquetas(f) : q[1] = archivo /\ t[k].label = Texto(En(f, q))
      /\ t[k].obsSize <= 0 \/ \E y \in Nombres(f) : k = findLabel(<<y>>, t)
      /\ \A y \in Nombres(f) : findLabel(<<y>>, t) # 0 =>
           Cumple(f, M, archivo, t[findLabel(<<y>>, t)], y)
  BY DEF Tablero
<1>6. t[k].obsSize \in Int /\ CABEN \in Nat /\ k # 0
  <2>1. t[k] \in Entradas /\ DOMAIN t = 1 .. Len(t)
    BY <1>5
  <2> QED
    BY <2>1, FuentesAssumption DEF Entradas
<1>7. ~(t[k].obsSize <= 0) /\ t[k].obsSize # -1
  BY <1>4, <1>6
<1>8. PICK y \in Nombres(f) : k = findLabel(<<y>>, t)
  BY <1>5, <1>7
<1>9. t[k].label = <<y>> /\ Cumple(f, M, archivo, t[k], y)
  BY <1>5, <1>6, <1>8, FindLabelEs
<1>10. PICK e \in Etiquetas(f) : e[1] = archivo /\ t[k].label = Texto(En(f, e))
  BY <1>5
<1>11. En(f, e).nombre = y
  BY <1>9, <1>10, TextoIgual
<1> DEFINE D == {q \in M \cap Etiquetas(f) : q[1] = archivo /\ En(f, q).nombre = y}
<1>12. D = {} /\ t[k].obsSize = Cardinality(Pendientes(f, M, archivo, y))
  BY <1>1, <1>3, <1>7, <1>9, EntradaEs
<1>13. Esperan(f, Aca, y) = Pendientes(f, M, archivo, y)
  <2>1. \A q \in Lugares(f) : ~Antes(Aca, q) <=> q \in M
    BY <1>1, OrdenTotal DEF Previos
  <2>2. {q \in Programa(f) : q[1] = Aca[1] /\ ~Antes(Aca, q)} = {q \in Programa(f) \cap M : q[1] = archivo}
    BY <1>2, <2>1 DEF Programa
  <2>3. \A d \in Definiciones(f, Aca, y) : Antes(Aca, d)
    BY <1>2, <1>12, <2>1 DEF Definiciones, Etiquetas
  <2> QED
    BY <2>2, <2>3 DEF Esperan, Pendientes
<1>14. Cardinality(Esperan(f, Aca, y)) > CABEN
  BY <1>4, <1>12, <1>13
<1> QED
  BY <1>10, <1>11, <1>14

\* A line outside DATA that is not a comment or a label.
LEMMA InstruccionPaso ==
  ASSUME EInv, Instruccion
  PROVE  EInv'
<1> DEFINE f == fuente
           c == Escrita(Linea)
<1>1. /\ estado = "traduce" /\ ~isData /\ Linea.tipo \in {"texto", "numero", "instruccion", "vacia"}
      /\ UNCHANGED <<fuente, listado>>
  BY DEF Instruccion
<1>2. CASE Erronea(Linea)
  <2>1. Termina("aborta") /\ UNCHANGED roto
    BY <1>2 DEF Instruccion
  <2> QED
    BY <1>1, <2>1, TerminaPaso DEF Termina
<1>3. CASE ~Erronea(Linea)
  <2>1. /\ salida' = c.en /\ position' = c.dir /\ labels' = c.tabla
        /\ roto' = (roto \/ Desborda(c.tabla)) /\ Pasa /\ UNCHANGED isData
    BY <1>3 DEF Instruccion
  <2>2. Lista(Linea) /\ Valida(f, Aca) /\ Aca \in Programa(f)
    BY <1>1, <1>3, InstruccionLista
  <2>3. Traducida(Linea, Len(Regla(Linea.op)), c)
    BY <2>2, EscritaTraduce
  <2> HIDE DEF c
  <2>4. /\ c.dir = position + Largo(f, Aca) /\ DOMAIN c.en \subseteq 0 .. c.dir - 1
        /\ \A p \in Leidas \cup {Aca} : EstaEscrita(f, Leidas \cup {Aca}, c.en, p)
    BY <1>1, <1>3, <2>3, InstruccionEscribe
  <2>5. Tablero(f, Leidas \cup {Aca}, archivo, c.tabla)
    BY <1>1, <1>3, <2>3, InstruccionTabla
  <2>6. Tipos'
    <3>1. isData' \in BOOLEAN /\ roto' \in BOOLEAN
      <4>1. isData \in BOOLEAN /\ roto \in BOOLEAN
        BY DEF EInv, Tipos
      <4> QED
        BY <2>1, <4>1 DEF Desborda
    <3> QED
      BY <1>1, <2>1, <3>1, TiposPaso DEF EInv
  <2>7. Avance'
    <3>1. isData' = (isData \/ Linea.tipo = "data") /\ Linea.tipo # "etiqueta"
      BY <1>1, <2>1 DEF EInv, Tipos
    <3> QED
      BY <1>1, <2>1, <2>2, <2>4, <3>1, AvancePaso DEF EInv
  <2>8. Tabla'
    BY <1>1, <2>1, <2>5, TablaPaso DEF EInv
  <2>9. Escritura'
    BY <1>1, <2>1, <2>4, EscrituraPaso DEF EInv
  <2>10. Caidas'
    <3>1. roto => Excedida(f, Aca)
      BY <1>1 DEF EInv, Caidas
    <3>2. Desborda(c.tabla) => \E e \in Etiquetas(f) : e[1] = archivo /\
                                 Cardinality(Esperan(f, Aca, En(f, e).nombre)) > CABEN
      BY <1>1, <2>2, <2>5, InstruccionDesborda
    <3> QED
      BY <1>1, <2>1, <3>1, <3>2, CaidasPaso DEF EInv
  <2>11. Listado'
    BY <1>1, <2>1, <2>6, <2>7, ListadoPaso DEF EInv
  <2> QED
    BY <2>6, <2>7, <2>8, <2>9, <2>10, <2>11 DEF EInv
<1> QED
  BY <1>2, <1>3

\* The first pass over a file, of which no line has been read.
LEMMA PrimeraPasadaPaso ==
  ASSUME EInv, PrimeraPasada
  PROVE  EInv'
<1> DEFINE f == fuente
<1>1. /\ estado = "etiquetas" /\ estado' = "traduce" /\ labels' = TablaDe(f[archivo])
      /\ UNCHANGED <<entrada, roto, position, isData, salida, listado>>
  BY DEF PrimeraPasada
<1>2. UNCHANGED <<fuente, archivo, linea>> /\ Aca' = Aca
  BY <1>1 DEF entrada, Aca
<1>3. f \in Fuentes /\ archivo \in DOMAIN f /\ linea = 1 /\ f[archivo] \in Seq(Lineas)
  BY <1>1, FuenteTipos DEF EInv, Tipos
<1>4. Leidas' = Leidas /\ Leidas = Previos(f, Aca)
  BY <1>1, <1>2 DEF Leidas
<1>5. \A q \in Leidas : q[1] # archivo
  <2> SUFFICES ASSUME NEW q \in Lugares(f), Antes(q, Aca), q[1] = archivo PROVE FALSE
    BY <1>4 DEF Previos
  <2>1. Aca[1] = archivo /\ Aca[2] = 1
    BY <1>3 DEF Aca
  <2>2. q[2] \in 1 .. Len(f[q[1]]) /\ q[1] \in Nat /\ Len(f[q[1]]) \in Nat
    BY <1>3, LugaresSon, FuenteTipos
  <2> QED
    BY <2>1, <2>2 DEF Antes
<1>6. Tipos'
  BY <1>1, <1>2 DEF EInv, Tipos
<1>7. Avance'
  BY <1>1, <1>2, <1>4 DEF EInv, Avance, Vive
<1>8. Tabla'
  <2> DEFINE t == TablaDe(f[archivo])
  <2>1. /\ t \in Seq(Entradas)
        /\ \A i \in DOMAIN t :
             /\ t[i].point = -1 /\ t[i].obs = <<>> /\ t[i].obsSize = 0
             /\ \E l \in DOMAIN f[archivo] : f[archivo][l].tipo = "etiqueta"
                                             /\ t[i].label = Texto(f[archivo][l])
    BY <1>3, TablaDeEs
  <2> HIDE DEF t
  <2>2. ASSUME NEW i \in DOMAIN t
        PROVE  \E q \in Etiquetas(f) : q[1] = archivo /\ t[i].label = Texto(En(f, q))
    <3>1. PICK l \in DOMAIN f[archivo] : f[archivo][l].tipo = "etiqueta"
                                         /\ t[i].label = Texto(f[archivo][l])
      BY <2>1
    <3>2. <<archivo, l>> \in Lugares(f) /\ En(f, <<archivo, l>>) = f[archivo][l]
      BY <1>3, LugaresSon DEF En
    <3> QED
      BY <3>1, <3>2 DEF Etiquetas
  <2>3. \A y : Pendientes(f, Leidas, archivo, y) = {}
    BY <1>5 DEF Pendientes
  <2>4. ASSUME NEW y \in Nombres(f), findLabel(<<y>>, t) # 0
        PROVE  Cumple(f, Leidas, archivo, t[findLabel(<<y>>, t)], y)
    <3> DEFINE e == t[findLabel(<<y>>, t)]
    <3>1. findLabel(<<y>>, t) \in DOMAIN t
      BY <2>1, <2>4, FindLabelEs
    <3>2. e.point = -1 /\ e.obs = <<>> /\ e.obsSize = 0
      BY <2>1, <3>1
    <3>3. {q \in Leidas \cap Etiquetas(f) : q[1] = archivo /\ En(f, q).nombre = y} = {}
      BY <1>5
    <3>4. Cardinality({}) = 0
      BY FS_EmptySet
    <3>5. Range(<<>>) = {} /\ Huecos(f, {}) = {}
      BY DEF Range, Huecos
    <3> HIDE DEF e
    <3>6. Cumple(f, Leidas, archivo, e, y)
      BY <2>3, <3>2, <3>3, <3>4, <3>5 DEF Cumple
    <3> QED
      BY <3>6 DEF e
  <2>5. \A i \in DOMAIN t : t[i].obsSize <= 0
    BY <2>1
  <2>6. Tablero(f, Leidas, archivo, t)
    BY <2>1, <2>2, <2>4, <2>5 DEF Tablero
  <2> QED
    BY <1>1, <1>2, <1>4, <2>6 DEF Tabla, t
<1>9. Escritura'
  BY <1>1, <1>2, <1>4 DEF EInv, Escritura, Vive
<1>10. Caidas'
  BY <1>1, <1>2 DEF EInv, Caidas
<1>11. Listado'
  BY <1>1 DEF EInv, Listado
<1> QED
  BY <1>6, <1>7, <1>8, <1>9, <1>10, <1>11 DEF EInv

-------------------------------------------------------------------------------
(* The decompiler *)

\* With every line read a parameter is what it stands for.
LEMMA ValeSignifica ==
  ASSUME NEW f \in Fuentes, NEW p \in Programa(f), Valida(f, p),
         NEW k \in DOMAIN Regla(En(f, p).op), NEW v, Vale(f, Lugares(f), p, k, v)
  PROVE  v = Significa(f, p, k)
<1> DEFINE i == En(f, p)
           x == i.parametros[k]
<1>1. p \in Lugares(f) /\ i \in Lineas
  BY LugaresSon DEF Programa
<1>2. /\ i.tipo = "instruccion" /\ i.op \in Codigos /\ Len(Regla(i.op)) <= Len(i.parametros)
      /\ Regla(i.op)[k] = "R" => x.t = "reg"
      /\ Regla(i.op)[k] = "N" /\ x.t = "ref" => Definiciones(f, p, x.nombre) # {}
  BY DEF Valida
<1>3. Regla(i.op)[k] \in {"R", "N"} /\ k \in 1 .. Len(Regla(i.op)) /\ Len(Regla(i.op)) \in 0 .. 3
  <2>1. /\ Regla(i.op) \in Seq({"R", "N"}) /\ Len(Regla(i.op)) \in 0 .. 3
        /\ DOMAIN Regla(i.op) = 1 .. Len(Regla(i.op))
    BY <1>2, ReglaTipo
  <2> QED
    BY <2>1
<1>4. i.parametros \in Seq(Argumentos)
  BY <1>1, <1>2 DEF Lineas
<1>5. x.t \in {"reg", "num", "llamada", "ref"}
  <2>1. x \in Argumentos
    BY <1>2, <1>3, <1>4
  <2> QED
    BY <2>1 DEF Argumentos
<1>6. CASE x.t = "ref"
  <2> DEFINE D == Definiciones(f, p, x.nombre)
  <2>1. D # {} /\ D \subseteq Lugares(f)
    BY <1>2, <1>3, <1>6 DEF Definiciones
  <2>2. (CHOOSE q \in D : TRUE) \in D
    BY <2>1
  <2>3. v = Direccion(f, CHOOSE q \in D : TRUE)
    BY <1>6, <2>1, <2>2 DEF Vale
  <2> QED
    BY <1>6, <2>3 DEF Significa
<1>7. CASE x.t # "ref"
  BY <1>5, <1>7 DEF Vale, Significa
<1> QED
  BY <1>6, <1>7

\* The rank of a line among others.
LEMMA RangoDe ==
  ASSUME NEW f \in Fuentes, NEW H \in SUBSET Lugares(f), NEW p \in H
  PROVE  LET r == Cardinality({q \in H : Antes(q, p)}) IN
         /\ IsFiniteSet(H) /\ r \in Nat /\ Cardinality(H) \in Nat /\ r + 1 <= Cardinality(H)
         /\ (\A q \in H : q = p \/ Antes(q, p)) => r + 1 = Cardinality(H)
<1> DEFINE R == {q \in H : Antes(q, p)}
<1>1. IsFiniteSet(H)
  BY LugaresFinitos, FS_Subset
<1>2. p \notin R /\ R \in SUBSET H
  BY OrdenTotal
<1>3. (\A q \in H : q = p \/ Antes(q, p)) => R \cup {p} = H
  OBVIOUS
<1> HIDE DEF R
<1>4. IsFiniteSet(R) /\ Cardinality(R) \in Nat
  BY <1>1, <1>2, CardinalMonotono
<1>5. Cardinality(R \cup {p}) = Cardinality(R) + 1
  BY <1>2, <1>4, FS_AddElement
<1>6. R \cup {p} \in SUBSET H
  BY <1>2
<1>7. Cardinality(R \cup {p}) <= Cardinality(H) /\ Cardinality(H) \in Nat
  BY <1>1, <1>6, CardinalMonotono
<1> QED
  BY <1>1, <1>3, <1>4, <1>5, <1>7 DEF R

\* The address of a line is the sum of the instructions before it when nothing else before
\* it has a size.
LEMMA DireccionSalta ==
  ASSUME NEW f \in Fuentes, Prefijo(f, Lugares(f)), NEW p \in Lugares(f),
         NEW H \in SUBSET Previos(f, p), \A r \in Previos(f, p) \ H : Largo(f, r) = 0
  PROVE  Direccion(f, p) = Suma(Largos(f), H)
<1> DEFINE S == Previos(f, p)
<1>1. IsFiniteSet(S)
  BY LugaresFinitos, FS_Subset DEF Previos
<1>2. \A x \in S : Largos(f)[x] \in Int /\ Largos(f)[x] = Largo(f, x)
  BY LargoTipo DEF Prefijo, Previos
<1>3. \A x \in S \ H : Largos(f)[x] = 0
  BY <1>2
<1> HIDE DEF S
<1>4. Suma(Largos(f), S) = Suma(Largos(f), H)
  BY <1>1, <1>2, <1>3, SumaCeros DEF S
<1> QED
  BY <1>4, DireccionEs DEF S

\* H are the first instructions: those that follow begin where they end, or nothing but
\* data does.
LEMMA DondeSigue ==
  ASSUME NEW f \in Fuentes, Prefijo(f, Lugares(f)), NEW H \in SUBSET Programa(f),
         \A p \in H, q \in Programa(f) : Antes(q, p) => q \in H
  PROVE  /\ \A p \in Programa(f) \ H : (\A q \in Programa(f) \ H : q = p \/ Antes(p, q)) =>
              Direccion(f, p) = Suma(Largos(f), H)
         /\ H = Programa(f) =>
              \/ Suma(Largos(f), Lugares(f)) = Suma(Largos(f), H)
              \/ \E q \in Lugares(f) : /\ Sentencia(f, q) /\ EsDato(f, q) /\ Largo(f, q) > 0
                                       /\ Direccion(f, q) = Suma(Largos(f), H)
<1>1. \A q \in Lugares(f) : Largo(f, q) \in Nat /\ Largos(f)[q] = Largo(f, q)
  BY LargoTipo DEF Prefijo
<1>2. \A q \in Lugares(f) \ Programa(f) : Largo(f, q) > 0 => Sentencia(f, q) /\ EsDato(f, q)
  BY DEF Programa, Largo
<1>3. Programa(f) \subseteq Lugares(f)
  BY DEF Programa
<1>4. ASSUME NEW p \in Programa(f) \ H, \A q \in Programa(f) \ H : q = p \/ Antes(p, q)
      PROVE  Direccion(f, p) = Suma(Largos(f), H)
  <2>1. H \in SUBSET Previos(f, p)
    <3>1. \A q \in H : q \in Lugares(f) /\ q # p /\ ~Antes(p, q)
      BY <1>3, <1>4
    <3> QED
      BY <1>3, <3>1, OrdenTotal DEF Previos
  <2>2. \A r \in Previos(f, p) \ H : Largo(f, r) = 0
    <3> SUFFICES ASSUME NEW r \in Previos(f, p) \ H, Largo(f, r) # 0 PROVE FALSE
      OBVIOUS
    <3>1. r \in Lugares(f) /\ Antes(r, p)
      BY DEF Previos
    <3>2. CASE r \in Programa(f)
      BY <1>3, <1>4, <3>1, <3>2, OrdenTotal
    <3>3. CASE r \notin Programa(f)
      <4>1. EsDato(f, r)
        BY <1>1, <1>2, <3>1, <3>3
      <4>2. Antes(p, r)
        BY <3>1, <4>1, DatosAlFinal
      <4> QED
        BY <1>3, <3>1, <4>2, OrdenTotal
    <3> QED
      BY <3>2, <3>3
  <2> QED
    BY <1>3, <2>1, <2>2, DireccionSalta
<1>5. ASSUME H = Programa(f)
      PROVE  \/ Suma(Largos(f), Lugares(f)) = Suma(Largos(f), H)
             \/ \E q \in Lugares(f) : /\ Sentencia(f, q) /\ EsDato(f, q) /\ Largo(f, q) > 0
                                      /\ Direccion(f, q) = Suma(Largos(f), H)
  <2> DEFINE G == {q \in Lugares(f) \ H : Largo(f, q) > 0}
  <2>1. CASE G = {}
    <3>1. \A x \in Lugares(f) : Largos(f)[x] \in Int
      BY <1>1
    <3>2. \A x \in Lugares(f) \ H : Largos(f)[x] = 0
      BY <1>1, <2>1
    <3>3. H \in SUBSET Lugares(f) /\ IsFiniteSet(Lugares(f))
      BY <1>3, LugaresFinitos
    <3> QED
      BY <3>1, <3>2, <3>3, SumaCeros
  <2>2. CASE G # {}
    <3>1. G \in SUBSET Lugares(f)
      OBVIOUS
    <3> HIDE DEF G
    <3>2. PICK q \in G : \A r \in G : r = q \/ Antes(q, r)
      BY <2>2, <3>1, PrimeroYUltimo
    <3> USE DEF G
    <3>3. q \in Lugares(f) \ Programa(f) /\ Largo(f, q) > 0 /\ Sentencia(f, q) /\ EsDato(f, q)
      BY <1>2, <1>5, <3>2
    <3>4. H \in SUBSET Previos(f, q)
      <4>1. \A p \in H : Antes(p, q)
        BY <3>3, DatosAlFinal
      <4> QED
        BY <1>3, <4>1 DEF Previos
    <3>5. \A r \in Previos(f, q) \ H : Largo(f, r) = 0
      <4> SUFFICES ASSUME NEW r \in Previos(f, q) \ H, Largo(f, r) # 0 PROVE FALSE
        OBVIOUS
      <4>1. r \in Lugares(f) /\ Antes(r, q) /\ r \notin H
        BY DEF Previos
      <4>2. r \in G
        BY <1>1, <4>1
      <4> QED
        BY <3>2, <3>3, <4>1, <4>2, OrdenTotal
    <3>6. Direccion(f, q) = Suma(Largos(f), H)
      BY <3>3, <3>4, <3>5, DireccionSalta
    <3> QED
      BY <3>3, <3>6
  <2> QED
    BY <2>1, <2>2
<1> QED
  BY <1>4, <1>5

\* What the decompiler has done.
LEMMA HechosSon ==
  ASSUME EInv, estado = "listo"
  PROVE  /\ fuente \in Fuentes /\ Leidas = Lugares(fuente) /\ Prefijo(fuente, Lugares(fuente))
         /\ position = Suma(Largos(fuente), Lugares(fuente)) /\ position \in Nat
         /\ Hechos \in SUBSET Programa(fuente) /\ Programa(fuente) \subseteq Lugares(fuente)
         /\ \A p \in Hechos, q \in Programa(fuente) : Antes(q, p) => q \in Hechos
         /\ Desde = Suma(Largos(fuente), Hechos) /\ Desde \in Nat
         /\ IsFiniteSet(Hechos) /\ Len(listado) = Cardinality(Hechos)
         /\ \A p \in Lugares(fuente) : EstaEscrita(fuente, Lugares(fuente), salida, p)
         /\ \A p \in Lugares(fuente) : Valida(fuente, p)
<1> DEFINE f == fuente
<1>1. f \in Fuentes /\ Leidas = Lugares(f) /\ Prefijo(f, Lugares(f))
  <2>1. Leidas = Lugares(f) /\ f \in Fuentes
    BY DEF Leidas, EInv, Tipos
  <2>2. Prefijo(f, Leidas)
    BY LeidasPrefijo DEF EInv, Vive
  <2> QED
    BY <2>1, <2>2
<1>2. Programa(f) \subseteq Lugares(f) /\ Hechos \in SUBSET Programa(f)
  BY DEF Programa, Hechos
<1>3. position = Suma(Largos(f), Lugares(f)) /\ Desde = Suma(Largos(f), Hechos)
  BY <1>1 DEF EInv, Avance, Listado, Vive
<1>4. position \in Nat /\ Desde \in Nat /\ IsFiniteSet(Hechos)
  <2>1. Hechos \in SUBSET Lugares(f)
    BY <1>2
  <2>2. Suma(Largos(f), Hechos) \in Nat /\ Suma(Largos(f), Lugares(f)) \in Nat
    BY <1>1, <2>1, PrefijoSuma
  <2>3. IsFiniteSet(Hechos)
    BY <1>1, <2>1, LugaresFinitos, FS_Subset
  <2> QED
    BY <1>3, <2>2, <2>3
<1>5. ASSUME NEW p \in Hechos, NEW q \in Programa(f), Antes(q, p)
      PROVE  q \in Hechos
  <2>1. Previos(f, p) \subseteq Lugares(f) /\ p \in Lugares(f) /\ q \in Lugares(f)
    BY <1>2 DEF Previos
  <2>2. Direccion(f, q) + Largo(f, q) <= Direccion(f, p)
    BY <1>1, <1>5, <2>1, DireccionOrden
  <2>3. Direccion(f, q) \in Nat /\ Largo(f, q) \in Nat /\ Direccion(f, p) \in Nat
    BY <1>1, <2>1, DireccionOrden
  <2>4. Direccion(f, p) < Desde
    BY DEF Hechos
  <2>5. Direccion(f, q) < Desde
    BY <1>4, <2>2, <2>3, <2>4
  <2> QED
    BY <2>5 DEF Hechos
<1>6. Len(listado) = Cardinality(Hechos)
  BY DEF EInv, Listado
<1>7. \A p \in Lugares(f) : EstaEscrita(f, Lugares(f), salida, p) /\ Valida(f, p)
  BY <1>1 DEF EInv, Escritura, Avance, Vive
<1> QED
  BY <1>1, <1>2, <1>3, <1>4, <1>5, <1>6, <1>7

\* The last one printed is the last of the instructions done.
LEMMA UltimaImpresa ==
  ASSUME EInv, estado = "listo", NEW q \in Hechos, \A p \in Hechos : p = q \/ Antes(p, q)
  PROVE  listado # <<>> /\ Last(listado).op = En(fuente, q).op
<1> DEFINE r == Cardinality({p \in Hechos : Antes(p, q)})
<1>1. fuente \in Fuentes /\ Hechos \in SUBSET Lugares(fuente) /\ Len(listado) = Cardinality(Hechos)
  BY HechosSon
<1>2. r \in Nat /\ r + 1 = Cardinality(Hechos)
  BY <1>1, RangoDe
<1>3. listado[r + 1].op = En(fuente, q).op
  BY DEF EInv, Listado, Impreso
<1> HIDE DEF r
<1>4. Len(listado) # 0
  BY <1>1, <1>2
<1>5. listado # <<>>
  BY <1>4
<1> QED
  BY <1>1, <1>2, <1>3, <1>5 DEF Last

\* It ends when it has done all the instructions up to XXXX.
LEMMA DecompilaFin ==
  ASSUME EInv, estado = "listo", Desde = position \/ (listado # <<>> /\ Last(listado).op = "XXXX")
  PROVE  Hechos = Suyas(fuente)
<1> DEFINE f == fuente
<1>1. /\ f \in Fuentes /\ Prefijo(f, Lugares(f)) /\ position = Suma(Largos(f), Lugares(f))
      /\ Hechos \in SUBSET Programa(f) /\ Programa(f) \subseteq Lugares(f)
      /\ \A p \in Hechos, q \in Programa(f) : Antes(q, p) => q \in Hechos
      /\ Desde = Suma(Largos(f), Hechos) /\ Desde \in Nat /\ Len(listado) = Cardinality(Hechos)
      /\ \A p \in Lugares(f) : Valida(f, p)
  BY HechosSon
<1>2. Hechos \subseteq Suyas(f)
  BY DEF EInv, Listado
<1>3. SUFFICES ASSUME NEW p \in Suyas(f), p \notin Hechos PROVE FALSE
  BY <1>2
<1>4. p \in Programa(f) \ Hechos
  BY <1>3 DEF Suyas
<1>5. CASE Desde = position
  <2>1. PICK q \in Programa(f) \ Hechos : \A r \in Programa(f) \ Hechos : r = q \/ Antes(q, r)
    <3> DEFINE S == Programa(f) \ Hechos
    <3>1. S \in SUBSET Lugares(f) /\ S # {}
      BY <1>1, <1>4
    <3> HIDE DEF S
    <3>2. \E q \in S : \A r \in S : r = q \/ Antes(q, r)
      BY <1>1, <3>1, PrimeroYUltimo
    <3> QED
      BY <3>2 DEF S
  <2>2. Direccion(f, q) = Desde
    BY <1>1, <2>1, DondeSigue
  <2>3. Largo(f, q) \in Nat /\ Largo(f, q) >= 4
    BY <1>1, <2>1, LargoTipo
  <2>4. Direccion(f, q) + Largo(f, q) <= position
    BY <1>1, <2>1, DireccionOrden
  <2> QED
    BY <1>1, <1>5, <2>2, <2>3, <2>4
<1>6. CASE listado # <<>> /\ Last(listado).op = "XXXX"
  <2>1. Hechos # {}
    <3>1. Cardinality({}) = 0
      BY FS_EmptySet
    <3>2. Hechos = {} => Len(listado) = 0
      BY <1>1, <3>1
    <3>3. listado \in Seq(Range(listado))
      BY DEF EInv, Listado
    <3> QED
      BY <1>6, <3>2, <3>3
  <2>2. Hechos \in SUBSET Lugares(f)
    BY <1>1
  <2>3. PICK q \in Hechos : \A r \in Hechos : r = q \/ Antes(r, q)
    BY <1>1, <2>1, <2>2, PrimeroYUltimo
  <2>4. En(f, q).op = "XXXX"
    BY <1>6, <2>3, UltimaImpresa
  <2>5. Antes(q, p)
    <3>1. ~Antes(p, q)
      BY <1>1, <1>4, <2>3
    <3>2. p # q /\ p \in Lugares(f) /\ q \in Lugares(f)
      BY <1>1, <1>4, <2>2
    <3> QED
      BY <1>1, <3>1, <3>2, OrdenTotal
  <2>6. q \in Programa(f)
    BY <1>1
  <2> QED
    BY <1>3, <2>4, <2>5, <2>6 DEF Suyas
<1> QED
  BY <1>5, <1>6

\* What it finds where it goes on is the next instruction.
LEMMA DecompilaLee ==
  ASSUME EInv, estado = "listo", Desde # position, ~(listado # <<>> /\ Last(listado).op = "XXXX"),
         salida[Desde].tipo = "codigo"
  PROVE  \E p \in Programa(fuente) \ Hechos :
           /\ \A q \in Programa(fuente) \ Hechos : q = p \/ Antes(p, q)
           /\ Direccion(fuente, p) = Desde
           /\ salida[Desde].valor = En(fuente, p).op
           /\ \A k \in DOMAIN Regla(En(fuente, p).op) :
                SinSentido(fuente, p, k) \/
                salida[Desde + Lugar(En(fuente, p).op, k)].valor = Significa(fuente, p, k)
           /\ p \in Suyas(fuente)
<1> DEFINE f == fuente
<1>1. /\ f \in Fuentes /\ Prefijo(f, Lugares(f)) /\ position = Suma(Largos(f), Lugares(f))
      /\ Hechos \in SUBSET Programa(f) /\ Programa(f) \subseteq Lugares(f)
      /\ \A p \in Hechos, q \in Programa(f) : Antes(q, p) => q \in Hechos
      /\ Desde = Suma(Largos(f), Hechos)
      /\ \A p \in Lugares(f) : EstaEscrita(f, Lugares(f), salida, p) /\ Valida(f, p)
  BY HechosSon
<1> DEFINE S == Programa(f) \ Hechos
<1>2. S # {}
  <2> SUFFICES ASSUME Hechos = Programa(f) PROVE FALSE
    BY <1>1
  <2>1. PICK q \in Lugares(f) : /\ Sentencia(f, q) /\ EsDato(f, q) /\ Largo(f, q) > 0
                                /\ Direccion(f, q) = Desde
    BY <1>1, DondeSigue
  <2>2. salida[Desde] = Dado(f, q)
    BY <1>1, <2>1 DEF EstaEscrita
  <2>3. Dado(f, q).tipo \in {"texto", "num"}
    BY DEF Dado, Item
  <2> QED
    BY <2>2, <2>3
<1>3. PICK p \in S : \A q \in S : q = p \/ Antes(p, q)
  <2>1. S \in SUBSET Lugares(f)
    BY <1>1
  <2> HIDE DEF S
  <2> QED
    BY <1>1, <1>2, <2>1, PrimeroYUltimo
<1>4. Direccion(f, p) = Desde
  BY <1>1, <1>3, DondeSigue
<1>5. p \in Lugares(f) /\ p \in Programa(f)
  BY <1>1
<1>6. /\ salida[Desde] = Item("codigo", En(f, p).op)
      /\ \A k \in DOMAIN Regla(En(f, p).op) :
           SinSentido(f, p, k) \/ Vale(f, Lugares(f), p, k, salida[Desde + Lugar(En(f, p).op, k)].valor)
  BY <1>1, <1>4, <1>5 DEF EstaEscrita
<1>7. salida[Desde].valor = En(f, p).op
  BY <1>6 DEF Item
<1>8. \A k \in DOMAIN Regla(En(f, p).op) :
        SinSentido(f, p, k) \/ salida[Desde + Lugar(En(f, p).op, k)].valor = Significa(f, p, k)
  BY <1>1, <1>5, <1>6, ValeSignifica
<1>9. p \in Suyas(f)
  <2> SUFFICES ASSUME NEW q \in Programa(f), Antes(q, p), En(f, q).op = "XXXX" PROVE FALSE
    BY <1>5 DEF Suyas
  <2>1. q \in Hechos
    <3>1. q \in Lugares(f)
      BY <1>1
    <3> QED
      BY <1>1, <1>3, <1>5, <3>1, OrdenTotal
  <2>2. \A r \in Hechos : r = q \/ Antes(r, q)
    <3> SUFFICES ASSUME NEW r \in Hechos, r # q, ~Antes(r, q) PROVE FALSE
      OBVIOUS
    <3>1. r \in Lugares(f) /\ q \in Lugares(f)
      BY <1>1
    <3>2. Antes(q, r)
      BY <1>1, <3>1, OrdenTotal
    <3>3. r \in Suyas(f)
      BY DEF EInv, Listado
    <3> QED
      BY <3>2, <3>3 DEF Suyas
  <2> QED
    BY <2>1, <2>2, UltimaImpresa
<1> QED
  BY <1>3, <1>4, <1>7, <1>8, <1>9

\* Where it finds no code all the instructions have been printed, none of them is XXXX and
\* there are data.
LEMMA DecompilaDatos ==
  ASSUME EInv, estado = "listo", Desde # position, ~(listado # <<>> /\ Last(listado).op = "XXXX"),
         salida[Desde].tipo # "codigo"
  PROVE  Hechos = Suyas(fuente) /\ ~Acaba(fuente)
<1> DEFINE f == fuente
<1>1. /\ f \in Fuentes /\ Prefijo(f, Lugares(f)) /\ position = Suma(Largos(f), Lugares(f))
      /\ Hechos \in SUBSET Programa(f) /\ Programa(f) \subseteq Lugares(f)
      /\ \A p \in Hechos, q \in Programa(f) : Antes(q, p) => q \in Hechos
      /\ Desde = Suma(Largos(f), Hechos)
      /\ \A p \in Lugares(f) : EstaEscrita(f, Lugares(f), salida, p) /\ Valida(f, p)
  BY HechosSon
<1>2. Hechos \subseteq Suyas(f)
  BY DEF EInv, Listado
<1> DEFINE S == Programa(f) \ Hechos
<1>3. S = {}
  <2> SUFFICES ASSUME S # {} PROVE FALSE
    OBVIOUS
  <2>1. PICK p \in S : \A q \in S : q = p \/ Antes(p, q)
    <3>1. S \in SUBSET Lugares(f)
      BY <1>1
    <3> HIDE DEF S
    <3> QED
      BY <1>1, <3>1, PrimeroYUltimo
  <2>2. Direccion(f, p) = Desde
    BY <1>1, <2>1, DondeSigue
  <2>3. salida[Desde] = Item("codigo", En(f, p).op)
    BY <1>1, <2>1, <2>2 DEF EstaEscrita
  <2> QED
    BY <2>3 DEF Item
<1>4. Hechos = Programa(f)
  BY <1>1, <1>3
<1>5. PICK d \in Lugares(f) : EsDato(f, d) /\ Largo(f, d) > 0
  BY <1>1, <1>4, DondeSigue
<1>6. ASSUME NEW q \in Programa(f), En(f, q).op = "XXXX" PROVE FALSE
  <2>1. q \in Hechos
    BY <1>4
  <2>2. \A r \in Hechos : r = q \/ Antes(r, q)
    <3> SUFFICES ASSUME NEW r \in Hechos, r # q, ~Antes(r, q) PROVE FALSE
      OBVIOUS
    <3>1. r \in Lugares(f) /\ q \in Lugares(f)
      BY <1>1
    <3>2. Antes(q, r)
      BY <1>1, <3>1, OrdenTotal
    <3> QED
      BY <1>2, <1>6, <3>2 DEF Suyas
  <2>3. listado # <<>> /\ Last(listado).op = "XXXX"
    BY <1>6, <2>1, <2>2, UltimaImpresa
  <2> QED
    BY <2>3
<1>7. ~Acaba(f)
  <2>1. ~(Largo(f, d) = 0)
    BY <1>5
  <2> QED
    BY <1>5, <1>6, <2>1 DEF Acaba
<1>8. Suyas(f) \subseteq Hechos
  BY <1>4 DEF Suyas
<1> QED
  BY <1>2, <1>7, <1>8

\* A step of the decompiler.
LEMMA DecompilaPaso ==
  ASSUME EInv, Decompila
  PROVE  EInv'
<1> DEFINE f == fuente
<1>1. estado = "listo" /\ UNCHANGED <<entrada, labels, roto, position, isData, salida>>
  BY DEF Decompila
<1>2. UNCHANGED <<fuente, archivo, linea>>
  BY <1>1 DEF entrada
<1>3. estado' \in {"listo", "fin", "datos", "aborta"}
  BY <1>1 DEF Decompila
<1>4. Leidas' = Leidas
  BY <1>1, <1>2, <1>3 DEF Leidas
<1>5. Tipos'
  BY <1>1, <1>2, <1>3 DEF EInv, Tipos
<1>6. Avance' /\ Escritura'
  BY <1>1, <1>2, <1>4 DEF EInv, Avance, Escritura, Vive
<1>7. Tabla' /\ Caidas'
  BY <1>3 DEF Tabla, Caidas
<1>8. Listado'
  <2>1. CASE Desde = position \/ (listado # <<>> /\ Last(listado).op = "XXXX")
    <3>1. estado' = "fin" /\ listado' = listado
      BY <2>1 DEF Decompila
    <3>2. Desde' = Desde
      BY <3>1 DEF Desde
    <3>3. Hechos' = Hechos
      BY <1>2, <3>2 DEF Hechos
    <3>4. Hechos = Suyas(f)
      BY <1>1, <2>1, DecompilaFin
    <3> QED
      BY <1>1, <1>2, <3>1, <3>2, <3>3, <3>4 DEF EInv, Listado
  <2>2. CASE ~(Desde = position \/ (listado # <<>> /\ Last(listado).op = "XXXX"))
             /\ salida[Desde].tipo # "codigo"
    <3>1. CASE estado' = "aborta"
      BY <3>1 DEF Listado
    <3>2. CASE estado' # "aborta"
      <4>1. estado' = "datos" /\ listado' = listado
        BY <1>1, <2>2, <3>2 DEF Decompila
      <4>2. Desde' = Desde
        BY <4>1 DEF Desde
      <4>3. Hechos' = Hechos
        BY <1>2, <4>2 DEF Hechos
      <4>4. Hechos = Suyas(f) /\ ~Acaba(f)
        BY <1>1, <2>2, DecompilaDatos
      <4> QED
        BY <1>1, <1>2, <4>1, <4>2, <4>3, <4>4 DEF EInv, Listado
    <3> QED
      BY <3>1, <3>2
  <2>3. CASE ~(Desde = position \/ (listado # <<>> /\ Last(listado).op = "XXXX"))
             /\ salida[Desde].tipo = "codigo"
    <3> DEFINE H == Hechos
               op == salida[Desde].valor
               e == [op |-> op, valores |-> Lectura(op, Desde), hasta |-> Desde + Tamanio(op)]
    <3>1. PICK p \in Programa(f) \ H :
            /\ \A q \in Programa(f) \ H : q = p \/ Antes(p, q)
            /\ Direccion(f, p) = Desde
            /\ salida[Desde].valor = En(f, p).op
            /\ \A k \in DOMAIN Regla(En(f, p).op) :
                 SinSentido(f, p, k) \/
                 salida[Desde + Lugar(En(f, p).op, k)].valor = Significa(f, p, k)
            /\ p \in Suyas(f)
      BY <1>1, <2>3, DecompilaLee
    <3>2. listado' = Append(listado, e) /\ estado' = "listo"
      BY <1>1, <2>3 DEF Decompila
    <3>3. /\ f \in Fuentes /\ Prefijo(f, Lugares(f))
          /\ H \in SUBSET Programa(f) /\ Programa(f) \subseteq Lugares(f)
          /\ \A r \in H, q \in Programa(f) : Antes(q, r) => q \in H
          /\ Desde = Suma(Largos(f), H) /\ Desde \in Nat
          /\ IsFiniteSet(H) /\ Len(listado) = Cardinality(H)
          /\ \A r \in Lugares(f) : Valida(f, r)
      BY <1>1, HechosSon
    <3>4. /\ listado \in Seq(Range(listado)) /\ H \subseteq Suyas(f)
          /\ \A q \in H : Impreso(f, q, listado[Cardinality({r \in H : Antes(r, q)}) + 1])
      BY <1>1 DEF EInv, Listado
    <3>5. /\ listado' \in Seq(Range(listado')) /\ Len(listado') = Len(listado) + 1
          /\ listado'[Len(listado) + 1] = e /\ Len(listado) \in Nat
          /\ \A j \in 1 .. Len(listado) : listado'[j] = listado[j]
      <4> DEFINE S == Range(listado) \cup {e}
      <4> HIDE DEF e
      <4>1. listado \in Seq(S) /\ e \in S
        <5>1. \A A, B : A \subseteq B => \A s \in Seq(A) : s \in Seq(B)
          OBVIOUS
        <5> QED
          BY <3>4, <5>1
      <4> HIDE DEF S
      <4>2. Append(listado, e) \in Seq(S) /\ Range(Append(listado, e)) = Range(listado) \cup {e}
        BY <4>1, RangoAppend
      <4>3. Range(listado') = S
        BY <3>2, <4>2 DEF S
      <4> QED
        BY <3>2, <4>1, <4>2, <4>3
    <3>6. e.op = En(f, p).op /\ e.valores = Lectura(En(f, p).op, Desde)
          /\ e.hasta = Desde + Tamanio(En(f, p).op)
      BY <3>1
    <3>7. Impreso(f, p, e)
      <4>1. \A k \in DOMAIN Regla(En(f, p).op) :
              e.valores[k] = salida[Desde + Lugar(En(f, p).op, k)].valor
        BY <3>6 DEF Lectura
      <4> HIDE DEF e
      <4> QED
        BY <3>1, <3>6, <4>1 DEF Impreso
    <3> HIDE DEF e, op
    <3>8. Largo(f, p) \in Nat /\ Largo(f, p) >= 4 /\ Largo(f, p) = Tamanio(En(f, p).op)
          /\ Largos(f)[p] = Largo(f, p)
      BY <3>3, LargoTipo
    <3>9. Desde' = Desde + Largo(f, p)
      <4>1. Last(listado') = e /\ listado' # <<>>
        BY <3>5 DEF Last
      <4> QED
        BY <3>6, <3>8, <4>1 DEF Desde
    <3>10. \A q \in Programa(f) : Direccion(f, q) \in Nat
      BY <3>3, DireccionOrden
    <3>11. Hechos' = H \cup {p}
      <4>1. Hechos' = {q \in Programa(f) : Direccion(f, q) < Desde + Largo(f, p)}
        BY <1>2, <3>9 DEF Hechos
      <4>2. \A q \in H : Direccion(f, q) < Desde + Largo(f, p)
        <5>1. \A q \in H : Direccion(f, q) < Desde
          BY DEF Hechos
        <5> QED
          BY <3>3, <3>8, <3>10, <5>1
      <4>3. Direccion(f, p) < Desde + Largo(f, p)
        BY <3>1, <3>3, <3>8
      <4>4. ASSUME NEW q \in Programa(f), q \notin H, q # p
            PROVE  ~(Direccion(f, q) < Desde + Largo(f, p))
        <5>1. Antes(p, q)
          BY <3>1, <4>4
        <5>2. p \in Lugares(f) /\ q \in Lugares(f) /\ Previos(f, q) \subseteq Lugares(f)
          BY <3>3 DEF Previos
        <5>3. Direccion(f, p) + Largo(f, p) <= Direccion(f, q)
          BY <3>3, <5>1, <5>2, DireccionOrden
        <5> QED
          BY <3>1, <3>3, <3>8, <3>10, <5>3
      <4> HIDE DEF H
      <4> QED
        BY <3>3, <4>1, <4>2, <4>3, <4>4
    <3> DEFINE K == H \cup {p}
    <3>12. Cardinality(K) = Cardinality(H) + 1 /\ Cardinality(H) \in Nat
      <4>1. p \notin H
        OBVIOUS
      <4> HIDE DEF H
      <4> QED
        BY <3>3, <4>1, FS_AddElement, FS_CardinalityType
    <3>13. Suma(Largos(f), K) = Desde + Largo(f, p)
      <4>1. p \notin H /\ p \in Lugares(f) /\ \A x \in H \cup {p} : x \in Lugares(f)
        BY <3>3
      <4>2. \A x \in H \cup {p} : Largos(f)[x] \in Int
        BY <3>3, <4>1, LargoTipo
      <4> HIDE DEF H
      <4>3. Suma(Largos(f), K) = Largos(f)[p] + Suma(Largos(f), H)
        BY <3>3, <4>1, <4>2, SumaMas
      <4> QED
        BY <3>3, <3>8, <4>3
    <3>14. \A q \in H : ~Antes(p, q)
      BY <3>3
    <3>15. {r \in K : Antes(r, p)} = H
      <4>1. \A r \in H : Antes(r, p)
        BY <3>3, <3>14, OrdenTotal
      <4>2. ~Antes(p, p)
        BY <3>3, OrdenTotal
      <4> HIDE DEF H
      <4> QED
        BY <4>1, <4>2
    <3>16. \A q \in H : {r \in K : Antes(r, q)} = {r \in H : Antes(r, q)}
      BY <3>14
    <3>17. \A q \in K : Impreso(f, q, listado'[Cardinality({r \in K : Antes(r, q)}) + 1])
      <4> SUFFICES ASSUME NEW q \in K
                   PROVE  Impreso(f, q, listado'[Cardinality({r \in K : Antes(r, q)}) + 1])
        OBVIOUS
      <4>1. CASE q = p
        <5>1. {r \in K : Antes(r, q)} = H
          BY <3>15, <4>1
        <5> HIDE DEF H, K
        <5>2. listado'[Cardinality(H) + 1] = e
          BY <3>3, <3>5
        <5> QED
          BY <3>7, <4>1, <5>1, <5>2
      <4>2. CASE q \in H
        <5> DEFINE j == Cardinality({r \in H : Antes(r, q)}) + 1
        <5>1. H \in SUBSET Lugares(f)
          BY <3>3
        <5>2. j \in 1 .. Len(listado)
          <6> DEFINE z == Cardinality({r \in H : Antes(r, q)})
          <6> HIDE DEF H
          <6>1. z \in Nat /\ z + 1 <= Cardinality(H)
            BY <3>3, <4>2, <5>1, RangoDe
          <6> HIDE DEF z
          <6>2. z + 1 \in 1 .. Len(listado)
            BY <3>3, <3>12, <6>1
          <6> QED
            BY <6>2 DEF z
        <5>3. listado'[j] = listado[j]
          BY <3>5, <5>2
        <5>4. {r \in K : Antes(r, q)} = {r \in H : Antes(r, q)}
          BY <3>16, <4>2
        <5>5. Impreso(f, q, listado[j])
          BY <3>4, <4>2
        <5> QED
          BY <5>3, <5>4, <5>5
      <4> QED
        BY <4>1, <4>2
    <3>18. K \subseteq Suyas(f)
      BY <3>1, <3>4
    <3>19. Len(listado') = Cardinality(K)
      BY <3>3, <3>5, <3>12
    <3>20. Hechos' = K /\ Desde' = Suma(Largos(f), K)
      BY <3>9, <3>11, <3>13
    <3> HIDE DEF K, H
    <3> QED
      BY <1>2, <3>2, <3>5, <3>17, <3>18, <3>19, <3>20 DEF Listado
  <2> QED
    BY <2>1, <2>2, <2>3
<1> QED
  BY <1>5, <1>6, <1>7, <1>8 DEF EInv

-------------------------------------------------------------------------------
(* The invariant *)

\* It holds before anything is read.
LEMMA EInvInicial ==
  ASSUME Init
  PROVE  EInv
<1> DEFINE f == fuente
<1>1. /\ f \in Fuentes /\ archivo = 1 /\ linea = 1 /\ position = 0 /\ isData = FALSE /\ salida = <<>>
      /\ listado = <<>> /\ roto = FALSE /\ estado = "etiquetas"
  BY DEF Init
<1>2. 1 \in DOMAIN f /\ 1 \in DOMAIN f[1]
  <2>1. 1 \in DOMAIN f
    BY <1>1, FuenteTipos
  <2> QED
    BY <1>1, <2>1, FuenteTipos
<1>3. Tipos
  BY <1>1, <1>2 DEF Tipos
<1>4. Leidas = {}
  <2>1. Leidas = Previos(f, Aca) /\ Aca[1] = 1 /\ Aca[2] = 1
    BY <1>1, <1>3, AcaEsta
  <2>2. \A q \in Lugares(f) : ~Antes(q, Aca)
    <3> SUFFICES ASSUME NEW q \in Lugares(f) PROVE ~Antes(q, Aca)
      OBVIOUS
    <3>1. q[1] \in 1 .. Len(f) /\ Len(f) \in Nat /\ q[2] \in 1 .. Len(f[q[1]]) /\ Len(f[q[1]]) \in Nat
      BY <1>1, LugaresSon, FuenteTipos
    <3> QED
      BY <2>1, <3>1 DEF Antes
  <2> QED
    BY <2>1, <2>2 DEF Previos
<1>5. Avance
  BY <1>1, <1>4, SumaVacia DEF Avance
<1>6. Escritura
  BY <1>1, <1>4 DEF Escritura
<1>7. Tabla /\ Caidas /\ Listado
  BY <1>1 DEF Tabla, Caidas, Listado
<1> QED
  BY <1>3, <1>5, <1>6, <1>7 DEF EInv

\* Every step keeps it.
LEMMA EInvPaso ==
  ASSUME EInv, [Next]_vars
  PROVE  EInv'
<1>1. CASE PrimeraPasada
  BY <1>1, PrimeraPasadaPaso
<1>2. CASE Comentario
  <2>1. isData \in BOOLEAN
    BY DEF EInv, Tipos
  <2>2. /\ estado = "traduce" /\ Linea.tipo = "comentario" /\ Pasa
        /\ UNCHANGED <<fuente, labels, roto, position, isData, salida, listado>>
    BY <1>2 DEF Comentario
  <2> QED
    BY <2>1, <2>2, MudaPaso
<1>3. CASE Etiqueta
  BY <1>3, EtiquetaPaso
<1>4. CASE Data
  <2>1. /\ estado = "traduce" /\ Linea.tipo = "data" /\ Pasa /\ isData' = TRUE
        /\ UNCHANGED <<fuente, labels, roto, position, salida, listado>>
    BY <1>4 DEF Data
  <2> QED
    BY <2>1, MudaPaso
<1>5. CASE Dato
  BY <1>5, DatoPaso
<1>6. CASE Instruccion
  BY <1>6, InstruccionPaso
<1>7. CASE SeRompe
  <2>1. PICK como \in {"cae", "pisado"} :
          roto /\ estado \in {"etiquetas", "traduce"} /\ Termina(como) /\ UNCHANGED <<fuente, roto, listado>>
    BY <1>7 DEF SeRompe
  <2>2. Excedida(fuente, Aca)
    BY <2>1 DEF EInv, Caidas
  <2> QED
    BY <2>1, <2>2, TerminaPaso DEF Termina
<1>8. CASE Decompila
  BY <1>8, DecompilaPaso
<1>9. CASE UNCHANGED vars
  <2>1. UNCHANGED <<fuente, archivo, linea, labels, roto, position, isData, salida, listado, estado>>
    BY <1>9 DEF vars, entrada
  <2>2. Aca' = Aca /\ Linea' = Linea /\ Desde' = Desde /\ (Vive' <=> Vive)
    BY <2>1 DEF Aca, Linea, Desde, Vive
  <2>3. Leidas' = Leidas /\ (Repetida' <=> Repetida) /\ Hechos' = Hechos
    BY <2>1, <2>2 DEF Leidas, Repetida, Hechos
  <2>4. Tipos' /\ Avance'
    BY <2>1, <2>2, <2>3 DEF EInv, Tipos, Avance
  <2>5. Tabla' /\ Escritura'
    BY <2>1, <2>2, <2>3 DEF EInv, Tabla, Escritura
  <2>6. Caidas' /\ Listado'
    BY <2>1, <2>2, <2>3 DEF EInv, Caidas, Listado
  <2> QED
    BY <2>4, <2>5, <2>6 DEF EInv
<1> QED
  BY <1>1, <1>2, <1>3, <1>4, <1>5, <1>6, <1>7, <1>8, <1>9 DEF Next

\* For every source the position, the table of labels, the output and what has been printed
\* are those of the lines read (assembleLine, decompile).
THEOREM EnsambladorInvariante == Spec => []EInv
<1>1. Init => EInv
  BY EInvInicial
<1>2. EInv /\ [Next]_vars => EInv'
  BY EInvPaso
<1> QED
  BY <1>1, <1>2, PTL DEF Spec

\* The program written is the one of the source, whatever its labels, their order, the
\* files and the data, unless obs has overflowed (assembleLine, getOrSubscribePos, postTranslate).
THEOREM SalidaSiempreFiel == Spec => []SalidaFiel
<1>1. EInv => SalidaFiel
  <2> SUFFICES ASSUME EInv, estado \in {"listo", "fin", "datos"}, NEW p \in Lugares(fuente)
               PROVE  /\ p \in Programa(fuente) =>
                           /\ salida[Direccion(fuente, p)] = Item("codigo", En(fuente, p).op)
                           /\ \A k \in DOMAIN Regla(En(fuente, p).op) : SinSentido(fuente, p, k) \/
                                salida[Direccion(fuente, p) + Lugar(En(fuente, p).op, k)].valor
                                  = Significa(fuente, p, k)
                      /\ Sentencia(fuente, p) /\ EsDato(fuente, p) /\ Largo(fuente, p) > 0 =>
                           salida[Direccion(fuente, p)] = Dado(fuente, p)
    BY DEF SalidaFiel
  <2>1. Leidas = Lugares(fuente) /\ fuente \in Fuentes
    BY DEF Leidas, EInv, Tipos
  <2>2. EstaEscrita(fuente, Lugares(fuente), salida, p) /\ Valida(fuente, p)
    BY <2>1 DEF EInv, Avance, Escritura, Vive
  <2>3. CASE p \in Programa(fuente)
    <3>1. \A k \in DOMAIN Regla(En(fuente, p).op) : SinSentido(fuente, p, k) \/
            salida[Direccion(fuente, p) + Lugar(En(fuente, p).op, k)].valor = Significa(fuente, p, k)
      BY <2>1, <2>2, <2>3, ValeSignifica DEF EstaEscrita
    <3> QED
      BY <2>2, <2>3, <3>1 DEF EstaEscrita
  <2>4. CASE p \notin Programa(fuente)
    BY <2>2, <2>4 DEF EstaEscrita
  <2> QED
    BY <2>3, <2>4
<1> QED
  BY <1>1, EnsambladorInvariante, PTL

\* The decompiler gives back the instructions of the source, up to the first XXXX, and
\* nothing else unless data come with no XXXX before them (decompile).
THEOREM DecompilaSiempreFiel == Spec => []DecompilaFiel
<1>1. EInv => DecompilaFiel
  <2> SUFFICES ASSUME EInv, estado \in {"fin", "datos"} PROVE DecompilaFiel
    BY DEF DecompilaFiel
  <2>1. /\ Len(listado) = Cardinality(Hechos) /\ Hechos = Suyas(fuente)
        /\ estado = "datos" => ~Acaba(fuente)
        /\ \A p \in Hechos :
             Impreso(fuente, p, listado[Cardinality({q \in Hechos : Antes(q, p)}) + 1])
    BY DEF EInv, Listado
  <2> QED
    BY <2>1 DEF DecompilaFiel, Impreso
<1> QED
  BY <1>1, EnsambladorInvariante, PTL

\* It goes down after a label defined twice or one that too many references wait for, and
\* not for anything else; a program with a label defined twice is never finished unless obs
\* has overflowed.
THEOREM CaidaSiempreJustificada == Spec => []CaidaJustificada
<1>1. EInv => CaidaJustificada
  <2> SUFFICES ASSUME EInv PROVE CaidaJustificada
    OBVIOUS
  <2> DEFINE f == fuente
             dos(p) == /\ p \in Etiquetas(f)
                       /\ \E q \in Definiciones(f, p, En(f, p).nombre) : Antes(q, p)
  <2>1. Aca \in Lugares(f) /\ En(f, Aca) = Linea /\ f \in Fuentes
    BY AcaEsta DEF EInv, Tipos
  <2>2. estado = "cae" => Excedida(f, Aca) \/ dos(Aca)
    BY <2>1 DEF EInv, Caidas, Repetida
  <2>3. ASSUME estado = "listo", NEW p \in Lugares(f), dos(p)
        PROVE  FALSE
    <3>1. PICK q \in Definiciones(f, p, En(f, p).nombre) : Antes(q, p)
      BY <2>3
    <3>2. Leidas = Lugares(f)
      BY <2>3 DEF Leidas
    <3>3. q \in Leidas \cap Etiquetas(f) /\ p \in Leidas \cap Etiquetas(f)
          /\ q[1] = p[1] /\ En(f, q).nombre = En(f, p).nombre
      BY <2>3, <3>2 DEF Definiciones, Etiquetas
    <3>4. p = q
      BY <2>3, <3>3 DEF EInv, Avance, Vive
    <3> QED
      BY <2>1, <2>3, <3>1, <3>4, OrdenTotal
  <2>4. \A p : dos(p) <=> /\ p \in {r \in Lugares(f) : En(f, r).tipo = "etiqueta"}
                          /\ \E q \in Definiciones(f, p, En(f, p).nombre) : Antes(q, p)
    BY DEF Etiquetas
  <2>5. Excedida(f, Aca) => \E p \in Previos(f, Aca), e \in {r \in Lugares(f) : En(f, r).tipo = "etiqueta"} :
          e[1] = p[1] /\ Cardinality(Esperan(f, p, En(f, e).nombre)) > CABEN
    BY DEF Excedida, Etiquetas
  <2> HIDE DEF dos
  <2> QED
    BY <2>2, <2>3, <2>4, <2>5 DEF CaidaJustificada, Aca
<1> QED
  BY <1>1, EnsambladorInvariante, PTL
=================================================================================
