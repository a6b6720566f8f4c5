------------------------------- MODULE Ensamblador -------------------------------
(*****************************************************************************)
(* so-ensamblador: two passes over each source file, the first one for its   *)
(* labels and the second one to write the program, with the references to    *)
(* labels further on completed when they are reached; and the decompiler.    *)
(*                                                                           *)
(* A line is a record with a tipo: "vacia", "comentario" (it has ^ in its    *)
(* first two characters), "etiqueta" (nombre, and nota when a comment        *)
(* follows), "data", "texto" (largo), "numero" (n) or "instruccion" (op and  *)
(* parametros).  A parameter is a record too: "reg" (r), "num" (n), "ref"    *)
(* (nombre) or "llamada" (n, its place in the table of system calls).        *)
(*****************************************************************************)
EXTENDS ESO

CONSTANTS
  Fuentes,   \* the command lines: sequences of files, which are sequences of lines
  CABEN      \* the positions that fit in the least block malloc gives (6 in 24 bytes)

\* The parameters and the lines there are, and the sources: no file is empty.
Argumentos ==
  [t : {"reg"}, r : STRING] \cup [t : {"num", "llamada"}, n : Int] \cup
  [t : {"ref"}, nombre : STRING]
Lineas ==
  [tipo : {"vacia", "comentario", "data"}] \cup
  [tipo : {"etiqueta"}, nombre : STRING, nota : BOOLEAN] \cup
  [tipo : {"texto"}, largo : Nat] \cup [tipo : {"numero"}, n : Int] \cup
  [tipo : {"instruccion"}, op : STRING, parametros : Seq(Argumentos)]

ASSUME FuentesAssumption ==
  /\ Fuentes \subseteq Seq(Seq(Lineas) \ {<<>>}) \ {<<>>}
  /\ CABEN \in Nat

VARIABLES
  fuente,    \* the files
  archivo, linea,   \* where it is
  labels,    \* the table of labels of the file
  position, isData, \* static: they go on from a file to the next one
  roto,      \* the memory of malloc has been written over
  salida,    \* what is written, by address
  listado,   \* what the decompiler has printed
  estado

entrada == <<fuente, archivo, linea>>
vars    == <<entrada, labels, roto, position, isData, salida, listado, estado>>

Linea == fuente[archivo][linea]

\* The text of a label after the colon, as the first pass and references have it.
Texto(e) == IF e.nota THEN <<e.nombre, "^">> ELSE <<e.nombre>>

Item(tipo, valor) == [tipo |-> tipo, valor |-> valor]

Init ==
  /\ fuente \in Fuentes
  /\ archivo = 1 /\ linea = 1 /\ labels = <<>> /\ position = 0 /\ isData = FALSE
  /\ salida = <<>> /\ listado = <<>> /\ roto = FALSE /\ estado = "etiquetas"

-------------------------------------------------------------------------------
(* The table of labels *)

\* The first pass: addLabel for every line that starts with a colon, with its comment.
addLabel(tabla, x) ==
  IF x.tipo # "etiqueta" THEN tabla
  ELSE Append(tabla, [label |-> Texto(x), point |-> -1, obs |-> <<>>, obsSize |-> 0])

TablaDe(lineas) ==
  LET t[n \in 0 .. Len(lineas)] == IF n = 0 THEN <<>> ELSE addLabel(t[n - 1], lineas[n])
  IN t[Len(lineas)]

PrimeraPasada ==
  /\ estado = "etiquetas"
  /\ labels' = TablaDe(fuente[archivo])
  /\ estado' = "traduce"
  /\ UNCHANGED <<entrada, roto, position, isData, salida, listado>>

\* findLabel: the first one with this text; it aborts when it is 0.
findLabel(texto, tabla) == SelectInSeq(tabla, LAMBDA e : e.label = texto)

\* getOrSubscribePos: the label's address, or -1 and the position in obs.
Suscribe(tabla, i, donde) ==
  IF tabla[i].point # -1 THEN tabla
  ELSE [tabla EXCEPT ![i].obs = Append(@, donde), ![i].obsSize = @ + 1]

\* Mutant: only the last one that waits for the label is completed.
CompletaUltima(obs, s, donde) ==
  [d \in DOMAIN s |-> IF obs # <<>> /\ d = Last(obs) THEN Item("num", donde) ELSE s[d]]

\* postTranslate: the positions in obs get the address.
Completa(obs, s, donde) ==
  [d \in DOMAIN s |-> IF Contains(obs, d) THEN Item("num", donde) ELSE s[d]]

-------------------------------------------------------------------------------
(* assembleLine *)

Pasa ==
  IF linea < Len(fuente[archivo])
  THEN linea' = linea + 1 /\ UNCHANGED <<archivo, estado>>
  ELSE /\ linea' = 1
       /\ IF archivo < Len(fuente) THEN archivo' = archivo + 1 /\ estado' = "etiquetas"
                                   ELSE archivo' = 1 /\ estado' = "listo"

\* It ends with abort(), or with a segmentation fault, and leaves a part of the program.
Termina(como) ==
  /\ estado' = como
  /\ UNCHANGED <<archivo, linea, labels, position, isData, salida>>

Comentario ==
  /\ estado = "traduce" /\ Linea.tipo = "comentario"
  /\ Pasa
  /\ UNCHANGED <<fuente, labels, roto, position, isData, salida, listado>>

\* A comment is not part of the label here.  The second line of a label has nothing in
\* obs and -1 in obsSize, which it counts down from.
Etiqueta ==
  LET i == findLabel(<<Linea.nombre>>, labels) IN
  /\ estado = "traduce" /\ Linea.tipo = "etiqueta"
  /\ IF i = 0 THEN Termina("aborta")
     ELSE IF labels[i].obsSize = -1 THEN Termina("cae")
     ELSE /\ labels' = [labels EXCEPT ![i].point = position, ![i].obs = <<>>,
                                      ![i].obsSize = -1]
          /\ salida' = Completa(labels[i].obs, salida, position)
          /\ Pasa
          /\ UNCHANGED <<position, isData>>
  /\ UNCHANGED <<fuente, roto, listado>>

Data ==
  /\ estado = "traduce" /\ Linea.tipo = "data"
  /\ isData' = TRUE
  /\ Pasa
  /\ UNCHANGED <<fuente, labels, roto, position, salida, listado>>

\* save: the output s with the item written at d.
save(s, d, item) == [x \in DOMAIN s \cup {d} |-> IF x = d THEN item ELSE s[x]]

Escribe1(item, largo) ==
  /\ salida' = IF largo = 0 THEN salida ELSE save(salida, position, item)
  /\ position' = position + largo

\* After DATA what is not a string is a number: 0 when it does not start with one.
Dato ==
  /\ estado = "traduce" /\ isData
  /\ Linea.tipo \in {"texto", "numero", "instruccion", "vacia"}
  /\ IF Linea.tipo = "texto" THEN Escribe1(Item("texto", Linea.largo), Linea.largo)
     ELSE Escribe1(Item("num", IF Linea.tipo = "numero" THEN Linea.n ELSE 0), 4)
  /\ Pasa
  /\ UNCHANGED <<fuente, labels, roto, isData, listado>>

isValidReg(x) == x \in {"A", "B", "C", "D", "E", "S", "X", "M", "P", "F"}

\* searchRule finds no rule, parameters are missing, or one is no register or no label.
Erronea(i) ==
  IF i.tipo # "instruccion" THEN TRUE ELSE
  \/ i.op \notin Codigos
  \/ Len(i.parametros) < Len(Regla(i.op))
  \/ \E k \in DOMAIN Regla(i.op) : LET x == i.parametros[k] IN
       \/ Regla(i.op)[k] = "R" /\ ~ (x.t = "reg" /\ isValidReg(x.r))
       \/ Regla(i.op)[k] = "N" /\ x.t = "ref" /\ findLabel(<<x.nombre>>, labels) = 0

\* The number written for the parameter x of op; INTE looks its text up in the table of
\* system calls and gives 0 to a label.
Numero(op, x, tabla) ==
  CASE x.t = "num" -> x.n
    [] x.t = "llamada" /\ op = "INTE" -> x.n
    [] x.t = "ref" /\ op # "INTE" -> tabla[findLabel(<<x.nombre>>, tabla)].point
    [] OTHER -> 0

\* The k-th parameter of i, after c: the position, what is written and the labels.
Parametro(i, c, k) ==
  LET x == i.parametros[k] IN
  IF Regla(i.op)[k] = "R"
  THEN [c EXCEPT !.dir = @ + 1, !.en = save(@, c.dir, Item("reg", x.r))]
  ELSE [dir |-> c.dir + 4, en |-> save(c.en, c.dir, Item("num", Numero(i.op, x, c.tabla))),
        tabla |-> IF x.t # "ref" THEN c.tabla
                  ELSE Suscribe(c.tabla, findLabel(<<x.nombre>>, c.tabla), c.dir)]

Escrita(i) ==
  LET c[k \in 0 .. Len(Regla(i.op))] ==
        IF k = 0 THEN [dir |-> position + 4, tabla |-> labels,
                       en |-> save(salida, position, Item("codigo", i.op))]
        ELSE Parametro(i, c[k - 1], k)
  IN c[Len(Regla(i.op))]

\* Mutant: the last position of the block counts as outside.
DesbordaAntes(tabla) == \E k \in DOMAIN tabla : tabla[k].obsSize >= CABEN

\* realloc is asked for one byte more each time: once the positions do not fit in the
\* least block they are written over the next one.
Desborda(tabla) == \E k \in DOMAIN tabla : tabla[k].obsSize > CABEN

Instruccion ==
  LET e == Escrita(Linea) IN
  /\ estado = "traduce" /\ ~ isData
  /\ Linea.tipo \in {"texto", "numero", "instruccion", "vacia"}
  /\ IF Erronea(Linea) THEN /\ Termina("aborta")
                            /\ UNCHANGED roto
     ELSE /\ salida' = e.en /\ position' = e.dir /\ labels' = e.tabla
          /\ roto' = (roto \/ Desborda(e.tabla))
          /\ Pasa
          /\ UNCHANGED isData
  /\ UNCHANGED <<fuente, listado>>

\* Once the memory has been written over anything may follow: a later calloc or free
\* falls, or the program goes on ("pisado") with what the neighbour of obs kept, the
\* places or the text of another label, replaced.  What it does then is left open.
SeRompe ==
  /\ roto /\ estado \in {"etiquetas", "traduce"}
  /\ \E como \in {"cae", "pisado"} : Termina(como)
  /\ UNCHANGED <<fuente, roto, listado>>

-------------------------------------------------------------------------------
(* decompile, of the file just written *)

Desde == IF listado = <<>> THEN 0 ELSE Last(listado).hasta

\* Mutant: it does not go on after a register that another one follows.
LecturaFija(op, dir) ==
  [k \in DOMAIN Regla(op) |->
     LET repite == k > 1 /\ Regla(op)[k] = "R" /\ Regla(op)[k - 1] = "R" IN
     salida[dir + Lugar(op, IF repite THEN k - 1 ELSE k)].valor]

\* The parameters of op at dir.
Lectura(op, dir) == [k \in DOMAIN Regla(op) |-> salida[dir + Lugar(op, k)].valor]

\* It prints an instruction, and ends at the end or after XXXX.  It knows a code by its
\* four bytes: at a datum it aborts or, when the bytes from there on spell a code, goes on
\* printing them as instructions ("datos").  What data spell, and what it prints of them
\* until it ends or aborts, is left open.
Decompila ==
  LET op == salida[Desde].valor IN
  /\ estado = "listo"
  /\ IF \/ Desde = position
        \/ listado # <<>> /\ Last(listado).op = "XXXX"
     THEN estado' = "fin" /\ UNCHANGED listado
     ELSE IF salida[Desde].tipo # "codigo"
     THEN /\ \/ estado' = "aborta"
             \/ estado' = "datos" /\ Desde + 4 <= position
          /\ UNCHANGED listado
     ELSE /\ listado' = Append(listado, [op |-> op, valores |-> Lectura(op, Desde),
                                         hasta |-> Desde + Tamanio(op)])
          /\ UNCHANGED estado
  /\ UNCHANGED <<entrada, labels, roto, position, isData, salida>>

Next ==
  \/ PrimeraPasada \/ Comentario \/ Etiqueta \/ Data \/ Dato \/ Instruccion
  \/ SeRompe \/ Decompila

Spec == Init /\ [][Next]_vars

-------------------------------------------------------------------------------
(* What the program should be, from the source f alone *)

Lugares(f) == UNION {{a} \X DOMAIN f[a] : a \in DOMAIN f}
En(f, p)   == f[p[1]][p[2]]

Antes(p, q)     == p[1] < q[1] \/ (p[1] = q[1] /\ p[2] < q[2])
Previos(f, p)   == {q \in Lugares(f) : Antes(q, p)}
EsDato(f, p)    == \E q \in Previos(f, p) : En(f, q).tipo = "data"
Sentencia(f, p) == En(f, p).tipo \notin {"comentario", "etiqueta", "data"}

Largo(f, p) ==
  IF ~ Sentencia(f, p) THEN 0
  ELSE IF ~ EsDato(f, p) THEN Tamanio(En(f, p).op)
  ELSE IF En(f, p).tipo = "texto" THEN En(f, p).largo ELSE 4

Direccion(f, p) == FoldFunction(+, 0, [q \in Previos(f, p) |-> Largo(f, q)])

\* The lines of p's file that define the label nombre.
Definiciones(f, p, nombre) ==
  {q \in Lugares(f) : q[1] = p[1] /\ En(f, q).tipo = "etiqueta" /\ En(f, q).nombre = nombre}

\* The references of the line p to labels, by their place among the parameters.
Referencias(f, p) ==
  {k \in DOMAIN Regla(En(f, p).op) : En(f, p).parametros[k].t = "ref"}

\* What the k-th parameter of p stands for.
Significa(f, p, k) ==
  LET x == En(f, p).parametros[k] IN
  CASE x.t = "reg" -> x.r
    [] x.t \in {"num", "llamada"} -> x.n
    [] x.t = "ref" -> Direccion(f, CHOOSE q \in Definiciones(f, p, x.nombre) : TRUE)

\* A parameter that has no meaning: INTE of a label, a name or a register as a number.
SinSentido(f, p, k) ==
  LET x == En(f, p).parametros[k] IN
  \/ x.t = "llamada" /\ En(f, p).op # "INTE"
  \/ x.t = "ref" /\ En(f, p).op = "INTE"
  \/ x.t = "reg" /\ Regla(En(f, p).op)[k] = "N"

Programa(f) == {p \in Lugares(f) : Sentencia(f, p) /\ ~ EsDato(f, p)}

\* No datum comes before the decompiler stops.
Acaba(f) ==
  \/ \E p \in Programa(f) : En(f, p).op = "XXXX"
  \/ \A p \in Lugares(f) : EsDato(f, p) => Largo(f, p) = 0

\* The instructions up to the first XXXX.
Suyas(f) == {p \in Programa(f) : \A q \in Programa(f) : Antes(q, p) => En(f, q).op # "XXXX"}

\* What is written for the datum p.
Dado(f, p) ==
  CASE En(f, p).tipo = "texto"  -> Item("texto", En(f, p).largo)
    [] En(f, p).tipo = "numero" -> Item("num", En(f, p).n)
    [] OTHER                    -> Item("num", 0)

-------------------------------------------------------------------------------
(* Properties *)

\* When the second pass has ended, each instruction and datum is at the sum of the sizes
\* of the lines before it, also those of other files, and each parameter says what the
\* line says: a reference, forward or backward, is the address of its label; as long as
\* no label has had more references waiting than fit.
SalidaFiel ==
  estado \in {"listo", "fin", "datos"} /\ ~ roto =>
    \A p \in Lugares(fuente) : LET dir == Direccion(fuente, p)
                                  op  == En(fuente, p).op IN
      /\ p \in Programa(fuente) =>
           /\ salida[dir] = Item("codigo", op)
           /\ \A k \in DOMAIN Regla(op) : SinSentido(fuente, p, k) \/
                salida[dir + Lugar(op, k)].valor = Significa(fuente, p, k)
      /\ Sentencia(fuente, p) /\ EsDato(fuente, p) /\ Largo(fuente, p) > 0 =>
           salida[dir] = Dado(fuente, p)

\* The decompiler prints the instructions of the source in their order, up to the first
\* XXXX, with the labels as addresses; after them it prints data as instructions, if they
\* look like it, only in a program with data and no XXXX.
DecompilaFiel ==
  estado \in {"fin", "datos"} /\ ~ roto =>
    /\ estado = "datos" => ~ Acaba(fuente)
    /\ Len(listado) = Cardinality(Suyas(fuente))
    /\ \A p \in Suyas(fuente) :
         LET j  == Cardinality({q \in Suyas(fuente) : Antes(q, p)}) + 1
             op == En(fuente, p).op IN
         /\ listado[j].op = op
         /\ \A k \in DOMAIN Regla(op) :
              SinSentido(fuente, p, k) \/ listado[j].valores[k] = Significa(fuente, p, k)

\* The references of p's file to the label nombre that wait for it when p has been read.
Esperan(f, p, nombre) ==
  {x \in {q \in Programa(f) : q[1] = p[1] /\ ~ Antes(p, q)} \X (1 .. 3) :
     /\ x[2] \in Referencias(f, x[1]) /\ En(f, x[1]).parametros[x[2]].nombre = nombre
     /\ \A d \in Definiciones(f, p, nombre) : Antes(p, d)}

\* The assembler goes down only after a label defined twice or one that more than CABEN
\* references wait for, and a program with a label defined twice is never finished if obs
\* has not overflowed.
CaidaJustificada ==
  LET aca == <<archivo, linea>>
      etiquetas == {p \in Lugares(fuente) : En(fuente, p).tipo = "etiqueta"}
      dos(p) == /\ p \in etiquetas
                /\ \E q \in Definiciones(fuente, p, En(fuente, p).nombre) : Antes(q, p)
  IN /\ estado = "cae" =>
          dos(aca) \/ \E p \in Previos(fuente, aca), e \in etiquetas :
            e[1] = p[1] /\ Cardinality(Esperan(fuente, p, En(fuente, e).nombre)) > CABEN
     /\ estado = "listo" /\ ~ roto => \A p \in Lugares(fuente) : ~ dos(p)
================================================================================
