----------------------------- MODULE Kernel_proofs -----------------------------
(*****************************************************************************)
(* Proofs about the Kernel: the tokens of sem_CPU and the orders of the CPUs *)
(* agree with the bits of CPU_list, which dispatcher and planificador change *)
(* without a lock; the kernel thread is in one place, and the callers are    *)
(* those of the calls that wait or are executed.                             *)
(* For any number of CPUs, programs and threads and for all the system calls.*)
(*****************************************************************************)
EXTENDS Kernel, Lemas, FiniteSetTheorems

\* A sequence, of whatever it is.
Secuencia(s) == \E S : s \in Seq(S)

-------------------------------------------------------------------------------
(* Counting *)

Finales(s) == Cuantos(s, esFinal)

\* The positions of the final messages of s.
Marcas(s) == {i \in DOMAIN s : esFinal(s[i])}

\* The final messages of a sequence are finitely many.
LEMMA CuantosNat ==
  ASSUME NEW s, Secuencia(s)
  PROVE  Finales(s) \in Nat /\ IsFiniteSet(Marcas(s)) /\ Finales(s) = Cardinality(Marcas(s))
<1>1. PICK S : s \in Seq(S)
  BY DEF Secuencia
<1>2. Len(s) \in Nat /\ DOMAIN s = 1 .. Len(s)
  BY <1>1
<1>3. IsFiniteSet(1 .. Len(s))
  BY <1>2, FS_Interval
<1>4. Marcas(s) \in SUBSET (1 .. Len(s))
  BY <1>2 DEF Marcas
<1>5. IsFiniteSet(Marcas(s))
  BY <1>3, <1>4, FS_Subset
<1>6. Finales(s) = Cardinality(Marcas(s))
  BY DEF Finales, Cuantos, Marcas
<1> QED
  BY <1>5, <1>6, FS_CardinalityType

\* A message more at the end.
LEMMA CuantosAppend ==
  ASSUME NEW s, Secuencia(s), NEW m
  PROVE  /\ Secuencia(Append(s, m))
         /\ Finales(Append(s, m)) = Finales(s) + Uno(esFinal(m))
<1>1. PICK S : s \in Seq(S)
  BY DEF Secuencia
<1> DEFINE t == Append(s, m)
<1>2. s \in Seq(S \cup {m}) /\ m \in S \cup {m}
  BY <1>1
<1>3. /\ t \in Seq(S \cup {m}) /\ Len(s) \in Nat /\ DOMAIN s = 1 .. Len(s)
      /\ DOMAIN t = 1 .. Len(s) + 1
      /\ t[Len(s) + 1] = m /\ \A i \in 1 .. Len(s) : t[i] = s[i]
  BY <1>2
<1>4. Secuencia(t)
  BY <1>3 DEF Secuencia
<1> HIDE DEF t
<1>5. CASE esFinal(m)
  <2>1. Marcas(t) = Marcas(s) \cup {Len(s) + 1}
    BY <1>3, <1>5 DEF Marcas
  <2>2. Len(s) + 1 \notin Marcas(s)
    BY <1>3 DEF Marcas
  <2>3. Cardinality(Marcas(t)) = Cardinality(Marcas(s)) + 1
    <3>1. IsFiniteSet(Marcas(s))
      BY CuantosNat
    <3> QED
      BY <2>1, <2>2, <3>1, FS_AddElement
  <2> QED
    BY <1>4, <1>5, <2>3, CuantosNat DEF Uno, t
<1>6. CASE ~ esFinal(m)
  <2>1. Marcas(t) = Marcas(s)
    BY <1>3, <1>6 DEF Marcas
  <2> QED
    BY <1>4, <1>6, <2>1, CuantosNat DEF Uno, t
<1> QED
  BY <1>5, <1>6

\* A message less at the front.
LEMMA CuantosTail ==
  ASSUME NEW s, Secuencia(s), s # <<>>
  PROVE  /\ Secuencia(Tail(s))
         /\ Finales(s) = Finales(Tail(s)) + Uno(esFinal(Head(s)))
<1>1. PICK S : s \in Seq(S)
  BY DEF Secuencia
<1> DEFINE t == Tail(s)
           A == Marcas(t)
           B == Marcas(s) \ {1}
<1>2. /\ t \in Seq(S) /\ Len(s) \in Nat \ {0} /\ DOMAIN s = 1 .. Len(s)
      /\ DOMAIN t = 1 .. Len(s) - 1 /\ \A i \in 1 .. Len(s) - 1 : t[i] = s[i + 1]
      /\ Head(s) = s[1]
  BY <1>1
<1>3. Secuencia(t)
  BY <1>2 DEF Secuencia
<1>4. IsFiniteSet(A) /\ Finales(t) = Cardinality(A) /\ Finales(t) \in Nat
  BY <1>3, CuantosNat
<1>5. Cardinality(B) = Cardinality(A)
  <2> HIDE DEF t
  <2> DEFINE f == [i \in A |-> i + 1]
  <2>1. \A i \in A : i \in 1 .. Len(s) - 1 /\ esFinal(s[i + 1])
    BY <1>2 DEF Marcas
  <2>2. \A i \in A : f[i] \in B
    BY <1>2, <2>1 DEF Marcas
  <2>3. \A i, j \in A : f[i] = f[j] => i = j
    BY <1>2, <2>1
  <2>4. \A j \in B : j - 1 \in A /\ f[j - 1] = j
    <3> SUFFICES ASSUME NEW j \in B PROVE j - 1 \in A /\ (j - 1) + 1 = j
      OBVIOUS
    <3>1. j \in 2 .. Len(s) /\ esFinal(s[j])
      BY <1>2 DEF Marcas
    <3>2. j - 1 \in 1 .. Len(s) - 1 /\ (j - 1) + 1 = j
      BY <1>2, <3>1
    <3> QED
      BY <1>2, <3>1, <3>2 DEF Marcas
  <2>5. f \in Bijection(A, B)
    BY <2>2, <2>3, <2>4, Zenon DEF Bijection, Injection, Surjection, IsInjective
  <2> QED
    BY <1>4, <2>5, FS_Bijection DEF ExistsBijection
<1>6. IsFiniteSet(Marcas(s)) /\ Finales(s) = Cardinality(Marcas(s)) /\ Finales(s) \in Nat
  BY CuantosNat
<1>7. 1 \in Marcas(s) <=> esFinal(Head(s))
  BY <1>2 DEF Marcas
<1>8. Cardinality(B) = IF 1 \in Marcas(s) THEN Finales(s) - 1 ELSE Finales(s)
  BY <1>6, FS_RemoveElement
<1> QED
  BY <1>3, <1>4, <1>5, <1>6, <1>7, <1>8 DEF Uno

-------------------------------------------------------------------------------
(* The calls planificador has to make *)

Pasos == {"libre", "exec", "post", "sumar", "encolar", "avisar", "responder", "contar",
          "sacar", "exit", "finKM", "postKM"}

Esta(p, paso) == \E i \in DOMAIN p : p[i] = paso

\* liberar_cpu marks the CPU free and later posts its token, and is called once.
PasosBien(p) ==
  /\ p \in Seq(Pasos)
  /\ \A i \in DOMAIN p : p[i] = "libre" => i + 2 \in DOMAIN p /\ p[i + 2] = "post"
  /\ \A i, j \in DOMAIN p : p[i] = p[j] /\ p[i] \in {"libre", "post"} => i = j

\* What the next call is says whether the bit and the token are still to come.
LEMMA PasosTail ==
  ASSUME NEW p, PasosBien(p), p # <<>>
  PROVE  /\ PasosBien(Tail(p))
         /\ Head(p) \notin {"libre", "post"} =>
              /\ Esta(Tail(p), "libre") <=> Esta(p, "libre")
              /\ Esta(Tail(p), "post") <=> Esta(p, "post")
         /\ Head(p) = "libre" =>
              Esta(p, "libre") /\ Esta(p, "post") /\ ~ Esta(Tail(p), "libre") /\ Esta(Tail(p), "post")
         /\ Head(p) = "post" =>
              Esta(p, "post") /\ ~ Esta(p, "libre") /\ ~ Esta(Tail(p), "post") /\ ~ Esta(Tail(p), "libre")
<1> DEFINE t == Tail(p)
<1>1. /\ t \in Seq(Pasos) /\ Len(p) \in Nat \ {0} /\ DOMAIN p = 1 .. Len(p)
      /\ DOMAIN t = 1 .. Len(p) - 1 /\ \A i \in 1 .. Len(p) - 1 : t[i] = p[i + 1]
      /\ Head(p) = p[1]
  BY DEF PasosBien
<1>2. /\ \A i \in DOMAIN p : p[i] = "libre" => i + 2 \in DOMAIN p /\ p[i + 2] = "post"
      /\ \A i, j \in DOMAIN p : p[i] = p[j] /\ p[i] \in {"libre", "post"} => i = j
  BY DEF PasosBien
<1> HIDE DEF t
<1>3. \A i \in DOMAIN t : i \in Nat \ {0} /\ i + 1 \in DOMAIN p /\ t[i] = p[i + 1]
  BY <1>1
<1>4. \A j \in DOMAIN p : j # 1 => j - 1 \in DOMAIN t /\ t[j - 1] = p[j]
  <2> SUFFICES ASSUME NEW j \in DOMAIN p, j # 1 PROVE j - 1 \in DOMAIN t /\ t[j - 1] = p[j]
    OBVIOUS
  <2>1. j - 1 \in 1 .. Len(p) - 1 /\ (j - 1) + 1 = j
    BY <1>1
  <2> QED
    BY <1>1, <2>1
<1>5. PasosBien(t)
  <2>1. ASSUME NEW i \in DOMAIN t, t[i] = "libre" PROVE i + 2 \in DOMAIN t /\ t[i + 2] = "post"
    <3>1. i \in Nat /\ (i + 1) + 2 \in DOMAIN p /\ p[(i + 1) + 2] = "post"
      BY <1>2, <1>3, <2>1
    <3>2. (i + 1) + 2 # 1 /\ ((i + 1) + 2) - 1 = i + 2
      BY <3>1
    <3> QED
      BY <1>4, <3>1, <3>2
  <2>2. ASSUME NEW i \in DOMAIN t, NEW j \in DOMAIN t, t[i] = t[j], t[i] \in {"libre", "post"}
        PROVE  i = j
    <3>1. i + 1 = j + 1
      BY <1>2, <1>3, <2>2
    <3> QED
      BY <1>3, <3>1
  <2> QED
    BY <1>1, <2>1, <2>2 DEF PasosBien
<1>6. ASSUME NEW x PROVE Esta(p, x) <=> (p[1] = x \/ Esta(t, x))
  <2>1. 1 \in DOMAIN p
    BY <1>1
  <2> QED
    BY <1>3, <1>4, <2>1 DEF Esta
<1>7. ASSUME NEW x \in {"libre", "post"}, p[1] = x PROVE ~ Esta(t, x)
  <2> SUFFICES ASSUME NEW i \in DOMAIN t, t[i] = x PROVE FALSE
    BY DEF Esta
  <2>1. i + 1 = 1 /\ 1 \in DOMAIN p
    BY <1>1, <1>2, <1>3, <1>7
  <2> QED
    BY <1>3, <2>1
<1>8. CASE p[1] = "libre"
  <2>1. 1 \in DOMAIN p
    BY <1>1
  <2>2. Esta(p, "post")
    BY <1>2, <1>8, <2>1 DEF Esta
  <2> QED
    BY <1>1, <1>5, <1>6, <1>7, <1>8, <2>2 DEF t
<1>9. CASE p[1] = "post"
  <2>1. ~ Esta(p, "libre")
    <3> SUFFICES ASSUME NEW i \in DOMAIN p, p[i] = "libre" PROVE FALSE
      BY DEF Esta
    <3>1. i + 2 \in DOMAIN p /\ p[i + 2] = "post" /\ 1 \in DOMAIN p /\ i \in Nat
      BY <1>1, <1>2
    <3>2. i + 2 = 1
      BY <1>2, <1>9, <3>1
    <3> QED
      BY <3>1, <3>2
  <2> QED
    BY <1>1, <1>5, <1>6, <1>7, <1>9, <2>1 DEF t
<1> QED
  BY <1>1, <1>5, <1>6, <1>8, <1>9 DEF t

\* A handler that calls liberar_cpu once, among other calls.
LEMMA PasosLibera ==
  ASSUME NEW a \in Seq(Pasos), NEW b \in Seq(Pasos),
         ~ Esta(a, "libre"), ~ Esta(a, "post"), ~ Esta(b, "libre"), ~ Esta(b, "post")
  PROVE  PasosBien((a \o libera) \o b) /\ Esta((a \o libera) \o b, "libre")
<1> DEFINE n == Len(a)
           p == (a \o libera) \o b
<1>1. /\ libera \in Seq(Pasos) /\ Len(libera) = 3
      /\ libera[1] = "libre" /\ libera[2] = "exec" /\ libera[3] = "post"
  <2>1. "libre" \in Pasos /\ "exec" \in Pasos /\ "post" \in Pasos
    BY DEF Pasos
  <2>2. libera \in Seq(Pasos)
    BY <2>1 DEF libera
  <2> QED
    BY <2>2 DEF libera
<1>2. n \in Nat /\ Len(b) \in Nat /\ DOMAIN a = 1 .. n /\ DOMAIN b = 1 .. Len(b)
  OBVIOUS
<1>3. /\ a \o libera \in Seq(Pasos) /\ Len(a \o libera) = n + 3
      /\ \A i \in 1 .. n + 3 : (a \o libera)[i] = IF i <= n THEN a[i] ELSE libera[i - n]
  <2>1. /\ a \o libera \in Seq(Pasos) /\ Len(a \o libera) = Len(a) + Len(libera)
        /\ \A i \in 1 .. Len(a) + Len(libera) :
             (a \o libera)[i] = IF i <= Len(a) THEN a[i] ELSE libera[i - Len(a)]
    BY <1>1, ConcatProperties
  <2> QED
    BY <1>1, <2>1
<1>4. /\ p \in Seq(Pasos) /\ Len(p) = (n + 3) + Len(b) /\ DOMAIN p = 1 .. (n + 3) + Len(b)
      /\ \A i \in 1 .. (n + 3) + Len(b) : p[i] = IF i <= n + 3 THEN (a \o libera)[i]
                                                          ELSE b[i - (n + 3)]
  <2> DEFINE c == a \o libera
  <2> HIDE DEF c
  <2>1. c \in Seq(Pasos) /\ Len(c) = n + 3
    BY <1>3 DEF c
  <2>2. /\ c \o b \in Seq(Pasos) /\ Len(c \o b) = Len(c) + Len(b)
        /\ \A i \in 1 .. Len(c) + Len(b) :
             (c \o b)[i] = IF i <= Len(c) THEN c[i] ELSE b[i - Len(c)]
    BY <2>1, ConcatProperties
  <2>3. DOMAIN (c \o b) = 1 .. Len(c \o b)
    BY <2>2
  <2> QED
    BY <2>1, <2>2, <2>3 DEF c
<1> HIDE DEF p, n
<1>5. /\ n + 1 \in DOMAIN p /\ n + 2 \in DOMAIN p /\ n + 3 \in DOMAIN p
      /\ p[n + 1] = "libre" /\ p[n + 2] = "exec" /\ p[n + 3] = "post"
  <2>1. /\ (n + 1) - n = 1 /\ (n + 2) - n = 2 /\ (n + 3) - n = 3
        /\ {n + 1, n + 2, n + 3} \subseteq 1 .. n + 3
        /\ {n + 1, n + 2, n + 3} \subseteq 1 .. (n + 3) + Len(b)
    BY <1>2
  <2> DEFINE c == a \o libera
  <2>2. /\ \A i \in 1 .. n + 3 : p[i] = c[i]
        /\ \A i \in 1 .. n + 3 : c[i] = IF i <= n THEN a[i] ELSE libera[i - n]
        /\ DOMAIN p = 1 .. (n + 3) + Len(b)
    <3>1. \A i \in 1 .. n + 3 : i \in 1 .. (n + 3) + Len(b) /\ i <= n + 3
      BY <1>2
    <3> QED
      BY <1>3, <1>4, <3>1
  <2> HIDE DEF c
  <2>3. ~ n + 1 <= n /\ ~ n + 2 <= n /\ ~ n + 3 <= n
    BY <1>2
  <2>4. c[n + 1] = libera[1] /\ c[n + 2] = libera[2] /\ c[n + 3] = libera[3]
    BY <2>1, <2>2, <2>3
  <2> QED
    BY <1>1, <2>1, <2>2, <2>4
<1>6. ASSUME NEW i \in DOMAIN p, p[i] \in {"libre", "post"}
      PROVE  i \in Nat /\ i = IF p[i] = "libre" THEN n + 1 ELSE n + 3
  <2>1. i \in 1 .. (n + 3) + Len(b)
    BY <1>4
  <2>2. CASE i <= n
    <3>1. p[i] = a[i] /\ i \in DOMAIN a
      BY <1>2, <1>3, <1>4, <2>1, <2>2
    <3> QED
      BY <1>6, <3>1 DEF Esta
  <2>3. CASE i > n /\ i <= n + 3
    <3>1. i \in {n + 1, n + 2, n + 3}
      BY <1>2, <2>1, <2>3
    <3> QED
      BY <1>2, <1>5, <1>6, <3>1
  <2>4. CASE i > n + 3
    <3>1. p[i] = b[i - (n + 3)] /\ i - (n + 3) \in DOMAIN b
      BY <1>2, <1>4, <2>1, <2>4
    <3> QED
      BY <1>6, <3>1 DEF Esta
  <2> QED
    BY <1>2, <2>1, <2>2, <2>3, <2>4
<1>7. PasosBien(p)
  <2>1. ASSUME NEW i \in DOMAIN p, p[i] = "libre" PROVE i + 2 \in DOMAIN p /\ p[i + 2] = "post"
    <3>1. i = n + 1 /\ (n + 1) + 2 = n + 3
      BY <1>2, <1>6, <2>1
    <3> QED
      BY <1>5, <3>1
  <2> QED
    BY <1>4, <1>6, <2>1 DEF PasosBien
<1> QED
  BY <1>5, <1>7 DEF Esta, p

\* A handler that does not call it.
LEMMA PasosSinLibera ==
  ASSUME NEW p \in Seq(Pasos), ~ Esta(p, "libre"), ~ Esta(p, "post")
  PROVE  PasosBien(p)
BY DEF PasosBien, Esta

Simples == Pasos \ {"libre", "post"}

\* A list of calls without liberar_cpu gives nothing back.
LEMMA SimplesSinLibera ==
  ASSUME NEW p \in Seq(Simples)
  PROVE  p \in Seq(Pasos) /\ ~ Esta(p, "libre") /\ ~ Esta(p, "post")
<1>1. \A i \in DOMAIN p : p[i] \in Simples
  OBVIOUS
<1>2. p \in Seq(Pasos)
  BY DEF Simples
<1> QED
  BY <1>1, <1>2 DEF Esta, Simples

-------------------------------------------------------------------------------
(* The inductive invariant *)

yo     == hilo["planificador"]
Bit    == Falta("planificador", "libre")
Token  == Falta("planificador", "post")
Campos == {"pasos", "tcb", "n", "id"}

\* dispatcher has a token of sem_CPU; it has a CPU and has not sent the order yet.
Reserva == disp.pc \in {"listo2", "elegir", "km", "buscar"}
Orden   == disp.pc \in {"exec", "enviar"}

TiposPlan ==
  /\ DOMAIN hilo = Hilos /\ DOMAIN yo = Campos
  /\ PasosBien(yo.pasos)
  /\ Bit \/ Token => yo.id \in CPUs

TiposDisp ==
  /\ DOMAIN disp = {"pc", "tcb", "cpu"}
  /\ Orden => disp.cpu \in CPUs

TiposCPU ==
  /\ sem_CPU \in Nat
  /\ DOMAIN CPU_list = CPUs /\ DOMAIN turno = CPUs /\ DOMAIN mensajes = CPUs
  /\ \A c \in CPUs : /\ DOMAIN CPU_list[c] = {"estado", "pid", "tid"}
                     /\ Secuencia(turno[c]) /\ Secuencia(mensajes[c])

Libres == {c \in CPUs : CPU_list[c].estado = "libre"}
Fichas == sem_CPU + Uno(Reserva) + Uno(Token /\ ~ Bit) = Cardinality(Libres)
Turno(c) ==
  Len(turno[c]) + Finales(mensajes[c]) + Uno(Orden /\ disp.cpu = c) + Uno(yo.id = c /\ Bit)
  = Uno(CPU_list[c].estado = "ocupado")

Tipos == TiposPlan /\ TiposDisp /\ TiposCPU
IInv  == Tipos /\ Fichas /\ \A c \in CPUs : Turno(c)

\* The CPUs marked free are finitely many, because the CPUs are.
LEMMA LibresFinitas == IsFiniteSet(Libres) /\ Cardinality(Libres) \in Nat
<1>1. IsFiniteSet(CPUs)
  BY KernelAssumption, FS_Interval DEF CPUs
<1>2. Libres \in SUBSET CPUs
  BY DEF Libres
<1> QED
  BY <1>1, <1>2, FS_Subset, FS_CardinalityType

\* The invariant says what the two properties say, in parts.
LEMMA SemaforosYTurnos == IInv => FichasCPU /\ UnTurnoPorCPU
  BY DEF IInv, Fichas, Turno, FichasCPU, UnTurnoPorCPU, Reserva, Orden, Token, Bit, Libres,
         Finales, yo

\* The initial states.
LEMMA Inicio == Init => IInv
<1> SUFFICES ASSUME Init PROVE IInv
  OBVIOUS
<1>1. <<>> \in Seq(Pasos) /\ DOMAIN <<>> = {} /\ Secuencia(<<>>) /\ Len(<<>>) = 0
  <2>1. <<>> \in Seq({})
    OBVIOUS
  <2> QED
    BY <2>1 DEF Secuencia
<1>2. yo = Reposo /\ DOMAIN hilo = Hilos
  BY DEF Init, yo, Hilos
<1>3. ~ Bit /\ ~ Token
  BY <1>1, <1>2 DEF Bit, Token, Falta, yo, Reposo
<1>4. TiposPlan
  BY <1>1, <1>2, <1>3 DEF TiposPlan, Reposo, Campos, PasosBien
<1>5. TiposDisp /\ ~ Orden /\ ~ Reserva
  BY DEF Init, TiposDisp, Orden, Reserva
<1>6. TiposCPU
  BY <1>1 DEF Init, TiposCPU
<1>7. Libres = {} /\ \A c \in CPUs : CPU_list[c].estado = "ausente"
  BY DEF Init, Libres
<1>8. Fichas
  BY <1>3, <1>5, <1>7, FS_EmptySet DEF Init, Fichas, Uno
<1>9. ASSUME NEW c \in CPUs PROVE Turno(c)
  <2>1. turno[c] = <<>> /\ mensajes[c] = <<>>
    BY DEF Init
  <2>2. Finales(<<>>) = 0
    <3>1. Marcas(<<>>) = {}
      BY <1>1 DEF Marcas
    <3> QED
      BY <1>1, <3>1, CuantosNat, FS_EmptySet
  <2> QED
    BY <1>1, <1>3, <1>5, <1>7, <2>1, <2>2 DEF Turno, Uno
<1> QED
  BY <1>4, <1>5, <1>6, <1>8, <1>9 DEF IInv, Tipos

-------------------------------------------------------------------------------
(* The steps *)

\* What does not touch the CPUs, nor what planificador and dispatcher owe them.
LEMMA Estable ==
  ASSUME IInv, TiposPlan', TiposDisp',
         UNCHANGED <<sem_CPU, CPU_list, turno, mensajes>>,
         Reserva' <=> Reserva, Orden' <=> Orden, Orden => disp'.cpu = disp.cpu,
         Bit' <=> Bit, Token' <=> Token, Bit => yo'.id = yo.id
  PROVE  IInv'
<1>1. TiposCPU'
  BY DEF IInv, Tipos, TiposCPU
<1>2. Libres' = Libres
  BY DEF Libres
<1>3. Fichas'
  BY <1>2 DEF IInv, Fichas, Uno
<1>4. ASSUME NEW c \in CPUs PROVE Turno(c)'
  <2>1. Turno(c)
    BY DEF IInv
  <2>2. Finales(mensajes[c])' = Finales(mensajes[c])
    BY DEF Finales
  <2>3. (Orden /\ disp.cpu = c)' <=> (Orden /\ disp.cpu = c)
    OBVIOUS
  <2>4. (yo.id = c /\ Bit)' <=> (yo.id = c /\ Bit)
    OBVIOUS
  <2> QED
    BY <2>1, <2>2, <2>3, <2>4 DEF Turno, Uno
<1> QED
  BY <1>1, <1>3, <1>4 DEF IInv, Tipos

\* planificador goes on to its next call.
LEMMA PlanSigue ==
  ASSUME TiposPlan, NEW f, DOMAIN f = Campos, f.pasos = yo.pasos, f.id = yo.id,
         NEW x, EnPaso("planificador", x), Sigue("planificador", f)
  PROVE  /\ TiposPlan'
         /\ x \notin {"libre", "post"} => (Bit' <=> Bit) /\ (Token' <=> Token)
         /\ x = "libre" => Bit /\ Token /\ ~ Bit' /\ Token'
         /\ x = "post" => Token /\ ~ Bit /\ ~ Bit' /\ ~ Token'
         /\ Bit' \/ Token' => yo'.id = yo.id
<1> DEFINE p == yo.pasos
<1>1. PasosBien(p) /\ p # <<>> /\ Head(p) = x /\ p \in Seq(Pasos)
  BY DEF TiposPlan, EnPaso, yo, PasosBien
<1>2. DOMAIN hilo' = Hilos
  BY DEF TiposPlan, Sigue
<1>3. yo' = IF Len(p) = 1 THEN Reposo ELSE [f EXCEPT !.pasos = Tail(f.pasos)]
  BY DEF TiposPlan, Sigue, yo, Hilos
<1>4. CASE Len(p) = 1
  <2>1. Tail(p) = <<>>
    <3>1. Tail(p) \in Seq(Pasos) /\ Len(Tail(p)) = 0
      BY <1>1, <1>4
    <3> QED
      BY <3>1, EmptySeq
  <2>2. yo'.pasos = Tail(p) /\ DOMAIN yo' = Campos
    BY <1>3, <1>4, <2>1 DEF Reposo, Campos
  <2>5. ~ Esta(Tail(p), "libre") /\ ~ Esta(Tail(p), "post")
    <3>1. DOMAIN <<>> = {}
      OBVIOUS
    <3> QED
      BY <2>1, <3>1, Zenon DEF Esta
  <2>3. ~ Bit' /\ ~ Token'
    BY <2>2, <2>5 DEF Bit, Token, Falta, Esta, yo
  <2>4. x = "libre" => Esta(Tail(p), "post")
    BY <1>1, PasosTail
  <2>6. x # "libre"
    BY <2>5, <2>4
  <2>7. x = "post" => Esta(p, "post") /\ ~ Esta(p, "libre")
    BY <1>1, PasosTail
  <2>8. x # "post" => ~ Esta(p, "post") /\ ~ Esta(p, "libre")
    BY <1>1, <2>5, <2>6, PasosTail
  <2>9. (Bit <=> Esta(p, "libre")) /\ (Token <=> Esta(p, "post"))
    BY DEF Bit, Token, Falta, Esta, yo
  <2>10. PasosBien(yo'.pasos)
    BY <1>1, <2>2, PasosTail
  <2>11. TiposPlan'
    BY <1>2, <2>2, <2>3, <2>10 DEF TiposPlan
  <2> QED
    BY <2>3, <2>6, <2>7, <2>8, <2>9, <2>11
<1>5. CASE Len(p) # 1
  <2>1. yo'.pasos = Tail(p) /\ DOMAIN yo' = Campos /\ yo'.id = yo.id
    BY <1>3, <1>5 DEF Campos
  <2>2. /\ Bit' <=> Esta(Tail(p), "libre") 
        /\ Token' <=> Esta(Tail(p), "post")
        /\ Bit <=> Esta(p, "libre")
        /\ Token <=> Esta(p, "post")
    BY <2>1 DEF Bit, Token, Falta, Esta, yo
  <2>3. Bit' \/ Token' => Bit \/ Token
    BY <1>1, <2>2, PasosTail
  <2>4. PasosBien(yo'.pasos)
    BY <1>1, <2>1, PasosTail
  <2>5. TiposPlan'
    BY <1>2, <2>1, <2>3, <2>4 DEF TiposPlan
  <2>6. x = Head(p)
    BY <1>1
  <2>7. /\ x \notin {"libre", "post"} =>
             /\ Esta(Tail(p), "libre") <=> Esta(p, "libre")
             /\ Esta(Tail(p), "post") <=> Esta(p, "post")
        /\ x = "libre" =>
             Esta(p, "libre") /\ Esta(p, "post") /\ ~ Esta(Tail(p), "libre") /\ Esta(Tail(p), "post")
        /\ x = "post" =>
             Esta(p, "post") /\ ~ Esta(p, "libre") /\ ~ Esta(Tail(p), "post") /\ ~ Esta(Tail(p), "libre")
    BY <1>1, <2>6, PasosTail
  <2> HIDE DEF p
  <2> QED
    BY <2>1, <2>2, <2>5, <2>7
<1> QED
  BY <1>4, <1>5

\* Steps of other threads.
LEMMA PlanIgual ==
  ASSUME IInv, DOMAIN hilo' = Hilos, yo' = yo, TiposDisp',
         UNCHANGED <<sem_CPU, CPU_list, turno, mensajes>>,
         Reserva' <=> Reserva, Orden' <=> Orden, Orden => disp'.cpu = disp.cpu
  PROVE  IInv'
<1>1. (Bit' <=> Bit) /\ (Token' <=> Token)
  BY DEF Bit, Token, Falta, yo
<1>2. TiposPlan'
  BY <1>1 DEF IInv, Tipos, TiposPlan
<1> QED
  BY <1>1, <1>2, Estable

\* Steps that leave hilo, disp and the CPUs alone.
LEMMA Ajeno ==
  ASSUME IInv, UNCHANGED <<sem_CPU, CPU_list, turno, mensajes, disp, hilo>>
  PROVE  IInv'
<1>1. DOMAIN hilo' = Hilos /\ yo' = yo
  BY DEF IInv, Tipos, TiposPlan, yo
<1>2. TiposDisp' /\ (Reserva' <=> Reserva) /\ (Orden' <=> Orden)
  BY DEF IInv, Tipos, TiposDisp, Reserva, Orden
<1> QED
  BY <1>1, <1>2, PlanIgual

\* loader: what it has to do is not planificador's.
LEMMA LoaderIgual ==
  ASSUME IInv, NEW f, hilo' = [hilo EXCEPT !["loader"] = f],
         UNCHANGED <<sem_CPU, CPU_list, turno, mensajes, disp>>
  PROVE  IInv'
<1>1. DOMAIN hilo' = Hilos /\ yo' = yo
  BY DEF IInv, Tipos, TiposPlan, yo, Hilos
<1>2. TiposDisp' /\ (Reserva' <=> Reserva) /\ (Orden' <=> Orden)
  BY DEF IInv, Tipos, TiposDisp, Reserva, Orden
<1> QED
  BY <1>1, <1>2, PlanIgual

\* planificador: a call that is no part of liberar_cpu.
LEMMA PlanComun ==
  ASSUME IInv, NEW f, DOMAIN f = Campos, f.pasos = yo.pasos, f.id = yo.id,
         NEW x, x \notin {"libre", "post"}, EnPaso("planificador", x), Sigue("planificador", f),
         UNCHANGED <<sem_CPU, CPU_list, turno, mensajes>>, TiposDisp',
         Reserva' <=> Reserva, Orden' <=> Orden, Orden => disp'.cpu = disp.cpu
  PROVE  IInv'
<1>1. TiposPlan
  BY DEF IInv, Tipos
<1>2. TiposPlan' /\ (Bit' <=> Bit) /\ (Token' <=> Token) /\ (Bit' \/ Token' => yo'.id = yo.id)
  BY <1>1, PlanSigue
<1> QED
  BY <1>2, Estable

\* What the invariant says of dispatcher alone, when dispatcher does nothing.
LEMMA DispIgual ==
  ASSUME IInv, UNCHANGED disp
  PROVE  /\ TiposDisp' /\ (Reserva' <=> Reserva) /\ (Orden' <=> Orden)
         /\ Orden => disp'.cpu = disp.cpu
BY DEF IInv, Tipos, TiposDisp, Reserva, Orden

\* LiberarDeExec may overwrite a word of the TCB dispatcher holds, and nothing else.
LEMMA DispLiberado ==
  ASSUME IInv, NEW i, LiberarDeExec(i)
  PROVE  /\ TiposDisp' /\ (Reserva' <=> Reserva) /\ (Orden' <=> Orden)
         /\ Orden => disp'.cpu = disp.cpu
<1>1. DOMAIN disp = {"pc", "tcb", "cpu"}
  BY DEF IInv, Tipos, TiposDisp
<1>2. DOMAIN disp' = DOMAIN disp /\ disp'.pc = disp.pc /\ disp'.cpu = disp.cpu
  BY <1>1 DEF LiberarDeExec
<1> QED
  BY <1>2 DEF IInv, Tipos, TiposDisp, Reserva, Orden

\* liberar_cpu of the CPU id: it was busy, and from here on its token is owed.
LEMMA LibreYa ==
  ASSUME IInv, LiberarBit
  PROVE  IInv'
<1> DEFINE c == yo.id
<1>1. TiposPlan /\ TiposCPU /\ Fichas /\ \A d \in CPUs : Turno(d)
  BY DEF IInv, Tipos
<1>2. EnPaso("planificador", "libre") /\ Sigue("planificador", yo) /\ DOMAIN yo = Campos
  BY <1>1 DEF LiberarBit, yo, TiposPlan
<1>3. Bit /\ Token /\ ~ Bit' /\ Token' /\ TiposPlan'
  BY <1>1, <1>2, PlanSigue
<1>4. c \in CPUs
  BY <1>1, <1>3 DEF TiposPlan
<1>5. /\ CPU_list' = [CPU_list EXCEPT ![c].estado = "libre"]
      /\ UNCHANGED <<sem_CPU, turno, mensajes, disp>>
  BY DEF LiberarBit, yo, semaforos, redes
<1>6. TiposDisp' /\ (Reserva' <=> Reserva) /\ (Orden' <=> Orden)
  BY <1>5, DispIgual
<1>7. /\ CPU_list'[c].estado = "libre"
      /\ \A d \in CPUs \ {c} : CPU_list'[d] = CPU_list[d]
  BY <1>1, <1>4, <1>5 DEF TiposCPU
<1>8. TiposCPU'
  BY <1>1, <1>4, <1>5 DEF TiposCPU
<1>9. /\ CPU_list[c].estado = "ocupado"
      /\ Len(turno[c]) + Finales(mensajes[c]) + Uno(Orden /\ disp.cpu = c) = 0
  <2>1. Turno(c) /\ Len(turno[c]) \in Nat /\ Finales(mensajes[c]) \in Nat
    <3>1. Secuencia(turno[c]) /\ Secuencia(mensajes[c])
      BY <1>1, <1>4 DEF TiposCPU
    <3> QED
      BY <1>1, <1>4, <3>1, CuantosNat DEF Secuencia
  <2>2. Uno(yo.id = c /\ Bit) = 1
    BY <1>3 DEF Uno
  <2> QED
    BY <2>1, <2>2 DEF Turno, Uno
<1>10. Cardinality(Libres') = Cardinality(Libres) + 1
  <2>1. Libres' = Libres \cup {c}
    BY <1>4, <1>7 DEF Libres
  <2>2. c \notin Libres
    BY <1>9 DEF Libres
  <2> QED
    BY <2>1, <2>2, LibresFinitas, FS_AddElement
<1>11. Fichas'
  <2>1. Uno(Token /\ ~ Bit) = 0 /\ Uno(Token' /\ ~ Bit') = 1 /\ Uno(Reserva') = Uno(Reserva)
    BY <1>3, <1>6 DEF Uno
  <2>2. sem_CPU \in Nat /\ Uno(Reserva) \in Nat /\ Cardinality(Libres) \in Nat
    BY <1>1, LibresFinitas DEF TiposCPU, Uno
  <2> QED
    BY <1>1, <1>5, <1>10, <2>1, <2>2 DEF Fichas
<1>12. ASSUME NEW d \in CPUs PROVE Turno(d)'
  <2>1. Turno(d)
    BY <1>1
  <2>2. /\ turno'[d] = turno[d] /\ Finales(mensajes'[d]) = Finales(mensajes[d])
        /\ Uno(Orden' /\ disp'.cpu = d) = Uno(Orden /\ disp.cpu = d)
    BY <1>5, <1>6
  <2>3. Uno(yo'.id = d /\ Bit') = 0
    BY <1>3 DEF Uno
  <2>4. CASE d = c
    BY <1>7, <1>9, <2>2, <2>3, <2>4 DEF Turno, Uno
  <2>5. CASE d # c
    <3>1. Uno(yo.id = d /\ Bit) = 0 /\ CPU_list'[d] = CPU_list[d]
      BY <1>7, <2>5 DEF Uno
    <3> QED
      BY <2>1, <2>2, <2>3, <3>1 DEF Turno
  <2> QED
    BY <2>4, <2>5
<1> QED
  BY <1>3, <1>6, <1>8, <1>11, <1>12 DEF IInv, Tipos

\* The token that was owed.
LEMMA TokenYa ==
  ASSUME IInv, LiberarPost
  PROVE  IInv'
<1>1. TiposPlan /\ TiposCPU /\ Fichas /\ \A d \in CPUs : Turno(d)
  BY DEF IInv, Tipos
<1>2. EnPaso("planificador", "post") /\ Sigue("planificador", yo) /\ DOMAIN yo = Campos
  BY <1>1 DEF LiberarPost, yo, TiposPlan
<1>3. ~ Bit /\ Token /\ ~ Bit' /\ ~ Token' /\ TiposPlan'
  BY <1>1, <1>2, PlanSigue
<1>4. /\ sem_CPU' = sem_CPU + 1 /\ UNCHANGED <<turno, mensajes, disp>>
      /\ CPU_list' = [CPU_list EXCEPT ![yo.id].pid = 0]
  BY DEF LiberarPost, redes, yo
<1>5. TiposDisp' /\ (Reserva' <=> Reserva) /\ (Orden' <=> Orden)
  BY <1>1, <1>4, DispIgual
<1>6. /\ DOMAIN CPU_list' = CPUs
      /\ \A d \in CPUs : /\ DOMAIN CPU_list'[d] = {"estado", "pid", "tid"}
                         /\ CPU_list'[d].estado = CPU_list[d].estado
  BY <1>1, <1>4 DEF TiposCPU
<1>7. TiposCPU'
  BY <1>1, <1>4, <1>6 DEF TiposCPU
<1>8. Fichas'
  <2>1. Uno(Token /\ ~ Bit) = 1 /\ Uno(Token' /\ ~ Bit') = 0 /\ Uno(Reserva') = Uno(Reserva)
    BY <1>3, <1>5 DEF Uno
  <2>2. sem_CPU \in Nat /\ Uno(Reserva) \in Nat /\ Libres' = Libres
    BY <1>1, <1>4, <1>6 DEF TiposCPU, Uno, Libres
  <2> QED
    BY <1>1, <1>4, <2>1, <2>2 DEF Fichas
<1>9. ASSUME NEW d \in CPUs PROVE Turno(d)'
  <2>1. Turno(d)
    BY <1>1
  <2>2. /\ turno'[d] = turno[d] /\ Finales(mensajes'[d]) = Finales(mensajes[d])
        /\ Uno(Orden' /\ disp'.cpu = d) = Uno(Orden /\ disp.cpu = d)
    BY <1>4, <1>5
  <2>3. Uno(yo'.id = d /\ Bit') = 0 /\ Uno(yo.id = d /\ Bit) = 0
    BY <1>3 DEF Uno
  <2> QED
    BY <1>4, <1>6, <2>1, <2>2, <2>3 DEF Turno
<1> QED
  BY <1>3, <1>5, <1>7, <1>8, <1>9 DEF IInv, Tipos

\* planificador takes a message of the CPU c, and will release it if it gives its thread
\* back.
LEMMA Recepcion ==
  ASSUME IInv, NEW c \in CPUs, NEW op, NEW p, NEW r, Recibir(c, op, p, r),
         PasosBien(p), Esta(p, "libre") <=> esFinal([op |-> op]),
         ~ Esta(p, "libre") => ~ Esta(p, "post"),
         UNCHANGED <<sem_CPU, CPU_list>>,
         TiposDisp', Reserva' <=> Reserva, Orden' <=> Orden, Orden => disp'.cpu = disp.cpu
  PROVE  IInv'
<1>1. TiposPlan /\ TiposCPU /\ Fichas /\ \A d \in CPUs : Turno(d)
  BY DEF IInv, Tipos
<1>2. /\ mensajes[c] # <<>> /\ Head(mensajes[c]).op = op
      /\ mensajes' = [mensajes EXCEPT ![c] = Tail(@)] /\ turno' = turno
      /\ hilo' = [hilo EXCEPT !["planificador"] =
                    IF p = <<>> THEN Reposo ELSE [pasos |-> p, tcb |-> r, n |-> 0, id |-> c]]
  BY DEF Recibir
<1>3. ~ Bit /\ ~ Token
  <2>1. yo.pasos = <<>>
    BY DEF Recibir, Libre, yo
  <2>2. DOMAIN <<>> = {}
    OBVIOUS
  <2> QED
    BY <2>1, <2>2 DEF Bit, Token, Falta, yo
<1>4. DOMAIN hilo' = Hilos /\ DOMAIN yo' = Campos /\ yo'.pasos = p
  BY <1>1, <1>2 DEF TiposPlan, yo, Hilos, Campos, Reposo
<1>5. (Bit' <=> Esta(p, "libre")) /\ (Token' <=> Esta(p, "post"))
  BY <1>4 DEF Bit, Token, Falta, Esta, yo
<1>6. Bit' \/ Token' => p # <<>>
  <2>1. DOMAIN <<>> = {}
    OBVIOUS
  <2> QED
    BY <1>5, <2>1 DEF Esta
<1>7. Bit' \/ Token' => yo'.id = c
  BY <1>1, <1>2, <1>6 DEF TiposPlan, yo, Hilos
<1>8. TiposPlan'
  BY <1>4, <1>7 DEF TiposPlan
<1>9. Bit' => Token'
  BY <1>5 DEF PasosBien, Esta
<1>10. ~ Bit' => ~ Token'
  BY <1>5
<1>11. Secuencia(mensajes[c]) /\ Finales(mensajes[c]) \in Nat
  BY <1>1, CuantosNat DEF TiposCPU
<1>12. /\ Secuencia(Tail(mensajes[c]))
       /\ Finales(mensajes[c]) = Finales(Tail(mensajes[c])) + Uno(Bit')
  <2>1. esFinal(Head(mensajes[c])) <=> Bit'
    BY <1>2, <1>5 DEF esFinal
  <2>2. Finales(mensajes[c]) = Finales(Tail(mensajes[c])) + Uno(esFinal(Head(mensajes[c])))
    BY <1>2, <1>11, CuantosTail
  <2>3. Uno(esFinal(Head(mensajes[c]))) = Uno(Bit')
    BY <2>1 DEF Uno
  <2> QED
    BY <1>2, <1>11, <2>2, <2>3, CuantosTail
<1>13. Finales(Tail(mensajes[c])) \in Nat
  BY <1>12, CuantosNat
<1>14. /\ mensajes'[c] = Tail(mensajes[c])
       /\ \A d \in CPUs \ {c} : mensajes'[d] = mensajes[d]
       /\ DOMAIN mensajes' = CPUs
  BY <1>1, <1>2 DEF TiposCPU
<1>15. TiposCPU'
  BY <1>1, <1>2, <1>12, <1>14 DEF TiposCPU
<1>16. Fichas'
  <2>1. Uno(Token /\ ~ Bit) = 0 /\ Uno(Token' /\ ~ Bit') = 0 /\ Uno(Reserva') = Uno(Reserva)
    BY <1>3, <1>10 DEF Uno
  <2>2. Libres' = Libres
    BY DEF Libres
  <2> QED
    BY <1>1, <2>1, <2>2 DEF Fichas
<1>17. ASSUME NEW d \in CPUs PROVE Turno(d)'
  <2>1. Turno(d)
    BY <1>1
  <2>2. turno'[d] = turno[d] /\ Uno(Orden' /\ disp'.cpu = d) = Uno(Orden /\ disp.cpu = d)
    BY <1>2
  <2>3. Uno(yo.id = d /\ Bit) = 0
    BY <1>3 DEF Uno
  <2>4. CASE d = c
    <3>1. Uno(yo'.id = d /\ Bit') = Uno(Bit')
      BY <1>7, <2>4 DEF Uno
    <3>2. Finales(mensajes'[d]) + Uno(yo'.id = d /\ Bit') = Finales(mensajes[d])
      BY <1>12, <1>14, <2>4, <3>1
    <3>3. Len(turno[d]) \in Nat
      BY <1>1 DEF TiposCPU, Secuencia
    <3>4. /\ Uno(Orden /\ disp.cpu = d) \in Nat /\ Uno(yo'.id = d /\ Bit') \in Nat
          /\ Finales(mensajes'[d]) \in Nat
      BY <1>13, <1>14, <2>4 DEF Uno
    <3> QED
      BY <2>1, <2>2, <2>3, <3>2, <3>3, <3>4 DEF Turno
  <2>5. CASE d # c
    <3>1. Uno(yo'.id = d /\ Bit') = 0 /\ Finales(mensajes'[d]) = Finales(mensajes[d])
      BY <1>7, <1>14, <2>5 DEF Uno
    <3> QED
      BY <2>1, <2>2, <2>3, <3>1 DEF Turno
  <2> QED
    BY <2>4, <2>5
<1> QED
  BY <1>8, <1>15, <1>16, <1>17 DEF IInv, Tipos

\* What a CPU may change: its orders and its messages, one for the other.
LEMMA CambioCPU ==
  ASSUME IInv, NEW c \in CPUs,
         UNCHANGED <<sem_CPU, CPU_list, disp, hilo>>,
         DOMAIN turno' = CPUs, DOMAIN mensajes' = CPUs,
         \A d \in CPUs \ {c} : turno'[d] = turno[d] /\ mensajes'[d] = mensajes[d],
         Secuencia(turno'[c]), Secuencia(mensajes'[c]),
         Len(turno'[c]) + Finales(mensajes'[c]) = Len(turno[c]) + Finales(mensajes[c])
  PROVE  IInv'
<1>1. TiposPlan /\ TiposCPU /\ Fichas /\ \A d \in CPUs : Turno(d)
  BY DEF IInv, Tipos
<1>2. TiposDisp' /\ (Reserva' <=> Reserva) /\ (Orden' <=> Orden)
  BY DispIgual
<1>3. (Bit' <=> Bit) /\ (Token' <=> Token) /\ yo' = yo
  BY DEF Bit, Token, Falta, yo
<1>4. TiposPlan'
  BY <1>1, <1>3 DEF TiposPlan
<1>5. TiposCPU'
  BY <1>1 DEF TiposCPU
<1>6. Fichas'
  <2>1. Libres' = Libres
    BY DEF Libres
  <2> QED
    BY <1>1, <1>2, <1>3, <2>1 DEF Fichas, Uno
<1>7. ASSUME NEW d \in CPUs PROVE Turno(d)'
  <2>1. Turno(d)
    BY <1>1
  <2>2. /\ Uno(Orden' /\ disp'.cpu = d) = Uno(Orden /\ disp.cpu = d)
        /\ Uno(yo'.id = d /\ Bit') = Uno(yo.id = d /\ Bit)
    BY <1>2, <1>3 DEF Uno
  <2>3. Len(turno'[d]) + Finales(mensajes'[d]) = Len(turno[d]) + Finales(mensajes[d])
    BY Zenon
  <2> QED
    BY <2>1, <2>2, <2>3 DEF Turno
<1> QED
  BY <1>2, <1>4, <1>5, <1>6, <1>7 DEF IInv, Tipos

\* The end of a turn: an order less and a final message more.
LEMMA FinDeTurno ==
  ASSUME IInv, NEW c \in CPUs, NEW op, NEW dir, Terminar(c, op, dir), turno[c] # <<>>,
         esFinal([op |-> op])
  PROVE  IInv'
<1>1. TiposCPU
  BY DEF IInv, Tipos
<1>2. /\ UNCHANGED <<sem_CPU, CPU_list, disp, hilo>>
      /\ turno' = [turno EXCEPT ![c] = Tail(@)]
      /\ mensajes' = [mensajes EXCEPT ![c] =
                        Append(@, [op |-> op, tcb |-> Head(turno[c]), dir |-> dir])]
  BY DEF Terminar, Mensaje, semaforos, tablas
<1> DEFINE m == [op |-> op, tcb |-> Head(turno[c]), dir |-> dir]
<1>3. /\ DOMAIN turno' = CPUs /\ DOMAIN mensajes' = CPUs
      /\ turno'[c] = Tail(turno[c]) /\ mensajes'[c] = Append(mensajes[c], m)
      /\ \A d \in CPUs \ {c} : turno'[d] = turno[d] /\ mensajes'[d] = mensajes[d]
  BY <1>1, <1>2 DEF TiposCPU
<1>4. Secuencia(turno'[c]) /\ Len(turno[c]) \in Nat /\ Len(turno'[c]) = Len(turno[c]) - 1
  <2>1. PICK S : turno[c] \in Seq(S)
    BY <1>1 DEF TiposCPU, Secuencia
  <2>2. Tail(turno[c]) \in Seq(S) /\ Len(Tail(turno[c])) = Len(turno[c]) - 1 /\ Len(turno[c]) \in Nat
    BY <2>1
  <2> QED
    BY <1>3, <2>2 DEF Secuencia
<1>5. Uno(esFinal(m)) = 1
  BY DEF esFinal, Uno
<1>6. Secuencia(mensajes[c]) /\ Finales(mensajes[c]) \in Nat
  BY <1>1, CuantosNat DEF TiposCPU
<1>7. Secuencia(mensajes'[c]) /\ Finales(mensajes'[c]) = Finales(mensajes[c]) + 1
  <2> HIDE DEF m
  <2>1. Finales(Append(mensajes[c], m)) = Finales(mensajes[c]) + Uno(esFinal(m))
    BY <1>6, CuantosAppend
  <2> QED
    BY <1>3, <1>5, <1>6, <2>1, CuantosAppend
<1>8. Len(turno'[c]) + Finales(mensajes'[c]) = Len(turno[c]) + Finales(mensajes[c])
  BY <1>4, <1>6, <1>7
<1> QED
  BY <1>2, <1>3, <1>4, <1>7, <1>8, CambioCPU

\* A call in the middle of a turn.
LEMMA LlamadaDeTurno ==
  ASSUME IInv, NEW c \in CPUs, NEW op, NEW r, NEW dir,
         Mensaje(c, op, r, dir), ~ esFinal([op |-> op]),
         UNCHANGED <<sem_CPU, CPU_list, turno, disp, hilo>>
  PROVE  IInv'
<1>1. TiposCPU
  BY DEF IInv, Tipos
<1> DEFINE m == [op |-> op, tcb |-> r, dir |-> dir]
<1>2. /\ DOMAIN turno' = CPUs /\ DOMAIN mensajes' = CPUs
      /\ mensajes'[c] = Append(mensajes[c], m)
      /\ \A d \in CPUs \ {c} : turno'[d] = turno[d] /\ mensajes'[d] = mensajes[d]
  BY <1>1 DEF TiposCPU, Mensaje
<1>3. Uno(esFinal(m)) = 0
  BY DEF esFinal, Uno
<1>4. Secuencia(mensajes[c]) /\ Finales(mensajes[c]) \in Nat
  BY <1>1, CuantosNat DEF TiposCPU
<1>5. Secuencia(mensajes'[c]) /\ Finales(mensajes'[c]) = Finales(mensajes[c])
  <2> HIDE DEF m
  <2>1. Finales(Append(mensajes[c], m)) = Finales(mensajes[c]) + Uno(esFinal(m))
    BY <1>4, CuantosAppend
  <2> QED
    BY <1>2, <1>3, <1>4, <2>1, CuantosAppend
<1>6. Secuencia(turno'[c]) /\ Len(turno'[c]) + Finales(mensajes'[c]) = Len(turno[c]) + Finales(mensajes[c])
  BY <1>1, <1>5 DEF TiposCPU
<1> QED
  BY <1>2, <1>5, <1>6, CambioCPU

\* A CPU connects, and is free.
LEMMA CPUNueva ==
  ASSUME IInv, NEW c \in CPUs, ConectarCPU(c)
  PROVE  IInv'
<1>1. TiposPlan /\ TiposCPU /\ Fichas /\ \A d \in CPUs : Turno(d)
  BY DEF IInv, Tipos
<1>2. /\ CPU_list[c].estado = "ausente"
      /\ CPU_list' = [CPU_list EXCEPT ![c].estado = "libre"] /\ sem_CPU' = sem_CPU + 1
      /\ UNCHANGED <<turno, mensajes, disp, hilo>>
  BY DEF ConectarCPU, redes
<1>3. TiposDisp' /\ (Reserva' <=> Reserva) /\ (Orden' <=> Orden)
  BY <1>2, DispIgual
<1>4. (Bit' <=> Bit) /\ (Token' <=> Token) /\ yo' = yo
  BY <1>2 DEF Bit, Token, Falta, yo
<1>5. TiposPlan'
  BY <1>1, <1>2, <1>4 DEF TiposPlan
<1>6. CPU_list'[c].estado = "libre" /\ \A d \in CPUs \ {c} : CPU_list'[d] = CPU_list[d]
  BY <1>1, <1>2 DEF TiposCPU
<1>7. TiposCPU'
  BY <1>1, <1>2 DEF TiposCPU
<1>8. Fichas'
  <2>1. Libres' = Libres \cup {c} /\ c \notin Libres
    BY <1>2, <1>6 DEF Libres
  <2>2. Cardinality(Libres') = Cardinality(Libres) + 1
    BY <2>1, LibresFinitas, FS_AddElement
  <2>3. sem_CPU \in Nat /\ Cardinality(Libres) \in Nat
    BY <1>1, LibresFinitas DEF TiposCPU
  <2> QED
    BY <1>1, <1>2, <1>3, <1>4, <2>2, <2>3 DEF Fichas, Uno
<1>9. ASSUME NEW d \in CPUs PROVE Turno(d)'
  <2>1. Turno(d)
    BY <1>1
  <2>2. CPU_list'[d].estado = "ocupado" <=> CPU_list[d].estado = "ocupado"
    BY <1>2, <1>6
  <2>3. /\ Uno(Orden' /\ disp'.cpu = d) = Uno(Orden /\ disp.cpu = d)
        /\ Uno(yo'.id = d /\ Bit') = Uno(yo.id = d /\ Bit)
        /\ Uno(CPU_list'[d].estado = "ocupado") = Uno(CPU_list[d].estado = "ocupado")
    BY <1>2, <1>3, <1>4, <2>2 DEF Uno
  <2> QED
    BY <1>2, <2>1, <2>3 DEF Turno
<1> QED
  BY <1>3, <1>5, <1>7, <1>8, <1>9 DEF IInv, Tipos

\* dispatcher takes a token of sem_CPU.
LEMMA TomaFicha ==
  ASSUME IInv, EsperarCPU
  PROVE  IInv'
<1>1. TiposPlan /\ TiposDisp /\ TiposCPU /\ Fichas /\ \A d \in CPUs : Turno(d)
  BY DEF IInv, Tipos
<1>2. /\ disp.pc = "cpu" /\ sem_CPU > 0 /\ sem_CPU' = sem_CPU - 1
      /\ disp' = [disp EXCEPT !.pc = "listo2"]
      /\ UNCHANGED <<CPU_list, turno, mensajes, hilo>>
  BY DEF EsperarCPU, EnPC, tablas, redes
<1>3. disp'.pc = "listo2" /\ DOMAIN disp' = {"pc", "tcb", "cpu"}
  BY <1>1, <1>2 DEF TiposDisp
<1>4. ~ Reserva /\ Reserva' /\ ~ Orden /\ ~ Orden'
  BY <1>2, <1>3 DEF Reserva, Orden
<1>5. TiposDisp'
  BY <1>3, <1>4 DEF TiposDisp
<1>6. (Bit' <=> Bit) /\ (Token' <=> Token) /\ yo' = yo
  BY <1>2 DEF Bit, Token, Falta, yo
<1>7. TiposPlan'
  BY <1>1, <1>2, <1>6 DEF TiposPlan
<1>8. TiposCPU'
  BY <1>1, <1>2 DEF TiposCPU
<1>9. Fichas'
  <2>1. Libres' = Libres /\ sem_CPU \in Nat
    BY <1>1, <1>2 DEF Libres, TiposCPU
  <2>2. Uno(Reserva) = 0 /\ Uno(Reserva') = 1 /\ Uno(Token' /\ ~ Bit') = Uno(Token /\ ~ Bit)
    BY <1>4, <1>6 DEF Uno
  <2>3. Uno(Token /\ ~ Bit) \in Nat
    BY DEF Uno
  <2> QED
    BY <1>1, <1>2, <2>1, <2>2, <2>3 DEF Fichas
<1>10. ASSUME NEW d \in CPUs PROVE Turno(d)'
  <2>1. Turno(d)
    BY <1>1
  <2>2. /\ Uno(Orden' /\ disp'.cpu = d) = Uno(Orden /\ disp.cpu = d)
        /\ Uno(yo'.id = d /\ Bit') = Uno(yo.id = d /\ Bit)
    BY <1>4, <1>6 DEF Uno
  <2> QED
    BY <1>2, <2>1, <2>2 DEF Turno
<1> QED
  BY <1>5, <1>7, <1>8, <1>9, <1>10 DEF IInv, Tipos

\* enviar_a_ejecucion marks the first free CPU busy: the token becomes an order.
LEMMA TomaCPU ==
  ASSUME IInv, BuscarCPU
  PROVE  IInv'
<1>1. TiposPlan /\ TiposDisp /\ TiposCPU /\ Fichas /\ \A d \in CPUs : Turno(d)
  BY DEF IInv, Tipos
<1> DEFINE c == Min(Libres)
<1>2. /\ disp.pc = "buscar" /\ Libres # {}
      /\ CPU_list' = [CPU_list EXCEPT ![c] = [estado |-> "ocupado", pid |-> disp.tcb.pid,
                                               tid |-> disp.tcb.tid]]
      /\ disp' = [disp EXCEPT !.pc = "exec", !.cpu = c]
      /\ UNCHANGED <<sem_CPU, turno, mensajes, hilo>>
  BY DEF BuscarCPU, EnPC, Libres, semaforos, redes
<1>3. c \in Libres
  <2>1. NumCPU \in Nat /\ Libres \in SUBSET (1 .. NumCPU)
    BY KernelAssumption DEF Libres, CPUs
  <2> QED
    BY <1>2, <2>1, MinDeIndices
<1>4. c \in CPUs /\ CPU_list[c].estado = "libre"
  BY <1>3 DEF Libres
<1> HIDE DEF c
<1>5. disp'.pc = "exec" /\ disp'.cpu = c /\ DOMAIN disp' = {"pc", "tcb", "cpu"}
  BY <1>1, <1>2 DEF TiposDisp
<1>6. Reserva /\ ~ Reserva' /\ ~ Orden /\ Orden'
  BY <1>2, <1>5 DEF Reserva, Orden
<1>7. TiposDisp'
  BY <1>4, <1>5 DEF TiposDisp
<1>8. (Bit' <=> Bit) /\ (Token' <=> Token) /\ yo' = yo
  BY <1>2 DEF Bit, Token, Falta, yo
<1>9. TiposPlan'
  BY <1>1, <1>2, <1>8 DEF TiposPlan
<1>10. /\ DOMAIN CPU_list' = CPUs /\ CPU_list'[c].estado = "ocupado"
       /\ DOMAIN CPU_list'[c] = {"estado", "pid", "tid"}
       /\ \A d \in CPUs \ {c} : CPU_list'[d] = CPU_list[d]
  BY <1>1, <1>2, <1>4 DEF TiposCPU
<1>11. TiposCPU'
  BY <1>1, <1>2, <1>10 DEF TiposCPU
<1>12. Fichas'
  <2>1. Libres' = Libres \ {c}
    BY <1>10 DEF Libres
  <2>2. Cardinality(Libres') = Cardinality(Libres) - 1 /\ Cardinality(Libres) \in Nat
    BY <1>3, <2>1, LibresFinitas, FS_RemoveElement
  <2>3. Uno(Reserva) = 1 /\ Uno(Reserva') = 0 /\ Uno(Token' /\ ~ Bit') = Uno(Token /\ ~ Bit)
    BY <1>6, <1>8 DEF Uno
  <2>4. Uno(Token /\ ~ Bit) \in Nat /\ sem_CPU \in Nat
    BY <1>1 DEF Uno, TiposCPU
  <2> QED
    BY <1>1, <1>2, <2>2, <2>3, <2>4 DEF Fichas
<1>13. ASSUME NEW d \in CPUs PROVE Turno(d)'
  <2>1. Turno(d) /\ Uno(Orden /\ disp.cpu = d) = 0
    BY <1>1, <1>6 DEF Uno
  <2>2. Uno(yo'.id = d /\ Bit') = Uno(yo.id = d /\ Bit) /\ Uno(yo.id = d /\ Bit) \in Nat
    BY <1>8 DEF Uno
  <2>3. Len(turno[d]) \in Nat /\ Finales(mensajes[d]) \in Nat
    BY <1>1, CuantosNat DEF TiposCPU, Secuencia
  <2>4. CASE d = c
    <3>1. /\ Uno(CPU_list[d].estado = "ocupado") = 0 /\ Uno(CPU_list'[d].estado = "ocupado") = 1
          /\ Uno(Orden' /\ disp'.cpu = d) = 1
      BY <1>4, <1>5, <1>6, <1>10, <2>4 DEF Uno
    <3> QED
      BY <1>2, <2>1, <2>2, <2>3, <3>1 DEF Turno
  <2>5. CASE d # c
    <3>1. Uno(Orden' /\ disp'.cpu = d) = 0 /\ CPU_list'[d] = CPU_list[d]
      BY <1>5, <1>10, <2>5 DEF Uno
    <3> QED
      BY <1>2, <2>1, <2>2, <3>1 DEF Turno
  <2> QED
    BY <2>4, <2>5
<1> QED
  BY <1>7, <1>9, <1>11, <1>12, <1>13 DEF IInv, Tipos

\* The order leaves.
LEMMA OrdenSale ==
  ASSUME IInv, EnviarOrden
  PROVE  IInv'
<1>1. TiposPlan /\ TiposDisp /\ TiposCPU /\ Fichas /\ \A d \in CPUs : Turno(d)
  BY DEF IInv, Tipos
<1> DEFINE c == disp.cpu
<1>2. /\ disp.pc = "enviar"
      /\ turno' = [turno EXCEPT ![c] = Append(@, disp.tcb)]
      /\ disp' = [pc |-> "listo1", tcb |-> Nulo, cpu |-> 0]
      /\ UNCHANGED <<sem_CPU, CPU_list, mensajes, hilo>>
  BY DEF EnviarOrden, EnPC, semaforos, tablas
<1>3. disp'.pc = "listo1" /\ DOMAIN disp' = {"pc", "tcb", "cpu"}
  BY <1>2
<1>4. ~ Reserva /\ ~ Reserva' /\ Orden /\ ~ Orden' /\ c \in CPUs
  BY <1>1, <1>2, <1>3 DEF Reserva, Orden, TiposDisp
<1>5. TiposDisp'
  BY <1>3, <1>4 DEF TiposDisp
<1>6. (Bit' <=> Bit) /\ (Token' <=> Token) /\ yo' = yo
  BY <1>2 DEF Bit, Token, Falta, yo
<1>7. TiposPlan'
  BY <1>1, <1>2, <1>6 DEF TiposPlan
<1>8. /\ DOMAIN turno' = CPUs /\ turno'[c] = Append(turno[c], disp.tcb)
      /\ \A d \in CPUs \ {c} : turno'[d] = turno[d]
  BY <1>1, <1>2, <1>4 DEF TiposCPU
<1>9. Secuencia(turno'[c]) /\ Len(turno'[c]) = Len(turno[c]) + 1 /\ Len(turno[c]) \in Nat
  <2>1. PICK S : turno[c] \in Seq(S)
    BY <1>1, <1>4 DEF TiposCPU, Secuencia
  <2> DEFINE x == disp.tcb
             t == turno[c]
  <2> HIDE DEF x, t
  <2>2. t \in Seq(S \cup {x}) /\ x \in S \cup {x}
    BY <2>1 DEF t
  <2>3. Append(t, x) \in Seq(S \cup {x}) /\ Len(Append(t, x)) = Len(t) + 1 /\ Len(t) \in Nat
    BY <2>2
  <2> QED
    BY <1>8, <2>3 DEF Secuencia, t, x
<1>10. TiposCPU'
  BY <1>1, <1>2, <1>8, <1>9 DEF TiposCPU
<1>11. Fichas'
  <2>1. Libres' = Libres
    BY <1>2 DEF Libres
  <2> QED
    BY <1>1, <1>2, <1>4, <1>6, <2>1 DEF Fichas, Uno
<1>12. ASSUME NEW d \in CPUs PROVE Turno(d)'
  <2>1. Turno(d)
    BY <1>1
  <2>2. /\ Uno(yo'.id = d /\ Bit') = Uno(yo.id = d /\ Bit) /\ Uno(Orden' /\ disp'.cpu = d) = 0
        /\ Uno(yo.id = d /\ Bit) \in Nat
    BY <1>4, <1>6 DEF Uno
  <2>3. Finales(mensajes[d]) \in Nat
    BY <1>1, CuantosNat DEF TiposCPU
  <2>4. CASE d = c
    <3>1. Uno(Orden /\ disp.cpu = d) = 1
      BY <1>4, <2>4 DEF Uno
    <3> QED
      BY <1>2, <1>9, <2>1, <2>2, <2>3, <2>4, <3>1 DEF Turno
  <2>5. CASE d # c
    <3>1. Uno(Orden /\ disp.cpu = d) = 0
      BY <2>5 DEF Uno
    <3> QED
      BY <1>2, <1>8, <2>1, <2>2, <2>5, <3>1 DEF Turno
  <2> QED
    BY <2>4, <2>5
<1> QED
  BY <1>5, <1>7, <1>10, <1>11, <1>12 DEF IInv, Tipos

\* dispatcher between two of its other calls.
LEMMA DispAvanza ==
  ASSUME IInv, UNCHANGED <<sem_CPU, CPU_list, turno, mensajes, hilo>>,
         DOMAIN disp' = DOMAIN disp, disp'.cpu = disp.cpu,
         Reserva' <=> Reserva, Orden' <=> Orden
  PROVE  IInv'
<1>1. DOMAIN hilo' = Hilos /\ yo' = yo
  BY DEF IInv, Tipos, TiposPlan, yo
<1>2. TiposDisp'
  BY DEF IInv, Tipos, TiposDisp
<1> QED
  BY <1>1, <1>2, PlanIgual

\* Each call of dispatcher.
LEMMA PasoDispatcher ==
  ASSUME IInv, Dispatcher
  PROVE  IInv'
<1>1. DOMAIN disp = {"pc", "tcb", "cpu"}
  BY DEF IInv, Tipos, TiposDisp
<1>2. CASE EsperarProceso("listo1", "cpu")
  <2>1. /\ disp.pc = "listo1" /\ disp' = [disp EXCEPT !.pc = "cpu"]
        /\ UNCHANGED <<sem_CPU, CPU_list, turno, mensajes, hilo>>
    BY <1>2 DEF EsperarProceso, EnPC, tablas, redes
  <2> QED
    BY <1>1, <2>1, DispAvanza DEF Reserva, Orden
<1>3. CASE EsperarProceso("listo2", "elegir")
  <2>1. /\ disp.pc = "listo2" /\ disp' = [disp EXCEPT !.pc = "elegir"]
        /\ UNCHANGED <<sem_CPU, CPU_list, turno, mensajes, hilo>>
    BY <1>3 DEF EsperarProceso, EnPC, tablas, redes
  <2> QED
    BY <1>1, <2>1, DispAvanza DEF Reserva, Orden
<1>4. CASE EsperarCPU
  BY <1>4, TomaFicha
<1>5. CASE SacarDeReady
  <2>1. /\ disp.pc = "elegir"
        /\ disp' = disp \/ disp' = [disp EXCEPT !.pc = "buscar", !.tcb = Head(ready)]
        /\ UNCHANGED <<sem_CPU, CPU_list, turno, mensajes, hilo>>
    BY <1>5 DEF SacarDeReady, EnPC, semaforos, tablas, redes
  <2> QED
    BY <1>1, <2>1, DispAvanza DEF Reserva, Orden
<1>6. CASE ElegirSysCall
  <2>1. /\ disp.pc = "elegir" /\ disp' = [disp EXCEPT !.pc = "km"]
        /\ UNCHANGED <<sem_CPU, CPU_list, turno, mensajes, hilo>>
    BY <1>6 DEF ElegirSysCall, EnPC, semaforos, tablas, redes
  <2> QED
    BY <1>1, <2>1, DispAvanza DEF Reserva, Orden
<1>7. CASE AtenderSysCall
  <2>1. /\ disp.pc = "km"
        /\ disp' = disp \/ \E s : disp' = [disp EXCEPT !.pc = "buscar", !.tcb = s]
        /\ UNCHANGED <<sem_CPU, CPU_list, turno, mensajes, hilo>>
    BY <1>7 DEF AtenderSysCall, EnPC, redes
  <2> QED
    BY <1>1, <2>1, DispAvanza DEF Reserva, Orden
<1>8. CASE BuscarCPU
  BY <1>8, TomaCPU
<1>9. CASE AgregarAExec
  <2>1. /\ disp.pc = "exec" /\ disp' = [disp EXCEPT !.pc = "enviar"]
        /\ UNCHANGED <<sem_CPU, CPU_list, turno, mensajes, hilo>>
    BY <1>9 DEF AgregarAExec, EnPC, semaforos, tablas, redes
  <2> QED
    BY <1>1, <2>1, DispAvanza DEF Reserva, Orden
<1>10. CASE EnviarOrden
  BY <1>10, OrdenSale
<1> QED
  BY <1>2, <1>3, <1>4, <1>5, <1>6, <1>7, <1>8, <1>9, <1>10 DEF Dispatcher

\* The calls of the handlers, before and after liberar_cpu.
LEMMA Listas ==
  /\ <<>> \in Seq(Simples) /\ encola \in Seq(Simples)
  /\ <<"avisar", "avisar">> \in Seq(Simples) /\ <<"sacar", "exit">> \in Seq(Simples)
  /\ <<"sumar", "responder">> \in Seq(Simples) /\ encola \o <<"contar">> \in Seq(Simples)
  /\ \A s : finaliza(s) \in Seq(Simples)
<1>1. \A x \in {"encolar", "avisar", "sumar", "responder", "contar", "sacar", "exit", "finKM",
               "postKM"} : x \in Simples
  BY DEF Simples, Pasos
<1>2. encola \in Seq(Simples)
  BY <1>1 DEF encola
<1>3. /\ <<>> \in Seq(Simples) /\ <<"avisar", "avisar">> \in Seq(Simples)
      /\ <<"sacar", "exit">> \in Seq(Simples) /\ <<"sumar", "responder">> \in Seq(Simples)
      /\ <<"contar">> \in Seq(Simples) /\ <<"finKM">> \in Seq(Simples)
      /\ <<"postKM">> \in Seq(Simples)
  BY <1>1
<1>4. \A a, b \in Seq(Simples) : a \o b \in Seq(Simples)
  BY ConcatProperties
<1>5. encola \o <<"contar">> \in Seq(Simples) /\ (<<"finKM">> \o encola) \o <<"postKM">> \in Seq(Simples)
  BY <1>2, <1>3, <1>4
<1>6. \A s : finaliza(s) \in Seq(Simples)
  BY <1>3, <1>5 DEF finaliza
<1> QED
  BY <1>2, <1>3, <1>5, <1>6

\* A handler that calls liberar_cpu last or first.
LEMMA ConLibera ==
  ASSUME NEW a \in Seq(Simples)
  PROVE  /\ PasosBien(a \o libera) /\ Esta(a \o libera, "libre")
         /\ PasosBien(libera \o a) /\ Esta(libera \o a, "libre")
<1>1. a \in Seq(Pasos) /\ <<>> \in Seq(Simples) /\ <<>> \in Seq(Pasos)
  BY Listas, SimplesSinLibera
<1>2. libera \in Seq(Pasos)
  BY DEF libera, Pasos
<1>3. a \o libera \in Seq(Pasos)
  BY <1>1, <1>2, ConcatProperties
<1>4. (a \o libera) \o <<>> = a \o libera /\ <<>> \o libera = libera
  BY <1>2, <1>3, ConcatEmptySeq
<1>5. PasosBien((a \o libera) \o <<>>) /\ Esta((a \o libera) \o <<>>, "libre")
  BY <1>1, SimplesSinLibera, PasosLibera
<1>6. PasosBien((<<>> \o libera) \o a) /\ Esta((<<>> \o libera) \o a, "libre")
  BY <1>1, SimplesSinLibera, PasosLibera
<1> QED
  BY <1>4, <1>5, <1>6

\* A handler that never calls it.
LEMMA SinLibera ==
  ASSUME NEW a \in Seq(Simples)
  PROVE  PasosBien(a) /\ ~ Esta(a, "libre") /\ ~ Esta(a, "post")
BY SimplesSinLibera, PasosSinLibera

\* Each message of a CPU.
LEMMA PasoRecibir ==
  ASSUME IInv, NEW c \in CPUs, RecibirDe(c)
  PROVE  IInv'
<1> DEFINE s == Recibido(c)
<1>1. CASE finalizo_quantum(c)
  <2> DEFINE p == IF s.pid \notin DOMAIN consola_list THEN libera
                  ELSE IF consola_list[s.pid].termino THEN <<"sacar", "exit">> \o libera
                  ELSE encola \o libera
  <2>1. /\ Recibir(c, "finaliza_quantum", p, s) /\ UNCHANGED <<sem_CPU, CPU_list>>
        /\ disp' = disp \/ \E i : LiberarDeExec(i)
    BY <1>1 DEF finalizo_quantum, semaforos, tablas
  <2>2. <<>> \o libera = libera
    <3>1. libera \in Seq(Pasos)
      BY DEF libera, Pasos
    <3> QED
      BY <3>1, ConcatEmptySeq
  <2>3. PasosBien(p) /\ Esta(p, "libre")
    BY <2>2, Listas, ConLibera
  <2>4. esFinal([op |-> "finaliza_quantum"])
    BY DEF esFinal
  <2>5. /\ TiposDisp' /\ (Reserva' <=> Reserva) /\ (Orden' <=> Orden)
        /\ Orden => disp'.cpu = disp.cpu
    BY <2>1, DispIgual, DispLiberado
  <2> HIDE DEF p, s
  <2> QED
    BY <2>1, <2>3, <2>4, <2>5, Recepcion
<1>2. CASE finalizo_ejecucion(c)
  <2> DEFINE p == finaliza(s) \o libera
  <2>1. /\ Recibir(c, "finaliza_ejecucion", p, s) /\ UNCHANGED <<sem_CPU, CPU_list, disp>>
    BY <1>2 DEF finalizo_ejecucion, semaforos, tablas
  <2>2. PasosBien(p) /\ Esta(p, "libre") /\ esFinal([op |-> "finaliza_ejecucion"])
    BY Listas, ConLibera DEF esFinal
  <2> HIDE DEF p, s
  <2> QED
    BY <2>1, <2>2, DispIgual, Recepcion
<1>3. CASE ejecucion_erronea(c)
  <2> DEFINE p == libera \o finaliza(s)
  <2>1. /\ Recibir(c, "ejecucion_erronea", p, s) /\ UNCHANGED <<sem_CPU, CPU_list, disp>>
    BY <1>3 DEF ejecucion_erronea, semaforos, tablas
  <2>2. PasosBien(p) /\ Esta(p, "libre") /\ esFinal([op |-> "ejecucion_erronea"])
    BY Listas, ConLibera DEF esFinal
  <2> HIDE DEF p, s
  <2> QED
    BY <2>1, <2>2, DispIgual, Recepcion
<1>4. CASE interrumpir(c)
  <2> DEFINE p == <<"avisar", "avisar">> \o libera
             r == Head(mensajes[c]).tcb
  <2>1. /\ Recibir(c, "interrupcion", p, r) /\ UNCHANGED <<sem_CPU, CPU_list, disp>>
    BY <1>4 DEF interrumpir, semaforos, tablas
  <2>2. PasosBien(p) /\ Esta(p, "libre") /\ esFinal([op |-> "interrupcion"])
    BY Listas, ConLibera DEF esFinal
  <2> HIDE DEF p, r
  <2> QED
    BY <2>1, <2>2, DispIgual, Recepcion
<1>5. CASE crear_hilo(c)
  <2> DEFINE p == <<"sumar", "responder">>
  <2>1. \E r : Recibir(c, "creacion_hilo", p, r) /\ UNCHANGED <<sem_CPU, CPU_list, disp>>
    BY <1>5 DEF crear_hilo, semaforos, tablas
  <2>2. /\ PasosBien(p) /\ ~ Esta(p, "libre") /\ ~ Esta(p, "post")
        /\ ~ esFinal([op |-> "creacion_hilo"])
    BY Listas, SinLibera DEF esFinal
  <2> HIDE DEF p
  <2> QED
    BY <2>1, <2>2, DispIgual, Recepcion
<1>6. CASE planificar_hilo_creado(c)
  <2> DEFINE p == encola \o <<"contar">>
  <2>1. Recibir(c, "planificar_nuevo_hilo", p, s) /\ UNCHANGED <<sem_CPU, CPU_list, disp>>
    BY <1>6 DEF planificar_hilo_creado, semaforos, tablas
  <2>2. /\ PasosBien(p) /\ ~ Esta(p, "libre") /\ ~ Esta(p, "post")
        /\ ~ esFinal([op |-> "planificar_nuevo_hilo"])
    BY Listas, SinLibera DEF esFinal
  <2> HIDE DEF p, s
  <2> QED
    BY <2>1, <2>2, DispIgual, Recepcion
<1>7. CASE realizar_join(c)
  <2>1. Recibir(c, "join", <<>>, Nulo) /\ UNCHANGED <<sem_CPU, CPU_list, disp>>
    BY <1>7 DEF realizar_join, semaforos, tablas
  <2>2. /\ PasosBien(<<>>) /\ ~ Esta(<<>>, "libre") /\ ~ Esta(<<>>, "post")
        /\ ~ esFinal([op |-> "join"])
    BY Listas, SinLibera DEF esFinal
  <2> QED
    BY <2>1, <2>2, DispIgual, Recepcion
<1>8. CASE realizar_bloqueo(c)
  <2>1. Recibir(c, "bloquear", <<>>, Nulo) /\ UNCHANGED <<sem_CPU, CPU_list, disp>>
    BY <1>8 DEF realizar_bloqueo, semaforos, tablas
  <2>2. /\ PasosBien(<<>>) /\ ~ Esta(<<>>, "libre") /\ ~ Esta(<<>>, "post")
        /\ ~ esFinal([op |-> "bloquear"])
    BY Listas, SinLibera DEF esFinal
  <2> QED
    BY <2>1, <2>2, DispIgual, Recepcion
<1>9. CASE realizar_desbloqueo(c)
  <2>1. /\ \E p \in {encola, <<>>} : \E r : Recibir(c, "despertar", p, r)
        /\ UNCHANGED <<sem_CPU, CPU_list, disp>>
    BY <1>9 DEF realizar_desbloqueo, semaforos, tablas
  <2>2. PICK p \in {encola, <<>>} : \E r : Recibir(c, "despertar", p, r)
    BY <2>1
  <2>3. /\ PasosBien(p) /\ ~ Esta(p, "libre") /\ ~ Esta(p, "post")
        /\ ~ esFinal([op |-> "despertar"])
    BY Listas, SinLibera DEF esFinal
  <2> QED
    BY <2>1, <2>2, <2>3, DispIgual, Recepcion
<1>10. CASE producir_entrada_estandar(c)
  <2>1. Recibir(c, "entrada_estandar", <<>>, Nulo) /\ UNCHANGED <<sem_CPU, CPU_list, disp>>
    BY <1>10 DEF producir_entrada_estandar, semaforos, tablas
  <2>2. /\ PasosBien(<<>>) /\ ~ Esta(<<>>, "libre") /\ ~ Esta(<<>>, "post")
        /\ ~ esFinal([op |-> "entrada_estandar"])
    BY Listas, SinLibera DEF esFinal
  <2> QED
    BY <2>1, <2>2, DispIgual, Recepcion
<1> QED
  BY <1>1, <1>2, <1>3, <1>4, <1>5, <1>6, <1>7, <1>8, <1>9, <1>10 DEF RecibirDe

\* Each step of a CPU.
LEMMA PasoCPU ==
  ASSUME IInv, NEW c \in CPUs, CPU(c)
  PROVE  IInv'
<1>1. /\ esFinal([op |-> "finaliza_quantum"]) /\ esFinal([op |-> "finaliza_ejecucion"])
      /\ esFinal([op |-> "ejecucion_erronea"]) /\ esFinal([op |-> "interrupcion"])
  BY DEF esFinal
<1>2. CASE TerminarUsuario(c)
  <2>1. /\ turno[c] # <<>>
        /\ \E op \in {"finaliza_quantum", "finaliza_ejecucion", "ejecucion_erronea",
                     "interrupcion"} : \E dir : Terminar(c, op, dir)
    BY <1>2 DEF TerminarUsuario, EnModo
  <2> QED
    BY <1>1, <2>1, FinDeTurno
<1>3. CASE TerminarKM(c)
  <2>1. /\ turno[c] # <<>>
        /\ \E op \in {"finaliza_ejecucion", "ejecucion_erronea"} : \E dir : Terminar(c, op, dir)
    BY <1>3 DEF TerminarKM, EnModo
  <2> QED
    BY <1>1, <2>1, FinDeTurno
<1>4. CASE LlamarKernel(c)
  <2> DEFINE op == operacion(Head(turno[c]).dir)
  <2>1. op \in {"creacion_hilo", "join", "bloquear", "despertar", "entrada_estandar"}
    BY DEF operacion
  <2>2. ~ esFinal([op |-> op])
    BY <2>1 DEF esFinal
  <2>3. Mensaje(c, op, Head(turno[c]), Usuario) /\ UNCHANGED <<sem_CPU, CPU_list, turno, disp, hilo>>
    BY <1>4 DEF LlamarKernel, semaforos, tablas
  <2> HIDE DEF op
  <2> QED
    BY <2>2, <2>3, LlamadaDeTurno
<1>5. CASE PlanificarHilo(c)
  <2>1. /\ UNCHANGED <<sem_CPU, CPU_list, turno, disp, hilo>>
        /\ \/ Mensaje(c, "planificar_nuevo_hilo", Head(respuesta[c]), Usuario)
           \/ UNCHANGED mensajes
    BY <1>5 DEF PlanificarHilo, semaforos, tablas
  <2>2. ~ esFinal([op |-> "planificar_nuevo_hilo"])
    BY DEF esFinal
  <2> QED
    BY <2>1, <2>2, LlamadaDeTurno, Ajeno
<1> QED
  BY <1>2, <1>3, <1>4, <1>5 DEF CPU

\* Each call of planificador.
LEMMA PasoPlanificador ==
  ASSUME IInv, Planificador
  PROVE  IInv'
<1>1. DOMAIN yo = Campos
  BY DEF IInv, Tipos, TiposPlan
<1>2. ASSUME NEW x, x \notin {"libre", "post"}, EnPaso("planificador", x),
             Sigue("planificador", yo), UNCHANGED <<sem_CPU, CPU_list, turno, mensajes, disp>>
      PROVE  IInv'
  BY <1>1, <1>2, DispIgual, PlanComun
<1>3. CASE SumarTID("planificador")
  <2> DEFINE f == [yo EXCEPT !.n = TID + 1]
  <2>1. /\ EnPaso("planificador", "sumar") /\ Sigue("planificador", f)
        /\ UNCHANGED <<sem_CPU, CPU_list, turno, mensajes, disp>>
    BY <1>3 DEF SumarTID, yo, semaforos, tablas, redes
  <2>2. DOMAIN f = Campos /\ f.pasos = yo.pasos /\ f.id = yo.id
    BY <1>1 DEF Campos
  <2> HIDE DEF f
  <2> QED
    BY <2>1, <2>2, DispIgual, PlanComun
<1>4. CASE MeterEnReady("planificador")
  BY <1>2, <1>4 DEF MeterEnReady, yo, semaforos, tablas, redes
<1>5. CASE Avisar("planificador")
  BY <1>2, <1>5 DEF Avisar, yo, tablas, redes
<1>6. CASE ResponderHilo
  BY <1>2, <1>6 DEF ResponderHilo, yo, semaforos
<1>7. CASE ContarHilo
  BY <1>2, <1>7 DEF ContarHilo, yo, semaforos, redes
<1>8. CASE SacarDeEjecucion
  BY <1>2, <1>8 DEF SacarDeEjecucion, yo, semaforos, redes
<1>9. CASE Exit
  BY <1>2, <1>9 DEF Exit, yo, semaforos, redes
<1>10. CASE FinKM
  <2>1. /\ EnPaso("planificador", "finKM")
        /\ \/ Sigue("planificador", yo)
           \/ \E s : Sigue("planificador", [yo EXCEPT !.tcb = s])
        /\ UNCHANGED <<sem_CPU, CPU_list, turno, mensajes, disp>>
    BY <1>10 DEF FinKM, yo, semaforos, tablas, redes
  <2>2. ASSUME NEW s, Sigue("planificador", [yo EXCEPT !.tcb = s]) PROVE IInv'
    <3> DEFINE f == [yo EXCEPT !.tcb = s]
    <3>1. DOMAIN f = Campos /\ f.pasos = yo.pasos /\ f.id = yo.id
      BY <1>1 DEF Campos
    <3>2. Sigue("planificador", f)
      BY <2>2
    <3> HIDE DEF f
    <3> QED
      BY <2>1, <3>1, <3>2, DispIgual, PlanComun
  <2> QED
    BY <1>2, <2>1, <2>2
<1>11. CASE PostKM
  BY <1>2, <1>11 DEF PostKM, yo, tablas, redes
<1>12. CASE LiberarBit
  BY <1>12, LibreYa
<1>13. CASE LiberarExec
  <2>1. /\ EnPaso("planificador", "exec") /\ Sigue("planificador", yo)
        /\ \E i : LiberarDeExec(i) /\ UNCHANGED <<sem_CPU, CPU_list, turno, mensajes>>
    BY <1>13 DEF LiberarExec, yo, semaforos, tablas, redes
  <2>2. /\ TiposDisp' /\ (Reserva' <=> Reserva) /\ (Orden' <=> Orden)
        /\ Orden => disp'.cpu = disp.cpu
    BY <2>1, DispLiberado
  <2> QED
    BY <1>1, <2>1, <2>2, PlanComun
<1>14. CASE LiberarPost
  BY <1>14, TokenYa
<1> QED
  BY <1>3, <1>4, <1>5, <1>6, <1>7, <1>8, <1>9, <1>10, <1>11, <1>12, <1>13, <1>14
     DEF Planificador, Comun

\* Each call of loader.
LEMMA PasoLoader ==
  ASSUME IInv, Loader
  PROVE  IInv'
<1>1. CASE \E p \in PIDs : RecibirPrograma(p) \/ RecibirDesconexion(p)
  <2>1. /\ UNCHANGED <<sem_CPU, CPU_list, turno, mensajes, disp>>
        /\ hilo' = hilo \/ \E f : hilo' = [hilo EXCEPT !["loader"] = f]
    BY <1>1 DEF RecibirPrograma, RecibirDesconexion, semaforos, redes
  <2> QED
    BY <2>1, Ajeno, LoaderIgual
<1>2. CASE Comun("loader") \/ CrearPadre \/ EsperarListo
  <2>1. /\ UNCHANGED <<sem_CPU, CPU_list, turno, mensajes, disp>>
        /\ \E f : hilo' = [hilo EXCEPT !["loader"] = f]
    BY <1>2 DEF Comun, SumarTID, MeterEnReady, Avisar, CrearPadre, EsperarListo, Sigue,
                semaforos, tablas, redes
  <2> QED
    BY <2>1, LoaderIgual
<1>3. CASE ContarReady \/ ContarBloq \/ ContarSysCall \/ ContarDic
  <2>1. /\ UNCHANGED <<sem_CPU, CPU_list, turno, mensajes, disp>>
        /\ \E f : hilo' = [hilo EXCEPT !["loader"] = f]
    BY <1>3 DEF ContarReady, ContarBloq, ContarSysCall, ContarDic, LoaderPasa, Sigue,
                semaforos, tablas, redes
  <2> QED
    BY <2>1, LoaderIgual
<1>4. CASE MatarReady \/ MatarBloq \/ MatarJoin
  <2>1. /\ UNCHANGED <<sem_CPU, CPU_list, turno, mensajes, disp>>
        /\ \E f : hilo' = [hilo EXCEPT !["loader"] = f]
    BY <1>4 DEF MatarReady, MatarBloq, MatarJoin, Sigue, semaforos, redes
  <2> QED
    BY <2>1, LoaderIgual
<1>5. CASE \E c \in CPUs : se_produjo_entrada(c)
  BY <1>5, Ajeno DEF se_produjo_entrada, semaforos, tablas
<1> QED
  BY <1>1, <1>2, <1>3, <1>4, <1>5 DEF Loader

\* Every step keeps the invariant.
LEMMA Paso == IInv /\ [Next]_vars => IInv'
<1> SUFFICES ASSUME IInv, [Next]_vars
             PROVE  IInv'
  OBVIOUS
<1>1. CASE Boot
  <2>1. CASE ConectarConsola
    BY <2>1, Ajeno DEF ConectarConsola, semaforos, redes
  <2> QED
    BY <1>1, <2>1, CPUNueva DEF Boot
<1>2. CASE Dispatcher
  BY <1>2, PasoDispatcher
<1>3. CASE Planificador
  BY <1>3, PasoPlanificador
<1>4. CASE Loader
  BY <1>4, PasoLoader
<1>5. CASE \E c \in CPUs : RecibirDe(c) \/ CPU(c)
  BY <1>5, PasoRecibir, PasoCPU
<1>8. CASE \E c \in CPUs : IngresarDatos(c)
  BY <1>8, Ajeno DEF IngresarDatos, semaforos, tablas
<1>6. CASE \E p \in PIDs : CerrarConsola(p)
  BY <1>6, Ajeno DEF CerrarConsola, semaforos, redes
<1>7. CASE UNCHANGED vars
  BY <1>7, Ajeno DEF vars, semaforos, tablas, redes
<1> QED
  BY <1>1, <1>2, <1>3, <1>4, <1>5, <1>6, <1>7, <1>8 DEF Next

-------------------------------------------------------------------------------
\* The tokens of sem_CPU, those that dispatcher holds and the one that liberar_cpu owes are
\* as many as the CPUs marked free, for any number of CPUs and whatever the interleaving.
THEOREM FichasCPUSiempre == Spec => []FichasCPU
<1>1. IInv => FichasCPU
  BY SemaforosYTurnos
<1> QED
  BY Inicio, Paso, <1>1, PTL DEF Spec

\* No CPU gets an order while it has another one, or while planificador has still to
\* release it, and a busy CPU has one.
THEOREM UnTurnoSiempre == Spec => []UnTurnoPorCPU
<1>1. IInv => UnTurnoPorCPU
  BY SemaforosYTurnos
<1> QED
  BY Inicio, Paso, <1>1, PTL DEF Spec

\* When dispatcher goes through CPU_list for a free CPU there is one: it has its token.
HayCPULibre == disp.pc = "buscar" => \E c \in CPUs : CPU_list[c].estado = "libre"

\* enviar_a_ejecucion never has to wait again for a CPU, as its loop over the list allows.
THEOREM SiempreHayCPULibre == Spec => []HayCPULibre
<1>1. IInv => HayCPULibre
  <2> SUFFICES ASSUME IInv, disp.pc = "buscar" PROVE Libres # {}
    BY DEF HayCPULibre, Libres
  <2>1. sem_CPU \in Nat /\ Uno(Reserva) = 1 /\ Uno(Token /\ ~ Bit) \in Nat
    BY DEF IInv, Tipos, TiposCPU, Reserva, Uno
  <2>2. Cardinality(Libres) # 0
    BY <2>1, LibresFinitas DEF IInv, Fichas
  <2> QED
    BY <2>2, FS_EmptySet
<1> QED
  BY Inicio, Paso, <1>1, PTL DEF Spec

-------------------------------------------------------------------------------
(* The calls of planificador and of loader, in order *)

Calls == Pasos \cup {"padre", "contarReady", "esperar", "matarReady", "contarBloq",
                     "matarBloq", "contarSysCall", "matarJoin", "contarDic"}

\* Those that say which thread the handler queues.
Ponen == {"finKM", "padre"}

\* They are made once, and before the thread is queued or the kernel thread announced.
EnOrden(p) ==
  /\ p \in Seq(Calls)
  /\ \A i, j \in DOMAIN p : p[i] = p[j] /\ p[i] \in Ponen \cup {"postKM"} => i = j
  /\ \A i, j \in DOMAIN p : p[i] \in Ponen /\ p[j] \in {"encolar", "postKM"} => i < j

\* The thread to queue is known.
Prepara(p) == Esta(p, "encolar") /\ \A x \in Ponen : ~ Esta(p, x)

\* What is left after the next call.
LEMMA EnOrdenTail ==
  ASSUME NEW p, EnOrden(p), p # <<>>
  PROVE  /\ EnOrden(Tail(p))
         /\ \A x : Esta(p, x) <=> Head(p) = x \/ Esta(Tail(p), x)
         /\ Head(p) \in Ponen \cup {"postKM"} => ~ Esta(Tail(p), Head(p))
         /\ Head(p) \in {"encolar", "postKM"} => \A x \in Ponen : ~ Esta(p, x)
<1> DEFINE t == Tail(p)
<1>1. /\ t \in Seq(Calls) /\ Len(p) \in Nat \ {0} /\ DOMAIN p = 1 .. Len(p)
      /\ DOMAIN t = 1 .. Len(p) - 1 /\ \A i \in 1 .. Len(p) - 1 : t[i] = p[i + 1]
      /\ Head(p) = p[1]
  BY DEF EnOrden
<1>2. /\ \A i, j \in DOMAIN p : p[i] = p[j] /\ p[i] \in Ponen \cup {"postKM"} => i = j
      /\ \A i, j \in DOMAIN p : p[i] \in Ponen /\ p[j] \in {"encolar", "postKM"} => i < j
  BY DEF EnOrden
<1> HIDE DEF t
<1>3. \A i \in DOMAIN t : i \in Nat \ {0} /\ i + 1 \in DOMAIN p /\ t[i] = p[i + 1]
  BY <1>1
<1>4. \A j \in DOMAIN p : j # 1 => j - 1 \in DOMAIN t /\ t[j - 1] = p[j]
  <2> SUFFICES ASSUME NEW j \in DOMAIN p, j # 1 PROVE j - 1 \in DOMAIN t /\ t[j - 1] = p[j]
    OBVIOUS
  <2>1. j - 1 \in 1 .. Len(p) - 1 /\ (j - 1) + 1 = j
    BY <1>1
  <2> QED
    BY <1>1, <2>1
<1>5. 1 \in DOMAIN p
  BY <1>1
<1>6. EnOrden(t)
  <2>1. ASSUME NEW i \in DOMAIN t, NEW j \in DOMAIN t, t[i] = t[j], t[i] \in Ponen \cup {"postKM"}
        PROVE  i = j
    <3>1. i + 1 = j + 1
      BY <1>2, <1>3, <2>1
    <3> QED
      BY <1>3, <3>1
  <2>2. ASSUME NEW i \in DOMAIN t, NEW j \in DOMAIN t, t[i] \in Ponen, t[j] \in {"encolar", "postKM"}
        PROVE  i < j
    <3>1. i + 1 < j + 1
      BY <1>2, <1>3, <2>2
    <3> QED
      BY <1>3, <3>1
  <2> QED
    BY <1>1, <2>1, <2>2 DEF EnOrden
<1>7. ASSUME NEW x PROVE Esta(p, x) <=> (p[1] = x \/ Esta(t, x))
  BY <1>3, <1>4, <1>5 DEF Esta
<1>8. ASSUME p[1] \in Ponen \cup {"postKM"}, NEW i \in DOMAIN t, t[i] = p[1] PROVE FALSE
  <2>1. i + 1 = 1 /\ i \in Nat \ {0}
    BY <1>2, <1>3, <1>5, <1>8
  <2> QED
    BY <2>1
<1>9. ASSUME p[1] \in {"encolar", "postKM"}, NEW i \in DOMAIN p, p[i] \in Ponen PROVE FALSE
  <2>1. i < 1 /\ i \in Nat \ {0}
    BY <1>1, <1>2, <1>5, <1>9
  <2> QED
    BY <2>1
<1> QED
  BY <1>1, <1>6, <1>7, <1>8, <1>9 DEF t, Esta

\* Two lists one after the other.
LEMMA EnOrdenSigue ==
  ASSUME NEW a, NEW b, EnOrden(a), EnOrden(b),
         \A x \in Ponen \cup {"postKM"} : ~ Esta(a, x) \/ ~ Esta(b, x),
         \A x \in {"encolar", "postKM"} : \A y \in Ponen : ~ Esta(a, x) \/ ~ Esta(b, y)
  PROVE  EnOrden(a \o b) /\ \A x : Esta(a \o b, x) <=> Esta(a, x) \/ Esta(b, x)
<1> DEFINE n == Len(a)
           p == a \o b
<1>1. /\ a \in Seq(Calls) /\ b \in Seq(Calls) /\ n \in Nat /\ Len(b) \in Nat
      /\ DOMAIN a = 1 .. n /\ DOMAIN b = 1 .. Len(b)
  BY DEF EnOrden
<1>2. /\ p \in Seq(Calls) /\ DOMAIN p = 1 .. n + Len(b)
      /\ \A i \in 1 .. n + Len(b) : p[i] = IF i <= n THEN a[i] ELSE b[i - n]
  <2>1. /\ p \in Seq(Calls) /\ Len(p) = n + Len(b)
        /\ \A i \in 1 .. Len(a) + Len(b) : p[i] = IF i <= Len(a) THEN a[i] ELSE b[i - Len(a)]
    BY <1>1, ConcatProperties
  <2> QED
    BY <2>1
<1> HIDE DEF p, n
<1>3. \A i \in DOMAIN p : \/ i \in DOMAIN a /\ p[i] = a[i]
                          \/ i - n \in DOMAIN b /\ p[i] = b[i - n] /\ i > n
  BY <1>1, <1>2
<1>4. \A i \in DOMAIN a : i \in DOMAIN p /\ p[i] = a[i]
  BY <1>1, <1>2
<1>5. \A i \in DOMAIN b : i + n \in DOMAIN p /\ p[i + n] = b[i]
  <2> SUFFICES ASSUME NEW i \in DOMAIN b PROVE i + n \in DOMAIN p /\ p[i + n] = b[i]
    OBVIOUS
  <2>1. i + n \in 1 .. n + Len(b) /\ ~ i + n <= n /\ (i + n) - n = i
    BY <1>1
  <2> QED
    BY <1>2, <2>1
<1>6. \A x : Esta(p, x) <=> Esta(a, x) \/ Esta(b, x)
  BY <1>3, <1>4, <1>5 DEF Esta
<1>7. DOMAIN p \subseteq Nat
  BY <1>1, <1>2
<1>8. ASSUME NEW i \in DOMAIN p, NEW j \in DOMAIN p, p[i] = p[j], p[i] \in Ponen \cup {"postKM"}
      PROVE  i = j
  <2>1. CASE i \in DOMAIN a /\ p[i] = a[i] /\ j \in DOMAIN a /\ p[j] = a[j]
    BY <1>8, <2>1 DEF EnOrden
  <2>2. CASE /\ i - n \in DOMAIN b /\ p[i] = b[i - n] /\ i > n
             /\ j - n \in DOMAIN b /\ p[j] = b[j - n] /\ j > n
    <3>1. i - n = j - n
      BY <1>8, <2>2 DEF EnOrden
    <3> QED
      BY <1>1, <1>7, <3>1
  <2>3. ~ (Esta(a, p[i]) /\ Esta(b, p[i]))
    BY <1>8
  <2> QED
    BY <1>3, <1>8, <2>1, <2>2, <2>3 DEF Esta
<1>9. ASSUME NEW i \in DOMAIN p, NEW j \in DOMAIN p, p[i] \in Ponen, p[j] \in {"encolar", "postKM"}
      PROVE  i < j
  <2>1. CASE i \in DOMAIN a /\ p[i] = a[i] /\ j \in DOMAIN a /\ p[j] = a[j]
    BY <1>9, <2>1 DEF EnOrden
  <2>2. CASE /\ i - n \in DOMAIN b /\ p[i] = b[i - n] /\ i > n
             /\ j - n \in DOMAIN b /\ p[j] = b[j - n] /\ j > n
    <3>1. i - n < j - n
      BY <1>9, <2>2 DEF EnOrden
    <3> QED
      BY <1>1, <1>7, <3>1
  <2>3. CASE i \in DOMAIN a /\ j > n
    BY <1>1, <1>7, <2>3
  <2>4. ~ (Esta(a, p[j]) /\ Esta(b, p[i]))
    BY <1>9
  <2> QED
    BY <1>3, <1>9, <2>1, <2>2, <2>3, <2>4 DEF Esta
<1>10. EnOrden(p)
  BY <1>2, <1>8, <1>9 DEF EnOrden
<1> QED
  BY <1>6, <1>10 DEF p

Quietos == Calls \ (Ponen \cup {"postKM"})

\* A list with none of those calls, and a list with one call.
LEMMA EnOrdenFacil ==
  /\ \A p \in Seq(Quietos) : EnOrden(p) /\ \A x \in Ponen \cup {"postKM"} : ~ Esta(p, x)
  /\ \A x \in Calls : EnOrden(<<x>>) /\ \A y : Esta(<<x>>, y) <=> y = x
<1>1. ASSUME NEW p \in Seq(Quietos)
      PROVE  EnOrden(p) /\ \A x \in Ponen \cup {"postKM"} : ~ Esta(p, x)
  <2>1. p \in Seq(Calls) /\ \A i \in DOMAIN p : p[i] \in Quietos
    BY DEF Quietos
  <2> QED
    BY <2>1 DEF EnOrden, Esta, Quietos, Ponen
<1>2. ASSUME NEW x \in Calls PROVE EnOrden(<<x>>) /\ \A y : Esta(<<x>>, y) <=> y = x
  <2>1. <<x>> \in Seq(Calls) /\ DOMAIN <<x>> = {1} /\ <<x>>[1] = x
    OBVIOUS
  <2>2. x \in Ponen => x \notin {"encolar", "postKM"}
    BY DEF Ponen
  <2> QED
    BY <2>1, <2>2 DEF EnOrden, Esta
<1> QED
  BY <1>1, <1>2

\* The lists of the handlers.
LEMMA ListasEnOrden ==
  /\ \A p \in {<<>>, encola, libera, <<"sacar", "exit">>, <<"sumar", "responder">>,
               <<"avisar", "avisar">>, <<"contarReady">>, encola \o <<"contar">>,
               encola \o libera, <<"sacar", "exit">> \o libera,
               <<"avisar", "avisar">> \o libera} : p \in Seq(Quietos)
  /\ EnOrden(<<"sumar", "padre">> \o encola)
  /\ Esta(<<"sumar", "padre">> \o encola, "padre")
  /\ \A s : /\ EnOrden(finaliza(s) \o libera) /\ EnOrden(libera \o finaliza(s))
            /\ \A p \in {finaliza(s) \o libera, libera \o finaliza(s)} :
                 /\ Esta(p, "finKM") <=> s.km
                 /\ Esta(p, "postKM") <=> s.km
                 /\ ~ Prepara(p)
<1>1. \A x \in {"encolar", "avisar", "libre", "exec", "post", "sacar", "exit", "sumar",
               "responder", "contar", "contarReady"} : x \in Quietos
  BY DEF Quietos, Calls, Pasos, Ponen
<1>2. /\ encola \in Seq(Quietos) /\ libera \in Seq(Quietos)
      /\ <<>> \in Seq(Quietos) /\ <<"avisar", "avisar">> \in Seq(Quietos)
      /\ <<"sacar", "exit">> \in Seq(Quietos) /\ <<"sumar", "responder">> \in Seq(Quietos)
      /\ <<"contarReady">> \in Seq(Quietos) /\ <<"contar">> \in Seq(Quietos)
  BY <1>1 DEF encola, libera
<1>3. \A a, b \in Seq(Quietos) : a \o b \in Seq(Quietos)
  BY ConcatProperties
<1>4. \A p \in {<<>>, encola, libera, <<"sacar", "exit">>, <<"sumar", "responder">>,
               <<"avisar", "avisar">>, <<"contarReady">>, encola \o <<"contar">>,
               encola \o libera, <<"sacar", "exit">> \o libera,
               <<"avisar", "avisar">> \o libera} : p \in Seq(Quietos)
  BY <1>2, <1>3
<1>5. ASSUME NEW q, EnOrden(q), ~ Esta(q, "finKM"), ~ Esta(q, "padre"), NEW r \in Seq(Quietos)
      PROVE  EnOrden(q \o r) /\ \A x : Esta(q \o r, x) <=> Esta(q, x) \/ Esta(r, x)
  <2>1. EnOrden(r) /\ \A x \in Ponen \cup {"postKM"} : ~ Esta(r, x)
    BY EnOrdenFacil
  <2> QED
    BY <1>5, <2>1, EnOrdenSigue
<1>6. /\ EnOrden(<<"sumar", "padre">>) /\ Esta(<<"sumar", "padre">>, "padre")
      /\ EnOrden(<<"sumar", "padre">> \o encola)
      /\ Esta(<<"sumar", "padre">> \o encola, "padre")
  <2> DEFINE q == <<"sumar", "padre">>
  <2>1. q \in Seq(Calls) /\ DOMAIN q = {1, 2} /\ q[1] = "sumar" /\ q[2] = "padre"
    BY DEF Calls, Pasos
  <2> HIDE DEF q
  <2>2. EnOrden(q) /\ Esta(q, "padre") /\ ~ Esta(q, "finKM") /\ ~ Esta(q, "encolar") /\ ~ Esta(q, "postKM")
    BY <2>1 DEF EnOrden, Esta, Ponen
  <2>3. EnOrden(encola) /\ \A x \in Ponen \cup {"postKM"} : ~ Esta(encola, x)
    BY <1>2, EnOrdenFacil
  <2>4. EnOrden(q \o encola) /\ \A x : Esta(q \o encola, x) <=> Esta(q, x) \/ Esta(encola, x)
    BY <2>2, <2>3, EnOrdenSigue
  <2>5. EnOrden(q \o encola) /\ Esta(q \o encola, "padre")
    BY <2>2, <2>4
  <2> QED
    BY <2>2, <2>5 DEF q
<1>7. ASSUME NEW s, s.km
      PROVE  /\ EnOrden(finaliza(s)) /\ Esta(finaliza(s), "finKM") /\ Esta(finaliza(s), "postKM")
             /\ ~ Esta(finaliza(s), "padre")
  <2> DEFINE u == <<"finKM">>
             v == <<"postKM">>
             w == u \o encola
  <2>1. /\ EnOrden(u) /\ \A y : Esta(u, y) <=> y = "finKM"
        /\ EnOrden(v) /\ \A y : Esta(v, y) <=> y = "postKM"
    BY EnOrdenFacil DEF Calls, Pasos
  <2>2. EnOrden(encola) /\ \A x \in Ponen \cup {"postKM"} : ~ Esta(encola, x)
    BY <1>2, EnOrdenFacil
  <2> HIDE DEF u, v, w
  <2>3. EnOrden(w) /\ \A x : Esta(w, x) <=> Esta(u, x) \/ Esta(encola, x)
    BY <2>1, <2>2, EnOrdenSigue DEF w, Ponen
  <2>4. EnOrden(w \o v) /\ \A x : Esta(w \o v, x) <=> Esta(w, x) \/ Esta(v, x)
    BY <2>1, <2>2, <2>3, EnOrdenSigue DEF Ponen
  <2>5. finaliza(s) = w \o v
    BY <1>7 DEF finaliza, w, u, v
  <2> QED
    BY <2>1, <2>2, <2>3, <2>4, <2>5 DEF Ponen
<1>8. ASSUME NEW s, ~ s.km
      PROVE  finaliza(s) \in Seq(Quietos) /\ ~ Esta(finaliza(s), "encolar")
  <2>1. finaliza(s) = <<"sacar", "exit">>
    BY <1>8 DEF finaliza
  <2> QED
    BY <1>2, <2>1 DEF Esta
<1>9. EnOrden(libera) /\ \A x \in Ponen \cup {"postKM", "encolar"} : ~ Esta(libera, x)
  <2>1. ~ Esta(libera, "encolar")
    BY DEF Esta, libera
  <2> QED
    BY <1>2, <2>1, EnOrdenFacil
<1>10. ASSUME NEW s
       PROVE  /\ EnOrden(finaliza(s) \o libera) /\ EnOrden(libera \o finaliza(s))
              /\ \A p \in {finaliza(s) \o libera, libera \o finaliza(s)} :
                   /\ Esta(p, "finKM") <=> s.km
                   /\ Esta(p, "postKM") <=> s.km
                   /\ ~ Prepara(p)
  <2> DEFINE q == finaliza(s)
  <2>1. /\ EnOrden(q) /\ (Esta(q, "finKM") <=> s.km) /\ (Esta(q, "postKM") <=> s.km)
        /\ ~ s.km => ~ Esta(q, "encolar")
    <3>1. CASE s.km
      BY <1>7, <3>1
    <3>2. CASE ~ s.km
      BY <1>8, <3>2, EnOrdenFacil DEF Ponen
    <3> QED
      BY <3>1, <3>2
  <2> HIDE DEF q
  <2>2. EnOrden(q \o libera) /\ \A x : Esta(q \o libera, x) <=> Esta(q, x) \/ Esta(libera, x)
    BY <1>9, <2>1, EnOrdenSigue
  <2>3. EnOrden(libera \o q) /\ \A x : Esta(libera \o q, x) <=> Esta(libera, x) \/ Esta(q, x)
    BY <1>9, <2>1, EnOrdenSigue
  <2>4. \A p \in {q \o libera, libera \o q} :
          /\ Esta(p, "finKM") <=> s.km
          /\ Esta(p, "postKM") <=> s.km
          /\ ~ Prepara(p)
    BY <1>9, <2>1, <2>2, <2>3 DEF Prepara, Ponen
  <2> QED
    BY <2>2, <2>3, <2>4 DEF q
<1> QED
  BY <1>4, <1>6, <1>10

-------------------------------------------------------------------------------
(* The kernel thread: where its TCB is *)

\* The TCBs, of user threads and of the kernel thread, as every queue has them.
Tcb       == [pid : Nat, tid : Nat, km : BOOLEAN, dir : Llamadas \cup {Usuario}]
DeUsuario == {s \in Tcb : ~ s.km}
Bloqueado == [tcb : DeUsuario, dir : Llamadas]
Calling   == [pasos : Seq(Calls), tcb : Tcb, n : Nat, id : Nat]

PCs == {"listo1", "cpu", "listo2", "elegir", "km", "buscar", "exec", "enviar"}
Operaciones ==
  {"finaliza_quantum", "finaliza_ejecucion", "ejecucion_erronea", "interrupcion",
   "creacion_hilo", "planificar_nuevo_hilo", "join", "bloquear", "despertar",
   "entrada_estandar"}

\* No kernel TCB ends a quantum, makes a system call or is a new thread.
Correo ==
  {m \in [op : Operaciones, tcb : Tcb, dir : Llamadas \cup {Usuario}] :
     /\ m.op \in {"finaliza_quantum", "interrupcion", "planificar_nuevo_hilo"} =>
          m.tcb \in DeUsuario
     /\ m.op = "interrupcion" => m.dir \in Llamadas
     /\ m.op = "despertar" => m.tcb.dir.valor \in Recursos}

Espera == [llamador : Tcb, tid : TIDs \cup Recursos \cup {0}]

TcbColas ==
  /\ ready \in Seq(DeUsuario) /\ SYS_CALL \in Seq(DeUsuario) /\ exec \in Seq(Tcb)
  /\ bloq \in Seq(Bloqueado) /\ dic_bloqueados \in [Recursos -> Seq(Tcb)]
  /\ kms \in Seq({tcbKM}) /\ hilos_join \in Seq(Espera) /\ llamador \in Tcb /\ TID \in Nat
TcbDisp == disp \in [pc : PCs, tcb : Tcb, cpu : CPUs \cup {0}]
TcbRed ==
  /\ turno \in [CPUs -> Seq(Tcb)] /\ respuesta \in [CPUs -> Seq(DeUsuario)]
  /\ mensajes \in [CPUs -> Seq(Correo)]

\* What planificador and loader queue is a user thread.
TcbHilo(h) ==
  /\ EnOrden(hilo[h].pasos)
  /\ Prepara(hilo[h].pasos) => caida \/ hilo[h].tcb \in DeUsuario
TcbHilos == hilo \in [Hilos -> Calling] /\ \A h \in Hilos : TcbHilo(h)

DInv == TcbColas /\ TcbDisp /\ TcbRed /\ TcbHilos

\* Nobody, the TCB of a new thread, and the requests that say which semaphore.
LEMMA TcbNuevos ==
  /\ Nulo \in DeUsuario /\ tcbKM \in Tcb /\ DeUsuario \subseteq Tcb
  /\ \A p, t \in Nat : hiloUsuario(p, t) \in DeUsuario
  /\ \A ll \in Llamadas : ll.rutina = "wake" => ll.valor \in Recursos
<1>1. Usuario \in Llamadas \cup {Usuario}
  OBVIOUS
<1>2. /\ Nulo \in DeUsuario /\ tcbKM \in Tcb /\ DeUsuario \subseteq Tcb
      /\ \A p, t \in Nat : hiloUsuario(p, t) \in DeUsuario
  BY <1>1 DEF Nulo, tcbKM, hiloUsuario, Tcb, DeUsuario
<1>3. \A ll \in Llamadas : ll.rutina = "wake" => ll.valor \in Recursos
  BY DEF Llamadas
<1> QED
  BY <1>2, <1>3

\* The search of a TCB gives a position, or 0.
LEMMA Busqueda ==
  ASSUME NEW S, NEW s \in Seq(S), NEW I \in SUBSET (1 .. Len(s)), NEW i,
         i = IF I # {} THEN Min(I) ELSE 0
  PROVE  /\ i \in 0 .. Len(s) /\ (i = 0 <=> I = {})
         /\ i # 0 => i \in I
<1>1. Len(s) \in Nat
  OBVIOUS
<1>2. I # {} => Min(I) \in I
  BY <1>1, MinDeIndices
<1>3. \A j \in I : j \in 1 .. Len(s) /\ j # 0 /\ j \in 0 .. Len(s)
  BY <1>1
<1>4. 0 \in 0 .. Len(s)
  BY <1>1
<1>5. CASE I = {}
  BY <1>4, <1>5
<1>6. CASE I # {}
  <2>1. i \in I
    BY <1>2, <1>6
  <2> QED
    BY <1>3, <1>6, <2>1
<1> QED
  BY <1>5, <1>6

\* The first position of those in I, or 0.
ElPrimero(I) == IF I # {} THEN Min(I) ELSE 0

\* Queues of the same TCBs.
LEMMA ColaCambia ==
  ASSUME NEW S, NEW s \in Seq(S)
  PROVE  /\ \A e \in S : Append(s, e) \in Seq(S)
         /\ s # <<>> => Head(s) \in S /\ Tail(s) \in Seq(S)
         /\ \A i \in 1 .. Len(s) : s[i] \in S /\ RemoveAt(s, i) \in Seq(S)
         /\ \A I \in SUBSET (1 .. Len(s)) :
              /\ ElPrimero(I) \in 0 .. Len(s) /\ (I # {} => ElPrimero(I) \in I)
              /\ ElPrimero(I) # 0 => /\ ElPrimero(I) \in I
                                    /\ RemoveAt(s, ElPrimero(I)) \in Seq(S)
<1>1. \A i \in 1 .. Len(s) : RemoveAt(s, i) \in Seq(S)
  BY QuitarPosicion
<1>2. ASSUME NEW I \in SUBSET (1 .. Len(s))
      PROVE  /\ ElPrimero(I) \in 0 .. Len(s) /\ (I # {} => ElPrimero(I) \in I)
             /\ ElPrimero(I) # 0 => ElPrimero(I) \in I
  <2>1. ElPrimero(I) = IF I # {} THEN Min(I) ELSE 0
    BY DEF ElPrimero
  <2> QED
    BY <2>1, Busqueda
<1> QED
  BY <1>1, <1>2

\* The callers with the TID t, of which obtener_tcb_bloqueado gives the first.
Llamadores(t) == {j \in 1 .. Len(bloq) : bloq[j].tcb.tid = t}

\* What obtener_tcb_bloqueado finds.
LEMMA BuscaBloqueado ==
  ASSUME bloq \in Seq(Bloqueado), NEW t, NEW i, i = ElPrimero(Llamadores(t))
  PROVE  /\ i = 0 => \A j \in DOMAIN bloq : bloq[j].tcb.tid # t
         /\ i # 0 => i \in 1 .. Len(bloq) /\ bloq[i] \in Bloqueado /\ bloq[i].tcb.tid = t
<1> DEFINE I == Llamadores(t)
<1>1. i = IF I # {} THEN Min(I) ELSE 0
  BY DEF ElPrimero
<1>2. I \in SUBSET (1 .. Len(bloq)) /\ DOMAIN bloq = 1 .. Len(bloq)
  BY DEF Llamadores
<1> HIDE DEF I
<1>3. /\ i = 0 <=> I = {}
      /\ i # 0 => i \in I
  BY <1>1, <1>2, Busqueda
<1> QED
  BY <1>2, <1>3 DEF Llamadores, I

\* What is left of exec, and of the TCB of dispatcher.
LEMMA LiberadoTcb ==
  ASSUME TcbColas, TcbDisp, NEW t, LiberarDeExec(t), t \in 0 .. Len(exec)
  PROVE  /\ exec' \in Seq(Tcb) /\ TcbDisp'
         /\ disp'.pc = disp.pc /\ disp'.tcb.km = disp.tcb.km /\ disp'.tcb.tid = disp.tcb.tid
<1>1. exec' \in Seq(Tcb)
  <2>1. exec \in Seq(Tcb) /\ (t # 0 => t \in 1 .. Len(exec))
    BY DEF TcbColas
  <2> QED
    BY <2>1, ColaCambia DEF LiberarDeExec
<1>2. disp' = disp \/ disp' = [disp EXCEPT !.tcb.pid = 0]
  BY DEF LiberarDeExec
<1>3. disp.tcb \in Tcb
  BY DEF TcbDisp
<1>4. [disp.tcb EXCEPT !.pid = 0] \in Tcb
  BY <1>3 DEF Tcb
<1>5. CASE disp' = [disp EXCEPT !.tcb.pid = 0]
  <2>1. disp' = [disp EXCEPT !.tcb = [disp.tcb EXCEPT !.pid = 0]]
    BY <1>5
  <2> DEFINE s == [disp.tcb EXCEPT !.pid = 0]
  <2>2. s \in Tcb /\ s.km = disp.tcb.km /\ s.tid = disp.tcb.tid
    BY <1>3, <1>4 DEF Tcb
  <2> HIDE DEF s
  <2>3. disp' = [disp EXCEPT !.tcb = s]
    BY <2>1 DEF s
  <2> QED
    BY <1>1, <2>2, <2>3 DEF TcbDisp
<1> QED
  BY <1>1, <1>2, <1>5 DEF TcbDisp

\* The next call of the thread h.
LEMMA HiloAvanza ==
  ASSUME TcbHilos, NEW h \in Hilos, NEW x, EnPaso(h, x), NEW f \in Calling, Sigue(h, f),
         f.pasos = hilo[h].pasos,
         x \in Ponen => caida' \/ f.tcb \in DeUsuario,
         x \notin Ponen => f.tcb = hilo[h].tcb
  PROVE  /\ TcbHilos'
         /\ \A y : Esta(hilo[h].pasos, y) <=> x = y \/ Esta(hilo'[h].pasos, y)
         /\ x \in Ponen \cup {"postKM"} => ~ Esta(hilo'[h].pasos, x)
         /\ x \in {"encolar", "postKM"} => \A y \in Ponen : ~ Esta(hilo[h].pasos, y)
         /\ \A g \in Hilos \ {h} : hilo'[g] = hilo[g]
         /\ hilo'[h] # Reposo => hilo'[h].tcb = f.tcb
<1> DEFINE p == hilo[h].pasos
<1>1. EnOrden(p) /\ p # <<>> /\ Head(p) = x /\ p \in Seq(Calls) /\ ~ caida
  BY DEF TcbHilos, TcbHilo, EnPaso, EnOrden
<1> DEFINE q == Tail(p)
<1>2. /\ EnOrden(q)
      /\ \A y : Esta(p, y) <=> x = y \/ Esta(q, y)
      /\ x \in Ponen \cup {"postKM"} => ~ Esta(q, x)
      /\ x \in {"encolar", "postKM"} => \A y \in Ponen : ~ Esta(p, y)
  <2> HIDE DEF p
  <2> QED
    BY <1>1, EnOrdenTail
<1>3. q \in Seq(Calls) /\ (Len(p) = 1 => q = <<>>)
  <2>1. Tail(p) \in Seq(Calls) /\ (Len(p) = 1 => Len(Tail(p)) = 0)
    BY <1>1
  <2> QED
    BY <2>1, EmptySeq
<1>4. hilo \in [Hilos -> Calling]
  BY DEF TcbHilos
<1> DEFINE r == IF Len(p) = 1 THEN Reposo ELSE [f EXCEPT !.pasos = Tail(f.pasos)]
<1>5. hilo' = [hilo EXCEPT ![h] = r]
  BY <1>4 DEF Sigue
<1>6. Reposo \in Calling
  <2>1. Nulo \in Tcb
    BY TcbNuevos
  <2>2. <<>> \in Seq(Calls)
    OBVIOUS
  <2> QED
    BY <2>1, <2>2 DEF Reposo, Calling
<1>7. r \in Calling /\ r.pasos = q
  <2>1. CASE Len(p) = 1
    <3>1. Reposo.pasos = <<>>
      BY DEF Reposo
    <3> QED
      BY <1>3, <1>6, <2>1, <3>1
  <2>2. CASE Len(p) # 1
    <3> HIDE DEF q
    <3>1. r = [f EXCEPT !.pasos = q]
      BY <2>2 DEF q
    <3> HIDE DEF r
    <3> QED
      BY <1>3, <3>1 DEF Calling
  <2> QED
    BY <2>1, <2>2
<1>8. r # Reposo => r.tcb = f.tcb
  BY DEF Calling
<1>9. Reposo.tcb \in DeUsuario
  BY TcbNuevos DEF Reposo
<1> HIDE DEF r, q
<1>10. /\ hilo' \in [Hilos -> Calling] /\ hilo'[h] = r
       /\ \A g \in Hilos \ {h} : hilo'[g] = hilo[g]
  BY <1>4, <1>5, <1>7
<1>11. ASSUME Prepara(q) PROVE caida' \/ r.tcb \in DeUsuario
  <2>1. CASE r = Reposo
    BY <1>9, <2>1
  <2>2. CASE r # Reposo /\ x \in Ponen
    BY <1>8, <2>2
  <2>3. CASE r # Reposo /\ x \notin Ponen
    <3>1. Prepara(p)
      BY <1>2, <1>11, <2>3 DEF Prepara
    <3> QED
      BY <1>1, <1>8, <2>3, <3>1 DEF TcbHilos, TcbHilo
  <2> QED
    BY <2>1, <2>2, <2>3
<1>12. ASSUME NEW g \in Hilos PROVE TcbHilo(g)'
  <2>1. CASE g = h
    BY <1>2, <1>7, <1>10, <1>11, <2>1 DEF TcbHilo
  <2>2. CASE g # h
    BY <1>1, <1>10, <2>2 DEF TcbHilos, TcbHilo
  <2> QED
    BY <2>1, <2>2
<1>13. TcbHilos'
  BY <1>10, <1>12 DEF TcbHilos
<1> HIDE DEF p
<1>14. hilo'[h].pasos = q
  BY <1>7, <1>10
<1> QED
  BY <1>2, <1>8, <1>10, <1>13, <1>14 DEF p

\* The thread h takes a message.
LEMMA HiloToma ==
  ASSUME TcbHilos, NEW h \in Hilos, ~ caida, NEW r \in Calling, hilo' = [hilo EXCEPT ![h] = r],
         EnOrden(r.pasos), Prepara(r.pasos) => r.tcb \in DeUsuario
  PROVE  /\ TcbHilos' /\ hilo'[h] = r
         /\ \A g \in Hilos \ {h} : hilo'[g] = hilo[g]
<1>1. /\ hilo' \in [Hilos -> Calling] /\ hilo'[h] = r
      /\ \A g \in Hilos \ {h} : hilo'[g] = hilo[g]
  BY DEF TcbHilos
<1>2. ASSUME NEW g \in Hilos PROVE TcbHilo(g)'
  <2>1. CASE g = h
    BY <1>1, <2>1 DEF TcbHilo
  <2>2. CASE g # h
    BY <1>1, <2>2 DEF TcbHilos, TcbHilo
  <2> QED
    BY <2>1, <2>2
<1> QED
  BY <1>1, <1>2 DEF TcbHilos

-------------------------------------------------------------------------------
(* The kernel thread: every queue keeps its TCBs *)

\* Steps that leave the queues as they are.
LEMMA ColasIguales ==
  ASSUME TcbColas, UNCHANGED <<ready, SYS_CALL, exec, bloq, dic_bloqueados, kms, hilos_join, llamador, TID>>
  PROVE  TcbColas'
BY DEF TcbColas

\* Steps that leave dispatcher,
LEMMA DispIgualTcb ==
  ASSUME TcbDisp, UNCHANGED disp
  PROVE  TcbDisp'
BY DEF TcbDisp

\* the CPUs and their connections,
LEMMA RedIgual ==
  ASSUME TcbRed, UNCHANGED <<turno, respuesta, mensajes>>
  PROVE  TcbRed'
BY DEF TcbRed

\* or planificador and loader as they are.
LEMMA HilosIguales ==
  ASSUME TcbHilos, UNCHANGED hilo, caida => caida'
  PROVE  TcbHilos'
BY DEF TcbHilos, TcbHilo

\* planificador takes a message of the CPU c.
LEMMA RecibeTcb ==
  ASSUME DInv, NEW c \in CPUs, NEW op, NEW p, NEW s \in Tcb, Recibir(c, op, p, s), EnOrden(p),
         Prepara(p) => s \in DeUsuario
  PROVE  /\ TcbHilos' /\ TcbRed'
         /\ hilo'["planificador"].pasos = p
         /\ p # <<>> => hilo'["planificador"].tcb = s
         /\ hilo'["loader"] = hilo["loader"]
         /\ hilo["planificador"].pasos = <<>>
<1> DEFINE h == "planificador"
           r == IF p = <<>> THEN Reposo ELSE [pasos |-> p, tcb |-> s, n |-> 0, id |-> c]
<1>1. /\ ~ caida /\ hilo[h].pasos = <<>> /\ mensajes[c] # <<>>
      /\ mensajes' = [mensajes EXCEPT ![c] = Tail(@)] /\ UNCHANGED <<turno, respuesta>>
      /\ hilo' = [hilo EXCEPT ![h] = r]
  BY DEF Recibir, Libre
<1>2. c \in Nat
  BY KernelAssumption DEF CPUs
<1>3. Nulo \in Tcb /\ Nulo \in DeUsuario
  BY TcbNuevos
<1>4. p \in Seq(Calls)
  BY DEF EnOrden
<1>5. r \in Calling /\ r.pasos = p /\ (p # <<>> => r.tcb = s) /\ (Prepara(p) => r.tcb \in DeUsuario)
  BY <1>2, <1>3, <1>4 DEF Reposo, Calling
<1> HIDE DEF r
<1>6. h \in Hilos /\ "loader" \in Hilos \ {h}
  BY DEF Hilos
<1>7. TcbHilos' /\ hilo'[h] = r /\ hilo'["loader"] = hilo["loader"]
  BY <1>1, <1>5, <1>6, HiloToma DEF DInv
<1>8. TcbRed'
  <2>1. mensajes[c] \in Seq(Correo)
    BY DEF DInv, TcbRed
  <2>2. Tail(mensajes[c]) \in Seq(Correo)
    BY <1>1, <2>1
  <2> QED
    BY <1>1, <2>2 DEF DInv, TcbRed
<1> QED
  BY <1>1, <1>5, <1>7, <1>8

\* The message it takes.
LEMMA Recibida ==
  ASSUME DInv, NEW c \in CPUs, NEW op, NEW p, NEW s, Recibir(c, op, p, s)
  PROVE  /\ Head(mensajes[c]) \in Correo /\ Head(mensajes[c]).op = op /\ Recibido(c) \in Tcb
         /\ op \in {"finaliza_quantum", "interrupcion", "planificar_nuevo_hilo"} =>
              Recibido(c) \in DeUsuario
         /\ op = "interrupcion" => Head(mensajes[c]).dir \in Llamadas
         /\ op = "despertar" => Recibido(c).dir.valor \in Recursos
<1>1. mensajes[c] \in Seq(Correo) /\ mensajes[c] # <<>> /\ Head(mensajes[c]).op = op
  BY DEF DInv, TcbRed, Recibir
<1>2. Head(mensajes[c]) \in Correo
  BY <1>1
<1> QED
  BY <1>1, <1>2 DEF Correo, Recibido

\* Each message of a CPU.
LEMMA TcbRecibir ==
  ASSUME DInv, NEW c \in CPUs, RecibirDe(c)
  PROVE  DInv'
<1> DEFINE s == Recibido(c)
<1>1. TcbColas /\ TcbDisp /\ TcbRed /\ TcbHilos
  BY DEF DInv
<1>2. \A p \in Seq(Quietos) : EnOrden(p)
  BY EnOrdenFacil
<1>3. CASE finalizo_quantum(c)
  <2> DEFINE i == SelectInSeq(exec, LAMBDA e : e.pid = PID /\ e.tid = TID /\ ~ e.km)
             p == IF s.pid \notin DOMAIN consola_list THEN libera
                  ELSE IF consola_list[s.pid].termino THEN <<"sacar", "exit">> \o libera
                  ELSE encola \o libera
  <2>1. /\ Recibir(c, "finaliza_quantum", p, s)
        /\ UNCHANGED <<exec, disp>> \/ LiberarDeExec(i)
        /\ UNCHANGED <<ready, SYS_CALL, bloq, dic_bloqueados, kms, hilos_join, llamador, TID>>
    BY <1>3 DEF finalizo_quantum, tablas
  <2>2. EnOrden(p)
    BY <1>2, ListasEnOrden
  <2>3. s \in Tcb /\ s \in DeUsuario
    <3> HIDE DEF p
    <3> QED
      BY <2>1, Recibida
  <2>4. i \in 0 .. Len(exec)
    <3> DEFINE I == {j \in 1 .. Len(exec) : exec[j].pid = PID /\ exec[j].tid = TID /\ ~ exec[j].km}
    <3>1. i = ElPrimero(I)
      BY DEF SelectInSeq, ElPrimero
    <3>2. I \in SUBSET (1 .. Len(exec))
      OBVIOUS
    <3> HIDE DEF i, I
    <3> QED
      BY <1>1, <3>1, <3>2, ColaCambia DEF TcbColas
  <2> HIDE DEF i, p, s
  <2>5. TcbHilos' /\ TcbRed'
    BY <2>1, <2>2, <2>3, RecibeTcb
  <2>6. exec' \in Seq(Tcb) /\ TcbDisp'
    BY <1>1, <2>1, <2>4, LiberadoTcb, DispIgualTcb DEF TcbColas
  <2>7. TcbColas'
    BY <1>1, <2>1, <2>6 DEF TcbColas
  <2> QED
    BY <2>5, <2>6, <2>7 DEF DInv
<1>4. ASSUME NEW op, NEW p, Recibir(c, op, p, s), EnOrden(p), Prepara(p) => s \in DeUsuario,
             UNCHANGED <<ready, SYS_CALL, exec, bloq, dic_bloqueados, kms, hilos_join, llamador, TID, disp>>
      PROVE  DInv'
  <2>1. s \in Tcb
    BY <1>4, Recibida
  <2>2. TcbHilos' /\ TcbRed'
    BY <1>4, <2>1, RecibeTcb
  <2>3. TcbColas' /\ TcbDisp'
    BY <1>1, <1>4, ColasIguales, DispIgualTcb
  <2> QED
    BY <2>2, <2>3 DEF DInv
<1>5. CASE finalizo_ejecucion(c)
  <2>1. EnOrden(finaliza(s) \o libera) /\ ~ Prepara(finaliza(s) \o libera)
    BY ListasEnOrden
  <2> QED
    BY <1>4, <1>5, <2>1 DEF finalizo_ejecucion, colas, tablas
<1>6. CASE ejecucion_erronea(c)
  <2>1. EnOrden(libera \o finaliza(s)) /\ ~ Prepara(libera \o finaliza(s))
    BY ListasEnOrden
  <2> QED
    BY <1>4, <1>6, <2>1 DEF ejecucion_erronea, colas, tablas
<1>7. CASE interrumpir(c)
  <2> DEFINE p == <<"avisar", "avisar">> \o libera
             d == Head(mensajes[c]).dir
             b == [tcb |-> s, dir |-> d]
  <2>1. /\ Recibir(c, "interrupcion", p, s)
        /\ bloq' = Append(bloq, b) /\ SYS_CALL' = Append(SYS_CALL, s)
        /\ UNCHANGED <<ready, exec, dic_bloqueados, kms, hilos_join, llamador, TID, disp>>
    BY <1>7 DEF interrumpir, tablas, Recibido
  <2>2. EnOrden(p)
    BY <1>2, ListasEnOrden
  <2> HIDE DEF p
  <2>3. s \in DeUsuario /\ d \in Llamadas /\ s \in Tcb
    BY <2>1, Recibida, TcbNuevos
  <2>4. b \in Bloqueado
    BY <2>3 DEF Bloqueado
  <2> HIDE DEF b, d, s
  <2>5. TcbHilos' /\ TcbRed'
    BY <2>1, <2>2, <2>3, RecibeTcb
  <2>6. TcbColas'
    BY <1>1, <2>1, <2>3, <2>4 DEF TcbColas
  <2> QED
    BY <1>1, <2>1, <2>5, <2>6, DispIgualTcb DEF DInv
<1>8. CASE crear_hilo(c)
  <2> DEFINE i == SelectInSeq(bloq, LAMBDA b : b.tcb.tid = s.tid)
             p == <<"sumar", "responder">>
             r == IF i = 0 THEN s ELSE bloq[i].tcb
  <2>1. /\ Recibir(c, "creacion_hilo", p, r)
        /\ UNCHANGED <<ready, SYS_CALL, exec, bloq, dic_bloqueados, kms, hilos_join, llamador, TID, disp>>
    BY <1>8 DEF crear_hilo, colas, tablas
  <2>2. EnOrden(p) /\ ~ Prepara(p)
    <3>1. EnOrden(p)
      BY <1>2, ListasEnOrden
    <3>2. DOMAIN p = {1, 2} /\ p[1] # "encolar" /\ p[2] # "encolar"
      OBVIOUS
    <3> QED
      BY <3>1, <3>2 DEF Prepara, Esta
  <2>3. s \in Tcb
    <3> HIDE DEF p, r
    <3> QED
      BY <2>1, Recibida
  <2>4. r \in Tcb
    <3>1. i # 0 => bloq[i] \in Bloqueado
      <4>1. i = ElPrimero(Llamadores(s.tid))
        BY DEF SelectInSeq, ElPrimero, Llamadores
      <4> HIDE DEF i, s
      <4> QED
        BY <1>1, <4>1, BuscaBloqueado DEF TcbColas
    <3> HIDE DEF i, s
    <3>2. i # 0 => bloq[i].tcb \in Tcb
      BY <3>1, TcbNuevos DEF Bloqueado
    <3> QED
      BY <2>3, <3>2
  <2> HIDE DEF i, p, r, s
  <2>5. TcbHilos' /\ TcbRed'
    BY <2>1, <2>2, <2>4, RecibeTcb
  <2> QED
    BY <1>1, <2>1, <2>5, ColasIguales, DispIgualTcb DEF DInv
<1>9. CASE planificar_hilo_creado(c)
  <2> DEFINE p == encola \o <<"contar">>
  <2>1. /\ Recibir(c, "planificar_nuevo_hilo", p, s)
        /\ UNCHANGED <<ready, SYS_CALL, exec, bloq, dic_bloqueados, kms, hilos_join, llamador, TID, disp>>
    BY <1>9 DEF planificar_hilo_creado, colas, tablas
  <2>2. EnOrden(p)
    BY <1>2, ListasEnOrden
  <2> HIDE DEF p
  <2>3. s \in DeUsuario
    BY <2>1, Recibida
  <2> QED
    BY <1>4, <2>1, <2>2, <2>3
<1>10. EnOrden(<<>>) /\ ~ Prepara(<<>>) /\ Nulo \in Tcb
  <2>1. DOMAIN <<>> = {}
    OBVIOUS
  <2>2. ~ Esta(<<>>, "encolar")
    BY <2>1, Zenon DEF Esta
  <2> QED
    BY <1>2, <2>2, ListasEnOrden, TcbNuevos DEF Prepara
<1>11. CASE realizar_join(c)
  <2> DEFINE e == [llamador |-> llamador, tid |-> s.dir.valor]
  <2>1. /\ Recibir(c, "join", <<>>, Nulo) /\ hilos_join' = Append(hilos_join, e)
        /\ UNCHANGED <<ready, SYS_CALL, exec, bloq, dic_bloqueados, kms, llamador, TID, disp>>
    BY <1>11 DEF realizar_join, tablas
  <2>2. TcbHilos' /\ TcbRed'
    BY <1>10, <2>1, RecibeTcb
  <2>3. e \in Espera
    <3>1. s \in Tcb
      BY <2>1, Recibida
    <3> HIDE DEF s
    <3>2. s.dir.valor \in TIDs \cup Recursos \cup {0}
      BY <3>1 DEF Tcb, Llamadas, Usuario
    <3> QED
      BY <1>1, <3>2 DEF TcbColas, Espera
  <2> HIDE DEF e
  <2>4. TcbColas'
    BY <1>1, <2>1, <2>3 DEF TcbColas
  <2> QED
    BY <1>1, <2>1, <2>2, <2>4, DispIgualTcb DEF DInv
<1>12. CASE realizar_bloqueo(c)
  <2> DEFINE i == SelectInSeq(exec, LAMBDA e : e.tid = s.tid)
             v == s.dir.valor
  <2>1. /\ Recibir(c, "bloquear", <<>>, Nulo)
        /\ \/ UNCHANGED <<exec, dic_bloqueados>>
           \/ /\ i # 0 /\ exec' = RemoveAt(exec, i)
              /\ dic_bloqueados' = [dic_bloqueados EXCEPT ![v] = Append(@, exec[i])]
        /\ UNCHANGED <<ready, SYS_CALL, bloq, kms, hilos_join, llamador, TID, disp>>
    BY <1>12 DEF realizar_bloqueo, tablas
  <2>2. TcbHilos' /\ TcbRed'
    BY <1>10, <2>1, RecibeTcb
  <2>3. i \in 0 .. Len(exec)
    <3> DEFINE I == {j \in 1 .. Len(exec) : exec[j].tid = s.tid}
    <3>1. i = ElPrimero(I)
      BY DEF SelectInSeq, ElPrimero
    <3>2. I \in SUBSET (1 .. Len(exec))
      OBVIOUS
    <3> HIDE DEF i, I
    <3> QED
      BY <1>1, <3>1, <3>2, ColaCambia DEF TcbColas
  <2> HIDE DEF i, v, s
  <2>4. exec' \in Seq(Tcb) /\ dic_bloqueados' \in [Recursos -> Seq(Tcb)]
    <3>1. exec \in Seq(Tcb) /\ dic_bloqueados \in [Recursos -> Seq(Tcb)]
      BY <1>1 DEF TcbColas
    <3>2. CASE UNCHANGED <<exec, dic_bloqueados>>
      BY <3>1, <3>2
    <3>3. CASE /\ i # 0 /\ exec' = RemoveAt(exec, i)
               /\ dic_bloqueados' = [dic_bloqueados EXCEPT ![v] = Append(@, exec[i])]
      <4>1. i \in 1 .. Len(exec)
        BY <2>3, <3>1, <3>3
      <4>2. exec[i] \in Tcb /\ RemoveAt(exec, i) \in Seq(Tcb)
        BY <3>1, <4>1, ColaCambia
      <4>3. \A q \in Seq(Tcb) : Append(q, exec[i]) \in Seq(Tcb)
        BY <4>2
      <4> QED
        BY <3>1, <3>3, <4>2, <4>3
    <3> QED
      BY <2>1, <3>2, <3>3
  <2>5. TcbColas'
    BY <1>1, <2>1, <2>4 DEF TcbColas
  <2> QED
    BY <1>1, <2>1, <2>2, <2>5, DispIgualTcb DEF DInv
<1>13. CASE realizar_desbloqueo(c)
  <2> DEFINE v == s.dir.valor
             q == dic_bloqueados[v]
             p == IF q # <<>> /\ ~ Head(q).km THEN encola ELSE <<>>
             r == IF q # <<>> THEN Head(q) ELSE Nulo
  <2>1. /\ Recibir(c, "despertar", p, r)
        /\ dic_bloqueados' = IF q # <<>> THEN [dic_bloqueados EXCEPT ![v] = Tail(@)]
                                         ELSE dic_bloqueados
        /\ kms' = IF q # <<>> /\ Head(q).km THEN Append(kms, tcbKM) ELSE kms
        /\ UNCHANGED <<ready, SYS_CALL, exec, bloq, hilos_join, llamador, TID, disp>>
    BY <1>13 DEF realizar_desbloqueo, tablas
  <2>2. v \in Recursos
    <3> HIDE DEF p, r
    <3> QED
      BY <2>1, Recibida
  <2>3. q \in Seq(Tcb) /\ (q # <<>> => Head(q) \in Tcb /\ Tail(q) \in Seq(Tcb))
    <3>1. q \in Seq(Tcb)
      BY <1>1, <2>2 DEF TcbColas
    <3> HIDE DEF q
    <3> QED
      BY <3>1, ColaCambia
  <2>4. EnOrden(p)
    BY <1>2, ListasEnOrden
  <2>5. r \in Tcb /\ (Prepara(p) => r \in DeUsuario)
    <3> HIDE DEF q
    <3>1. r \in Tcb
      BY <1>10, <2>3
    <3>2. CASE p = <<>>
      BY <1>10, <3>1, <3>2
    <3>3. CASE p # <<>>
      BY <2>3, <3>3 DEF DeUsuario
    <3> QED
      BY <3>1, <3>2, <3>3
  <2> HIDE DEF p, r, v, s
  <2>6. TcbHilos' /\ TcbRed'
    BY <2>1, <2>4, <2>5, RecibeTcb
  <2>7. dic_bloqueados' \in [Recursos -> Seq(Tcb)]
    BY <1>1, <2>1, <2>2, <2>3 DEF TcbColas
  <2>8. kms' \in Seq({tcbKM})
    <3> HIDE DEF q
    <3>1. kms \in Seq({tcbKM}) /\ tcbKM \in {tcbKM}
      BY <1>1 DEF TcbColas
    <3> QED
      BY <2>1, <3>1, ColaCambia
  <2>9. TcbColas'
    BY <1>1, <2>1, <2>7, <2>8 DEF TcbColas
  <2> QED
    BY <1>1, <2>1, <2>6, <2>9, DispIgualTcb DEF DInv
<1>14. CASE producir_entrada_estandar(c)
  <2>1. /\ Recibir(c, "entrada_estandar", <<>>, Nulo)
        /\ UNCHANGED <<ready, SYS_CALL, exec, bloq, dic_bloqueados, kms, hilos_join, llamador, TID, disp>>
    BY <1>14 DEF producir_entrada_estandar, colas, tablas
  <2>2. EnOrden(<<>>)
    BY <1>2, ListasEnOrden
  <2>3. TcbHilos' /\ TcbRed'
    BY <1>10, <2>1, <2>2, RecibeTcb
  <2> QED
    BY <1>1, <2>1, <2>3, ColasIguales, DispIgualTcb DEF DInv
<1> QED
  BY <1>3, <1>5, <1>6, <1>7, <1>8, <1>9, <1>11, <1>12, <1>13, <1>14 DEF RecibirDe

\* A call of h, which keeps its TCB or, when it is one of those that set it, changes it.
LEMMA LlamaTcb ==
  ASSUME DInv, NEW h \in Hilos, NEW x, EnPaso(h, x), NEW f \in Calling, Sigue(h, f),
         f.pasos = hilo[h].pasos,
         x \in Ponen => caida' \/ f.tcb \in DeUsuario,
         x \notin Ponen => f.tcb = hilo[h].tcb
  PROVE  TcbHilos'
<1>1. TcbHilos
  BY DEF DInv
<1> QED
  BY <1>1, HiloAvanza

\* The same, when nothing else changes that DInv is about.
LEMMA LlamaIgual ==
  ASSUME DInv, NEW h \in Hilos, NEW x, EnPaso(h, x), x \notin Ponen, Sigue(h, hilo[h]),
         UNCHANGED <<ready, SYS_CALL, exec, bloq, dic_bloqueados, kms, hilos_join, llamador, TID,
                     disp, turno, respuesta, mensajes>>
  PROVE  DInv'
<1>1. hilo[h] \in Calling
  BY DEF DInv, TcbHilos
<1>2. TcbHilos'
  BY <1>1, LlamaTcb
<1> QED
  BY <1>2, ColasIguales, DispIgualTcb, RedIgual DEF DInv

\* The calls that planificador and loader share.
LEMMA TcbComun ==
  ASSUME DInv, NEW h \in Hilos, Comun(h)
  PROVE  DInv'
<1>1. TcbColas /\ TcbDisp /\ TcbRed /\ TcbHilos /\ hilo[h] \in Calling
  BY DEF DInv, TcbHilos
<1>2. {"sumar", "encolar", "avisar"} \cap Ponen = {}
  BY DEF Ponen
<1>3. CASE SumarTID(h)
  <2> DEFINE f == [hilo[h] EXCEPT !.n = TID + 1]
  <2>1. /\ EnPaso(h, "sumar") /\ Sigue(h, f)
        /\ UNCHANGED <<ready, SYS_CALL, exec, bloq, dic_bloqueados, kms, hilos_join, llamador, TID,
                       disp, turno, respuesta, mensajes>>
    BY <1>3 DEF SumarTID, colas, tablas, redes
  <2>2. f \in Calling /\ f.pasos = hilo[h].pasos /\ f.tcb = hilo[h].tcb
    <3>1. TID + 1 \in Nat
      BY <1>1 DEF TcbColas
    <3> QED
      BY <1>1, <3>1 DEF Calling
  <2> HIDE DEF f
  <2>3. TcbHilos'
    BY <1>2, <2>1, <2>2, LlamaTcb
  <2> QED
    BY <1>1, <2>1, <2>3, ColasIguales, DispIgualTcb, RedIgual DEF DInv
<1>4. CASE MeterEnReady(h)
  <2> DEFINE s == hilo[h].tcb
  <2>1. /\ EnPaso(h, "encolar") /\ Sigue(h, hilo[h]) /\ ready' = Append(ready, s)
        /\ UNCHANGED <<SYS_CALL, exec, bloq, dic_bloqueados, kms, hilos_join, llamador, TID,
                       disp, turno, respuesta, mensajes>>
    BY <1>4 DEF MeterEnReady, tablas, redes
  <2>2. /\ TcbHilos'
        /\ \A y \in Ponen : ~ Esta(hilo[h].pasos, y)
        /\ Esta(hilo[h].pasos, "encolar")
    BY <1>1, <1>2, <2>1, HiloAvanza
  <2>3. s \in DeUsuario
    <3>1. Prepara(hilo[h].pasos) /\ ~ caida
      BY <2>1, <2>2 DEF Prepara, EnPaso
    <3> QED
      BY <1>1, <3>1 DEF TcbHilos, TcbHilo
  <2> HIDE DEF s
  <2>4. TcbColas'
    BY <1>1, <2>1, <2>3 DEF TcbColas
  <2> QED
    BY <1>1, <2>1, <2>2, <2>4, DispIgualTcb, RedIgual DEF DInv
<1>5. CASE Avisar(h)
  BY <1>2, <1>5, LlamaIgual DEF Avisar, colas, tablas, redes
<1> QED
  BY <1>3, <1>4, <1>5 DEF Comun

\* Each call of planificador.
LEMMA TcbPlanificador ==
  ASSUME DInv, Planificador
  PROVE  DInv'
<1> DEFINE h == "planificador"
<1>1. /\ TcbColas /\ TcbDisp /\ TcbRed /\ TcbHilos /\ h \in Hilos /\ hilo[h] \in Calling
      /\ hilo[h] = yo
  BY DEF DInv, TcbHilos, Hilos, yo
<1>2. \A x \in {"responder", "contar", "sacar", "exit", "postKM", "libre", "exec", "post"} :
        x \notin Ponen
  BY DEF Ponen
<1>3. CASE Comun("planificador")
  BY <1>1, <1>3, TcbComun
<1>4. CASE ResponderHilo
  <2> DEFINE t == hiloUsuario(yo.tcb.pid, yo.n)
  <2>1. /\ EnPaso(h, "responder") /\ Sigue(h, hilo[h]) /\ TID' = yo.n
        /\ respuesta' = [respuesta EXCEPT ![yo.id] = Append(@, t)]
        /\ UNCHANGED <<ready, SYS_CALL, exec, bloq, dic_bloqueados, kms, hilos_join, llamador,
                       disp, turno, mensajes>>
    BY <1>4 DEF ResponderHilo, colas, yo
  <2>2. TcbHilos'
    BY <1>1, <1>2, <2>1, LlamaTcb
  <2>3. t \in DeUsuario /\ yo.n \in Nat
    <3>1. yo.tcb.pid \in Nat /\ yo.n \in Nat
      BY <1>1 DEF Calling, Tcb
    <3> QED
      BY <3>1, TcbNuevos
  <2> HIDE DEF t
  <2>4. respuesta' \in [CPUs -> Seq(DeUsuario)]
    <3>1. respuesta \in [CPUs -> Seq(DeUsuario)]
      BY <1>1 DEF TcbRed
    <3>2. \A q \in Seq(DeUsuario) : Append(q, t) \in Seq(DeUsuario)
      BY <2>3
    <3> QED
      BY <2>1, <3>1, <3>2
  <2>5. TcbColas' /\ TcbRed'
    BY <1>1, <2>1, <2>3, <2>4 DEF TcbColas, TcbRed
  <2> QED
    BY <1>1, <2>1, <2>2, <2>5, DispIgualTcb DEF DInv
<1>5. CASE ContarHilo
  BY <1>1, <1>2, <1>5, LlamaIgual DEF ContarHilo, colas, redes
<1>6. CASE SacarDeEjecucion
  <2> DEFINE t == hilo[h].tcb.tid
             I == {j \in 1 .. Len(hilos_join) : hilos_join[j].tid = t}
  <2>1. /\ EnPaso(h, "sacar") /\ Sigue(h, hilo[h])
        /\ hilos_join' = RemoveFirstMatch(hilos_join, LAMBDA j : j.tid = t)
        /\ UNCHANGED <<ready, SYS_CALL, exec, bloq, dic_bloqueados, kms, llamador, TID,
                       disp, turno, respuesta, mensajes>>
    BY <1>6 DEF SacarDeEjecucion, redes
  <2>2. TcbHilos'
    BY <1>1, <1>2, <2>1, LlamaTcb
  <2>3. /\ (\E j \in 1 .. Len(hilos_join) : hilos_join[j].tid = t)
             => I # {} /\ hilos_join' = RemoveAt(hilos_join, ElPrimero(I))
        /\ (~ \E j \in 1 .. Len(hilos_join) : hilos_join[j].tid = t) => hilos_join' = hilos_join
    BY <2>1 DEF RemoveFirstMatch, SelectInSeq, ElPrimero
  <2>4. hilos_join' \in Seq(Espera)
    <3>1. hilos_join \in Seq(Espera) /\ I \in SUBSET (1 .. Len(hilos_join))
      BY <1>1 DEF TcbColas
    <3>2. \A j \in I : j # 0
      BY <3>1
    <3> HIDE DEF I
    <3>3. I # {} => RemoveAt(hilos_join, ElPrimero(I)) \in Seq(Espera)
      BY <3>1, <3>2, ColaCambia
    <3> QED
      BY <2>3, <3>1, <3>3
  <2>5. TcbColas'
    BY <1>1, <2>1, <2>4 DEF TcbColas
  <2> QED
    BY <1>1, <2>1, <2>2, <2>5, DispIgualTcb, RedIgual DEF DInv
<1>7. CASE Exit
  BY <1>1, <1>2, <1>7, LlamaIgual DEF Exit, redes
<1>8. CASE FinKM
  <2> DEFINE t == yo.tcb.tid
             i == SelectInSeq(bloq, LAMBDA b : b.tcb.tid = t)
             f == [yo EXCEPT !.tcb = bloq[i].tcb]
  <2>1. /\ EnPaso(h, "finKM") /\ kms' = Append(kms, tcbKM)
        /\ \/ i = 0 /\ caida' /\ bloq' = bloq /\ Sigue(h, yo)
           \/ i # 0 /\ bloq' = RemoveAt(bloq, i) /\ Sigue(h, f)
        /\ UNCHANGED <<ready, SYS_CALL, exec, dic_bloqueados, hilos_join, llamador, TID,
                       disp, turno, respuesta, mensajes>>
    BY <1>8 DEF FinKM, tablas, redes, yo
  <2>2. i = ElPrimero(Llamadores(t))
    BY DEF SelectInSeq, ElPrimero, Llamadores
  <2>3. i # 0 => i \in 1 .. Len(bloq) /\ bloq[i] \in Bloqueado
    <3> HIDE DEF i, t
    <3> QED
      BY <1>1, <2>2, BuscaBloqueado DEF TcbColas
  <2> HIDE DEF i
  <2>4. i # 0 => f \in Calling /\ f.pasos = yo.pasos /\ f.tcb \in DeUsuario
    <3>1. i # 0 => bloq[i].tcb \in DeUsuario /\ bloq[i].tcb \in Tcb
      BY <2>3, TcbNuevos DEF Bloqueado
    <3> QED
      BY <1>1, <3>1 DEF Calling
  <2>5. TcbHilos'
    <3>1. CASE i = 0
      BY <1>1, <2>1, <3>1, LlamaTcb DEF Ponen
    <3>2. CASE i # 0
      <4> HIDE DEF f
      <4> QED
        BY <1>1, <2>1, <2>4, <3>2, LlamaTcb DEF Ponen
    <3> QED
      BY <3>1, <3>2
  <2> HIDE DEF f
  <2>6. kms' \in Seq({tcbKM}) /\ bloq' \in Seq(Bloqueado)
    <3>1. kms \in Seq({tcbKM}) /\ tcbKM \in {tcbKM} /\ bloq \in Seq(Bloqueado)
      BY <1>1 DEF TcbColas
    <3> QED
      BY <2>1, <2>3, <3>1, ColaCambia
  <2>7. TcbColas'
    BY <1>1, <2>1, <2>6 DEF TcbColas
  <2> QED
    BY <1>1, <2>1, <2>5, <2>7, DispIgualTcb, RedIgual DEF DInv
<1>9. CASE PostKM
  BY <1>1, <1>2, <1>9, LlamaIgual DEF PostKM, colas, tablas, redes
<1>10. CASE LiberarBit
  BY <1>1, <1>2, <1>10, LlamaIgual DEF LiberarBit, colas, redes
<1>11. CASE LiberarExec
  <2> DEFINE t == CPU_list[yo.id].tid
             I == {j \in 1 .. Len(exec) : exec[j].tid = t}
             i == SelectInSeq(exec, LAMBDA e : e.tid = t)
  <2>1. /\ EnPaso(h, "exec") /\ Sigue(h, hilo[h]) /\ LiberarDeExec(i)
        /\ UNCHANGED <<ready, SYS_CALL, bloq, dic_bloqueados, kms, hilos_join, llamador, TID,
                       turno, respuesta, mensajes>>
    BY <1>11 DEF LiberarExec, tablas, redes, yo
  <2>2. i = ElPrimero(I) /\ I \in SUBSET (1 .. Len(exec))
    BY DEF SelectInSeq, ElPrimero
  <2> HIDE DEF i, I
  <2>3. i \in 0 .. Len(exec)
    BY <1>1, <2>2, ColaCambia DEF TcbColas
  <2>4. exec' \in Seq(Tcb) /\ TcbDisp'
    BY <1>1, <2>1, <2>3, LiberadoTcb
  <2>5. TcbHilos'
    BY <1>1, <1>2, <2>1, LlamaTcb
  <2>6. TcbColas'
    BY <1>1, <2>1, <2>4 DEF TcbColas
  <2> QED
    BY <1>1, <2>1, <2>4, <2>5, <2>6, RedIgual DEF DInv
<1>12. CASE LiberarPost
  BY <1>1, <1>2, <1>12, LlamaIgual DEF LiberarPost, colas, tablas, redes
<1> QED
  BY <1>3, <1>4, <1>5, <1>6, <1>7, <1>8, <1>9, <1>10, <1>11, <1>12 DEF Planificador

\* As many removals as loader has counted.
LEMMA RepetidoEnOrden ==
  ASSUME NEW x \in Quietos, NEW n \in Nat
  PROVE  Repetido(x, n) \in Seq(Quietos) /\ \A y : Esta(Repetido(x, n), y) => y = x
<1>1. Repetido(x, n) \in [1 .. n -> Quietos]
  BY DEF Repetido
<1>2. Repetido(x, n) \in Seq(Quietos)
  BY <1>1, IsASeq
<1>3. \A y : Esta(Repetido(x, n), y) => y = x
  BY DEF Repetido, Esta
<1> QED
  BY <1>2, <1>3

\* The threads of a program in a queue are finitely many.
LEMMA CuentaNat ==
  ASSUME NEW S, NEW s \in Seq(S), NEW I \in SUBSET DOMAIN s
  PROVE  Cardinality(I) \in Nat
<1>1. Len(s) \in Nat /\ DOMAIN s = 1 .. Len(s)
  OBVIOUS
<1>2. IsFiniteSet(1 .. Len(s))
  BY <1>1, FS_Interval
<1> QED
  BY <1>1, <1>2, FS_Subset, FS_CardinalityType

\* loader goes on to the calls p, of which none sets or queues a thread.
LEMMA LoaderPasaTcb ==
  ASSUME TcbHilos, ~ caida, NEW p \in Seq(Quietos), ~ Esta(p, "encolar"), LoaderPasa(p)
  PROVE  TcbHilos'
<1> DEFINE r == [hilo["loader"] EXCEPT !.pasos = p]
<1>1. "loader" \in Hilos /\ hilo["loader"] \in Calling
  BY DEF TcbHilos, Hilos
<1>2. EnOrden(p)
  BY EnOrdenFacil
<1>3. r \in Calling /\ r.pasos = p
  BY <1>1, <1>2 DEF Calling, EnOrden
<1>4. hilo' = [hilo EXCEPT !["loader"] = r]
  BY <1>1 DEF LoaderPasa
<1>5. ~ Prepara(r.pasos)
  BY <1>3 DEF Prepara
<1> HIDE DEF r
<1> QED
  BY <1>1, <1>2, <1>3, <1>4, <1>5, HiloToma

\* Each call of loader.
LEMMA TcbLoader ==
  ASSUME DInv, Loader
  PROVE  DInv'
<1> DEFINE h == "loader"
<1>1. /\ TcbColas /\ TcbDisp /\ TcbRed /\ TcbHilos /\ h \in Hilos /\ hilo[h] \in Calling
  BY DEF DInv, TcbHilos, Hilos
<1>2. \A x \in {"esperar", "matarReady", "contarBloq", "matarBloq", "contarSysCall",
               "matarJoin", "contarDic"} : x \notin Ponen /\ x \in Quietos /\ x # "encolar"
  BY DEF Ponen, Quietos, Calls
<1>3. Nulo \in Tcb /\ Nulo \in DeUsuario
  BY TcbNuevos
<1>4. CASE Comun("loader")
  BY <1>1, <1>4, TcbComun
<1>5. ASSUME UNCHANGED <<ready, SYS_CALL, exec, bloq, dic_bloqueados, kms, hilos_join, llamador, TID,
                         disp, turno, respuesta, mensajes>>, TcbHilos'
      PROVE  DInv'
  BY <1>1, <1>5, ColasIguales, DispIgualTcb, RedIgual DEF DInv
<1>6. CASE \E p \in PIDs : RecibirPrograma(p)
  <2> DEFINE q == <<"sumar", "padre">> \o encola
  <2>1. PICK p \in PIDs : RecibirPrograma(p)
    BY <1>6
  <2> DEFINE r == [Reposo EXCEPT !.pasos = q, !.id = p]
  <2>2. /\ hilo' = [hilo EXCEPT ![h] = r] /\ ~ caida
        /\ UNCHANGED <<ready, SYS_CALL, exec, bloq, dic_bloqueados, kms, hilos_join, llamador, TID,
                       disp, turno, respuesta, mensajes>>
    BY <2>1 DEF RecibirPrograma, Libre, colas, redes
  <2>3. EnOrden(q) /\ Esta(q, "padre") /\ q \in Seq(Calls)
    BY ListasEnOrden DEF EnOrden
  <2>4. ~ Prepara(q)
    BY <2>3 DEF Prepara, Ponen
  <2> HIDE DEF q
  <2>5. p \in Nat
    BY KernelAssumption DEF PIDs
  <2>6. r \in Calling /\ r.pasos = q
    BY <1>3, <2>3, <2>5 DEF Reposo, Calling
  <2> HIDE DEF r
  <2>7. TcbHilos'
    BY <1>1, <2>2, <2>3, <2>4, <2>6, HiloToma
  <2> QED
    BY <1>5, <2>2, <2>7
<1>7. CASE \E p \in PIDs : RecibirDesconexion(p)
  <2> DEFINE q == <<"contarReady">>
  <2>1. PICK p \in PIDs : RecibirDesconexion(p)
    BY <1>7
  <2> DEFINE r == [Reposo EXCEPT !.pasos = q, !.id = p]
  <2>2. /\ hilo' = [hilo EXCEPT ![h] = r] \/ hilo' = hilo
        /\ ~ caida
        /\ UNCHANGED <<ready, SYS_CALL, exec, bloq, dic_bloqueados, kms, hilos_join, llamador, TID,
                       disp, turno, respuesta, mensajes, caida>>
    BY <2>1 DEF RecibirDesconexion, Libre, colas, redes
  <2>3. EnOrden(q) /\ q \in Seq(Calls) /\ ~ Prepara(q)
    <3>1. EnOrden(q)
      BY ListasEnOrden, EnOrdenFacil
    <3>2. DOMAIN q = {1} /\ q[1] # "encolar"
      OBVIOUS
    <3> QED
      BY <3>1, <3>2 DEF EnOrden, Prepara, Esta
  <2> HIDE DEF q
  <2>4. p \in Nat
    BY KernelAssumption DEF PIDs
  <2>5. r \in Calling /\ r.pasos = q
    BY <1>3, <2>3, <2>4 DEF Reposo, Calling
  <2> HIDE DEF r
  <2>6. TcbHilos'
    BY <1>1, <2>2, <2>3, <2>5, HiloToma, HilosIguales
  <2> QED
    BY <1>5, <2>2, <2>6
<1>8. CASE CrearPadre
  <2> DEFINE s == hiloUsuario(hilo[h].id, hilo[h].n)
             f == [hilo[h] EXCEPT !.tcb = s]
  <2>1. /\ EnPaso(h, "padre") /\ Sigue(h, f) /\ TID' = hilo[h].n
        /\ UNCHANGED <<ready, SYS_CALL, exec, bloq, dic_bloqueados, kms, hilos_join, llamador,
                       disp, turno, respuesta, mensajes>>
    BY <1>8 DEF CrearPadre, colas, redes
  <2>2. hilo[h].id \in Nat /\ hilo[h].n \in Nat
    BY <1>1 DEF Calling
  <2>3. s \in DeUsuario /\ s \in Tcb
    BY <2>2, TcbNuevos
  <2> HIDE DEF s
  <2>4. f \in Calling /\ f.pasos = hilo[h].pasos /\ f.tcb \in DeUsuario
    BY <1>1, <2>3 DEF Calling
  <2> HIDE DEF f
  <2>5. TcbHilos'
    BY <1>1, <2>1, <2>4, LlamaTcb DEF Ponen
  <2>6. TcbColas'
    BY <1>1, <2>1, <2>2 DEF TcbColas
  <2> QED
    BY <1>1, <2>1, <2>5, <2>6, DispIgualTcb, RedIgual DEF DInv
<1>9. CASE EsperarListo
  BY <1>1, <1>2, <1>9, LlamaIgual DEF EsperarListo, colas, tablas, redes
<1>10. CASE ContarDic
  BY <1>1, <1>2, <1>10, LlamaIgual DEF ContarDic, colas, tablas, redes
<1>11. \A a, b \in Seq(Quietos) : a \o b \in Seq(Quietos)
  BY ConcatProperties
<1>12. ASSUME NEW a \in Seq(Quietos), NEW b \in Seq(Quietos), ~ Esta(a, "encolar"), ~ Esta(b, "encolar")
       PROVE  a \o b \in Seq(Quietos) /\ ~ Esta(a \o b, "encolar")
  <2>1. /\ EnOrden(a) /\ \A x \in Ponen \cup {"postKM"} : ~ Esta(a, x)
        /\ EnOrden(b) /\ \A x \in Ponen \cup {"postKM"} : ~ Esta(b, x)
    BY EnOrdenFacil
  <2> QED
    BY <1>11, <1>12, <2>1, EnOrdenSigue
<1>13. ASSUME NEW x \in {"contarBloq", "contarSysCall", "contarDic"}
       PROVE  <<x>> \in Seq(Quietos) /\ ~ Esta(<<x>>, "encolar")
  <2>1. x \in Quietos /\ x # "encolar"
    BY <1>2
  <2>2. DOMAIN <<x>> = {1} /\ <<x>>[1] = x
    OBVIOUS
  <2> QED
    BY <2>1, <2>2 DEF Esta
<1>14. ASSUME NEW x \in {"matarReady", "matarBloq", "matarJoin"}, NEW n \in Nat,
              NEW y \in {"contarBloq", "contarSysCall", "contarDic"}
       PROVE  Repetido(x, n) \o <<y>> \in Seq(Quietos) /\ ~ Esta(Repetido(x, n) \o <<y>>, "encolar")
  <2>1. x \in Quietos /\ x # "encolar"
    BY <1>2
  <2>2. Repetido(x, n) \in Seq(Quietos) /\ ~ Esta(Repetido(x, n), "encolar")
    BY <2>1, RepetidoEnOrden
  <2> QED
    BY <1>12, <1>13, <2>2
<1>15. CASE ContarReady
  <2> DEFINE n == Cardinality(Propios(ready))
             a == <<"esperar", "esperar">>
             b == Repetido("matarReady", n)
             d == <<"contarBloq">>
  <2>1. /\ LoaderPasa((a \o b) \o d) /\ ~ caida
        /\ UNCHANGED <<ready, SYS_CALL, exec, bloq, dic_bloqueados, kms, hilos_join, llamador, TID,
                       disp, turno, respuesta, mensajes>>
    BY <1>15 DEF ContarReady, EnPaso, colas, tablas, redes
  <2>2. n \in Nat
    <3>1. ready \in Seq(DeUsuario) /\ Propios(ready) \in SUBSET DOMAIN ready
      BY <1>1 DEF TcbColas, Propios
    <3> QED
      BY <3>1, CuentaNat
  <2> HIDE DEF n
  <2>3. a \in Seq(Quietos) /\ ~ Esta(a, "encolar")
    <3>1. "esperar" \in Quietos /\ DOMAIN a = {1, 2} /\ a[1] = "esperar" /\ a[2] = "esperar"
      BY <1>2
    <3> QED
      BY <3>1 DEF Esta
  <2>4. b \in Seq(Quietos) /\ ~ Esta(b, "encolar")
    BY <1>2, <2>2, RepetidoEnOrden
  <2>5. d \in Seq(Quietos) /\ ~ Esta(d, "encolar")
    BY <1>13
  <2> HIDE DEF a, b, d
  <2>6. a \o b \in Seq(Quietos) /\ ~ Esta(a \o b, "encolar")
    BY <1>12, <2>3, <2>4
  <2>7. (a \o b) \o d \in Seq(Quietos) /\ ~ Esta((a \o b) \o d, "encolar")
    BY <1>12, <2>5, <2>6
  <2>8. TcbHilos'
    BY <1>1, <2>1, <2>7, LoaderPasaTcb
  <2> QED
    BY <1>5, <2>1, <2>8
<1>16. CASE ContarBloq
  <2> DEFINE I == {i \in DOMAIN bloq : bloq[i].tcb.pid = hilo["loader"].id}
             n == Cardinality(I)
             q == Repetido("matarBloq", n) \o <<"contarSysCall">>
  <2>1. /\ LoaderPasa(q) /\ ~ caida
        /\ UNCHANGED <<ready, SYS_CALL, exec, bloq, dic_bloqueados, kms, hilos_join, llamador, TID,
                       disp, turno, respuesta, mensajes>>
    BY <1>16 DEF ContarBloq, EnPaso, colas, tablas, redes
  <2>2. n \in Nat
    <3>1. bloq \in Seq(Bloqueado) /\ I \in SUBSET DOMAIN bloq
      BY <1>1 DEF TcbColas
    <3> HIDE DEF I
    <3> QED
      BY <3>1, CuentaNat
  <2> HIDE DEF I, n
  <2>3. q \in Seq(Quietos) /\ ~ Esta(q, "encolar")
    BY <1>14, <2>2
  <2> HIDE DEF q
  <2>4. TcbHilos'
    BY <1>1, <2>1, <2>3, LoaderPasaTcb
  <2> QED
    BY <1>5, <2>1, <2>4
<1>17. CASE ContarSysCall
  <2> DEFINE I == {i \in DOMAIN hilos_join : hilos_join[i].llamador.pid = hilo["loader"].id}
             n == Cardinality(I)
             q == Repetido("matarJoin", n) \o <<"contarDic">>
  <2>1. /\ LoaderPasa(q) /\ ~ caida
        /\ UNCHANGED <<ready, SYS_CALL, exec, bloq, dic_bloqueados, kms, hilos_join, llamador, TID,
                       disp, turno, respuesta, mensajes>>
    BY <1>17 DEF ContarSysCall, EnPaso, colas, tablas, redes
  <2>2. n \in Nat
    <3>1. hilos_join \in Seq(Espera) /\ I \in SUBSET DOMAIN hilos_join
      BY <1>1 DEF TcbColas
    <3> HIDE DEF I
    <3> QED
      BY <3>1, CuentaNat
  <2> HIDE DEF I, n
  <2>3. q \in Seq(Quietos) /\ ~ Esta(q, "encolar")
    BY <1>14, <2>2
  <2> HIDE DEF q
  <2>4. TcbHilos'
    BY <1>1, <2>1, <2>3, LoaderPasaTcb
  <2> QED
    BY <1>5, <2>1, <2>4
<1>18. ASSUME NEW x \in {"matarReady", "matarBloq", "matarJoin"}, EnPaso(h, x), Sigue(h, hilo[h])
       PROVE  TcbHilos'
  BY <1>1, <1>2, <1>18, LlamaTcb
<1>19. CASE MatarReady
  <2> DEFINE I == {j \in 1 .. Len(ready) : ready[j].pid = hilo["loader"].id}
             i == SelectInSeq(ready, LAMBDA s : s.pid = hilo["loader"].id)
  <2>1. /\ EnPaso(h, "matarReady") /\ Sigue(h, hilo[h])
        /\ ready' = ready \/ (i # 0 /\ ready' = RemoveAt(ready, i))
        /\ UNCHANGED <<SYS_CALL, exec, bloq, dic_bloqueados, kms, hilos_join, llamador, TID,
                       disp, turno, respuesta, mensajes>>
    BY <1>19 DEF MatarReady, redes
  <2>2. i = ElPrimero(I) /\ I \in SUBSET (1 .. Len(ready))
    BY DEF SelectInSeq, ElPrimero
  <2> HIDE DEF i, I
  <2>3. ready' \in Seq(DeUsuario)
    BY <1>1, <2>1, <2>2, ColaCambia DEF TcbColas
  <2>4. TcbColas'
    BY <1>1, <2>1, <2>3 DEF TcbColas
  <2> QED
    BY <1>1, <1>18, <2>1, <2>4, DispIgualTcb, RedIgual DEF DInv
<1>20. CASE MatarBloq
  <2> DEFINE I == {j \in 1 .. Len(bloq) : bloq[j].tcb.pid = hilo["loader"].id}
             i == SelectInSeq(bloq, LAMBDA b : b.tcb.pid = hilo["loader"].id)
  <2>1. /\ EnPaso(h, "matarBloq") /\ Sigue(h, hilo[h])
        /\ bloq' = bloq \/ (i # 0 /\ bloq' = RemoveAt(bloq, i))
        /\ UNCHANGED <<ready, SYS_CALL, exec, dic_bloqueados, kms, hilos_join, llamador, TID,
                       disp, turno, respuesta, mensajes>>
    BY <1>20 DEF MatarBloq, redes
  <2>2. i = ElPrimero(I) /\ I \in SUBSET (1 .. Len(bloq))
    BY DEF SelectInSeq, ElPrimero
  <2> HIDE DEF i, I
  <2>3. bloq' \in Seq(Bloqueado)
    BY <1>1, <2>1, <2>2, ColaCambia DEF TcbColas
  <2>4. TcbColas'
    BY <1>1, <2>1, <2>3 DEF TcbColas
  <2> QED
    BY <1>1, <1>18, <2>1, <2>4, DispIgualTcb, RedIgual DEF DInv
<1>21. CASE MatarJoin
  <2> DEFINE I == {j \in 1 .. Len(hilos_join) : hilos_join[j].llamador.pid = hilo["loader"].id}
             i == SelectInSeq(hilos_join, LAMBDA j : j.llamador.pid = hilo["loader"].id)
  <2>1. /\ EnPaso(h, "matarJoin") /\ Sigue(h, hilo[h])
        /\ hilos_join' = hilos_join \/ (i # 0 /\ hilos_join' = RemoveAt(hilos_join, i))
        /\ UNCHANGED <<ready, SYS_CALL, exec, bloq, dic_bloqueados, kms, llamador, TID,
                       disp, turno, respuesta, mensajes>>
    BY <1>21 DEF MatarJoin, redes
  <2>2. i = ElPrimero(I) /\ I \in SUBSET (1 .. Len(hilos_join))
    BY DEF SelectInSeq, ElPrimero
  <2> HIDE DEF i, I
  <2>3. hilos_join' \in Seq(Espera)
    BY <1>1, <2>1, <2>2, ColaCambia DEF TcbColas
  <2>4. TcbColas'
    BY <1>1, <2>1, <2>3 DEF TcbColas
  <2> QED
    BY <1>1, <1>18, <2>1, <2>4, DispIgualTcb, RedIgual DEF DInv
<1>22. CASE \E c \in CPUs : se_produjo_entrada(c)
  <2>1. UNCHANGED <<ready, SYS_CALL, exec, bloq, dic_bloqueados, kms, hilos_join, llamador, TID,
                    disp, turno, respuesta, mensajes, hilo, caida>>
    BY <1>22 DEF se_produjo_entrada, colas, tablas
  <2> QED
    BY <1>1, <1>5, <2>1, HilosIguales
<1> QED
  BY <1>4, <1>6, <1>7, <1>8, <1>9, <1>10, <1>15, <1>16, <1>17, <1>19, <1>20, <1>21, <1>22 DEF Loader

\* Each call of dispatcher.
LEMMA TcbDispatcher ==
  ASSUME DInv, Dispatcher
  PROVE  DInv'
<1>1. TcbColas /\ TcbDisp /\ TcbRed /\ TcbHilos
  BY DEF DInv
<1>2. ASSUME NEW q \in PCs, disp' = [disp EXCEPT !.pc = q],
             UNCHANGED <<ready, SYS_CALL, exec, bloq, dic_bloqueados, kms, hilos_join, llamador, TID,
                         turno, respuesta, mensajes, hilo, caida>>
      PROVE  DInv'
  <2>1. TcbDisp'
    BY <1>1, <1>2 DEF PCs, TcbDisp
  <2> QED
    BY <1>1, <1>2, <2>1, ColasIguales, RedIgual, HilosIguales DEF DInv
<1>3. CASE EsperarProceso("listo1", "cpu") \/ EsperarProceso("listo2", "elegir")
  <2>1. /\ \E q \in PCs : disp' = [disp EXCEPT !.pc = q]
        /\ UNCHANGED <<ready, SYS_CALL, exec, bloq, dic_bloqueados, kms, hilos_join, llamador, TID,
                       turno, respuesta, mensajes, hilo, caida>>
    BY <1>3 DEF PCs, EsperarProceso, colas, tablas, redes
  <2> QED
    BY <1>2, <2>1
<1>4. CASE EsperarCPU
  BY <1>2, <1>4 DEF PCs, EsperarCPU, colas, tablas, redes
<1>5. CASE ElegirSysCall
  BY <1>2, <1>5 DEF PCs, ElegirSysCall, colas, tablas, redes
<1>6. CASE SacarDeReady
  <2>1. /\ \/ ready' = ready /\ disp' = disp
           \/ /\ ready # <<>> /\ ready' = Tail(ready)
              /\ disp' = [disp EXCEPT !.pc = "buscar", !.tcb = Head(ready)]
        /\ ~ caida
        /\ UNCHANGED <<SYS_CALL, exec, bloq, dic_bloqueados, kms, hilos_join, llamador, TID,
                       turno, respuesta, mensajes, hilo>>
    BY <1>6 DEF SacarDeReady, EnPC, tablas, redes
  <2>2. ready \in Seq(DeUsuario)
    BY <1>1 DEF TcbColas
  <2>3. ready # <<>> => Head(ready) \in DeUsuario /\ Head(ready) \in Tcb /\ Tail(ready) \in Seq(DeUsuario)
    BY <2>2, ColaCambia, TcbNuevos
  <2>4. TcbColas'
    BY <1>1, <2>1, <2>3 DEF TcbColas
  <2>5. TcbDisp'
    BY <1>1, <2>1, <2>3 DEF PCs, TcbDisp
  <2> QED
    BY <1>1, <2>1, <2>4, <2>5, RedIgual, HilosIguales DEF DInv
<1>7. CASE AtenderSysCall
  <2> DEFINE s == Head(SYS_CALL)
             t == s.tid
             i == SelectInSeq(bloq, LAMBDA b : b.tcb.tid = t)
             k == [s EXCEPT !.km = TRUE, !.dir = bloq[i].dir]
  <2>1. /\ \/ UNCHANGED <<SYS_CALL, kms, llamador, disp>>
           \/ /\ SYS_CALL # <<>> /\ kms # <<>> /\ i # 0
              /\ SYS_CALL' = Tail(SYS_CALL) /\ kms' = Tail(kms) /\ llamador' = s
              /\ disp' = [disp EXCEPT !.pc = "buscar", !.tcb = k]
        /\ ~ caida
        /\ UNCHANGED <<ready, exec, bloq, dic_bloqueados, hilos_join, TID,
                       turno, respuesta, mensajes, hilo>>
    BY <1>7 DEF AtenderSysCall, EnPC, redes
  <2>2. i = ElPrimero(Llamadores(t))
    BY DEF SelectInSeq, ElPrimero, Llamadores
  <2>3. i # 0 => bloq[i] \in Bloqueado
    <3> HIDE DEF i, t
    <3> QED
      BY <1>1, <2>2, BuscaBloqueado DEF TcbColas
  <2> HIDE DEF i, t
  <2>4. SYS_CALL \in Seq(DeUsuario) /\ kms \in Seq({tcbKM})
    BY <1>1 DEF TcbColas
  <2>5. /\ SYS_CALL # <<>> => s \in Tcb /\ Tail(SYS_CALL) \in Seq(DeUsuario)
        /\ kms # <<>> => Tail(kms) \in Seq({tcbKM})
    BY <2>4, ColaCambia, TcbNuevos
  <2> HIDE DEF s
  <2>6. SYS_CALL # <<>> /\ i # 0 => k \in Tcb
    BY <2>3, <2>5 DEF Tcb, Bloqueado
  <2> HIDE DEF k
  <2>7. TcbColas'
    BY <1>1, <2>1, <2>5 DEF TcbColas
  <2>8. TcbDisp'
    BY <1>1, <2>1, <2>6 DEF PCs, TcbDisp
  <2> QED
    BY <1>1, <2>1, <2>7, <2>8, RedIgual, HilosIguales DEF DInv
<1>8. CASE BuscarCPU
  <2> DEFINE c == Min(Libres)
  <2>1. /\ Libres # {} /\ disp' = [disp EXCEPT !.pc = "exec", !.cpu = c]
        /\ UNCHANGED <<ready, SYS_CALL, exec, bloq, dic_bloqueados, kms, hilos_join, llamador, TID,
                       turno, respuesta, mensajes, hilo, caida>>
    BY <1>8 DEF BuscarCPU, Libres, colas, redes
  <2>2. NumCPU \in Nat /\ Libres \in SUBSET (1 .. NumCPU)
    BY KernelAssumption DEF Libres, CPUs
  <2>3. c \in CPUs
    BY <2>1, <2>2, MinDeIndices DEF CPUs
  <2> HIDE DEF c
  <2>4. TcbDisp'
    BY <1>1, <2>1, <2>3 DEF PCs, TcbDisp
  <2> QED
    BY <1>1, <2>1, <2>4, ColasIguales, RedIgual, HilosIguales DEF DInv
<1>9. CASE AgregarAExec
  <2>1. /\ exec' = Append(exec, disp.tcb) /\ disp' = [disp EXCEPT !.pc = "enviar"]
        /\ UNCHANGED <<ready, SYS_CALL, bloq, dic_bloqueados, kms, hilos_join, llamador, TID,
                       turno, respuesta, mensajes, hilo, caida>>
    BY <1>9 DEF AgregarAExec, tablas, redes
  <2>2. disp.tcb \in Tcb
    BY <1>1 DEF PCs, TcbDisp
  <2>3. exec' \in Seq(Tcb) /\ TcbDisp'
    <3>1. exec \in Seq(Tcb)
      BY <1>1 DEF TcbColas
    <3>2. exec' \in Seq(Tcb)
      BY <2>1, <2>2, <3>1
    <3>3. TcbDisp'
      BY <1>1, <2>1 DEF PCs, TcbDisp
    <3> QED
      BY <3>2, <3>3
  <2>4. TcbColas'
    BY <1>1, <2>1, <2>3 DEF TcbColas
  <2> QED
    BY <1>1, <2>1, <2>3, <2>4, RedIgual, HilosIguales DEF DInv
<1>10. CASE EnviarOrden
  <2>1. /\ turno' = [turno EXCEPT ![disp.cpu] = Append(@, disp.tcb)]
        /\ disp' = [pc |-> "listo1", tcb |-> Nulo, cpu |-> 0]
        /\ UNCHANGED <<ready, SYS_CALL, exec, bloq, dic_bloqueados, kms, hilos_join, llamador, TID,
                       respuesta, mensajes, hilo, caida>>
    BY <1>10 DEF EnviarOrden, colas, tablas
  <2>2. disp.tcb \in Tcb /\ Nulo \in Tcb
    BY <1>1, TcbNuevos DEF PCs, TcbDisp
  <2>3. turno' \in [CPUs -> Seq(Tcb)]
    <3>1. turno \in [CPUs -> Seq(Tcb)]
      BY <1>1 DEF TcbRed
    <3>2. \A q \in Seq(Tcb) : Append(q, disp.tcb) \in Seq(Tcb)
      BY <2>2
    <3> QED
      BY <2>1, <3>1, <3>2
  <2>4. TcbRed' /\ TcbDisp'
    BY <1>1, <2>1, <2>2, <2>3 DEF PCs, TcbRed, TcbDisp
  <2> QED
    BY <1>1, <2>1, <2>4, ColasIguales, HilosIguales DEF DInv
<1> QED
  BY <1>3, <1>4, <1>5, <1>6, <1>7, <1>8, <1>9, <1>10 DEF Dispatcher

\* A message more from the CPU c.
LEMMA MensajeTcb ==
  ASSUME TcbRed, NEW c \in CPUs, NEW op, NEW s, NEW dir, Mensaje(c, op, s, dir),
         [op |-> op, tcb |-> s, dir |-> dir] \in Correo,
         respuesta' \in [CPUs -> Seq(DeUsuario)], turno' \in [CPUs -> Seq(Tcb)]
  PROVE  TcbRed'
<1> DEFINE m == [op |-> op, tcb |-> s, dir |-> dir]
<1>1. mensajes' = [mensajes EXCEPT ![c] = Append(@, m)] /\ m \in Correo
  BY DEF Mensaje
<1> HIDE DEF m
<1>2. mensajes \in [CPUs -> Seq(Correo)]
  BY DEF TcbRed
<1>3. Append(mensajes[c], m) \in Seq(Correo)
  BY <1>1, <1>2
<1> QED
  BY <1>1, <1>2, <1>3 DEF TcbRed

\* Each step of a CPU.
LEMMA TcbCPU ==
  ASSUME DInv, NEW c \in CPUs, CPU(c)
  PROVE  DInv'
<1> DEFINE s == Head(turno[c])
<1>1. TcbColas /\ TcbDisp /\ TcbRed /\ TcbHilos
  BY DEF DInv
<1>2. turno \in [CPUs -> Seq(Tcb)] /\ respuesta \in [CPUs -> Seq(DeUsuario)]
  BY <1>1 DEF TcbRed
<1>3. turno[c] # <<>> => s \in Tcb /\ Tail(turno[c]) \in Seq(Tcb)
  BY <1>2
<1>4. ASSUME NEW op \in Operaciones, NEW dir, Terminar(c, op, dir), turno[c] # <<>>,
             dir \in Llamadas \/ (dir = Usuario /\ op # "interrupcion"),
             op \in {"finaliza_quantum", "interrupcion"} => ~ s.km,
             op \notin {"despertar", "planificar_nuevo_hilo"}
      PROVE  DInv'
  <2>1. /\ Mensaje(c, op, s, dir) /\ turno' = [turno EXCEPT ![c] = Tail(@)]
        /\ UNCHANGED <<ready, SYS_CALL, exec, bloq, dic_bloqueados, kms, hilos_join, llamador, TID,
                       respuesta, disp, hilo, caida>>
    BY <1>4 DEF Terminar, colas, tablas
  <2> HIDE DEF s
  <2>2. [op |-> op, tcb |-> s, dir |-> dir] \in Correo
    BY <1>3, <1>4 DEF Operaciones, Correo, DeUsuario
  <2>3. turno' \in [CPUs -> Seq(Tcb)] /\ respuesta' \in [CPUs -> Seq(DeUsuario)]
    BY <1>2, <1>3, <1>4, <2>1
  <2>4. TcbRed'
    BY <1>1, <2>1, <2>2, <2>3, MensajeTcb
  <2> QED
    BY <1>1, <2>1, <2>4, ColasIguales, DispIgualTcb, HilosIguales DEF DInv
<1>5. CASE TerminarUsuario(c)
  <2>1. turno[c] # <<>> /\ ~ s.km
    BY <1>5 DEF TerminarUsuario, EnModo
  <2>2. \/ Terminar(c, "finaliza_quantum", Usuario)
        \/ \E ll \in Llamadas : Terminar(c, "interrupcion", ll)
        \/ Terminar(c, "finaliza_ejecucion", Usuario)
        \/ Terminar(c, "ejecucion_erronea", Usuario)
    BY <1>5 DEF TerminarUsuario
  <2> HIDE DEF s
  <2>3. CASE Terminar(c, "finaliza_quantum", Usuario)
    BY <1>4, <2>1, <2>3 DEF Operaciones
  <2>4. CASE \E ll \in Llamadas : Terminar(c, "interrupcion", ll)
    BY <1>4, <2>1, <2>4 DEF Operaciones
  <2>5. CASE Terminar(c, "finaliza_ejecucion", Usuario) \/ Terminar(c, "ejecucion_erronea", Usuario)
    BY <1>4, <2>1, <2>5 DEF Operaciones
  <2> QED
    BY <2>2, <2>3, <2>4, <2>5
<1>6. CASE TerminarKM(c)
  <2>1. /\ turno[c] # <<>>
        /\ Terminar(c, "finaliza_ejecucion", Usuario) \/ Terminar(c, "ejecucion_erronea", Usuario)
    BY <1>6 DEF TerminarKM, EnModo
  <2> HIDE DEF s
  <2> QED
    BY <1>4, <2>1 DEF Operaciones
<1>7. CASE LlamarKernel(c)
  <2> DEFINE op == operacion(s.dir)
  <2>1. /\ turno[c] # <<>> /\ Admite(s.dir) /\ Mensaje(c, op, s, Usuario)
        /\ UNCHANGED <<ready, SYS_CALL, exec, bloq, dic_bloqueados, kms, hilos_join, llamador, TID,
                       turno, respuesta, disp, hilo, caida>>
    BY <1>7 DEF LlamarKernel, EnModo, colas, tablas
  <2> HIDE DEF s
  <2>2. /\ op \in {"creacion_hilo", "join", "bloquear", "despertar", "entrada_estandar"}
        /\ op = "despertar" => s.dir.rutina = "wake"
    BY <2>1 DEF Admite, operacion
  <2>3. s \in Tcb
    BY <1>3, <2>1
  <2>4. op = "despertar" => s.dir.valor \in Recursos
    <3>1. s.dir \in Llamadas \/ s.dir = Usuario
      BY <2>3 DEF Tcb
    <3>2. Usuario.rutina # "wake"
      BY DEF Usuario
    <3> QED
      BY <2>2, <3>1, <3>2, TcbNuevos
  <2> HIDE DEF op
  <2>5. [op |-> op, tcb |-> s, dir |-> Usuario] \in Correo
    BY <2>2, <2>3, <2>4 DEF Operaciones, Correo
  <2>6. TcbRed'
    BY <1>1, <1>2, <2>1, <2>5, MensajeTcb
  <2> QED
    BY <1>1, <2>1, <2>6, ColasIguales, DispIgualTcb, HilosIguales DEF DInv
<1>8. CASE PlanificarHilo(c)
  <2> DEFINE r == Head(respuesta[c])
  <2>1. /\ respuesta[c] # <<>> /\ respuesta' = [respuesta EXCEPT ![c] = Tail(@)]
        /\ Mensaje(c, "planificar_nuevo_hilo", r, Usuario) \/ UNCHANGED mensajes
        /\ UNCHANGED <<ready, SYS_CALL, exec, bloq, dic_bloqueados, kms, hilos_join, llamador, TID,
                       turno, disp, hilo, caida>>
    BY <1>8 DEF PlanificarHilo, colas, tablas
  <2>2. r \in DeUsuario /\ Tail(respuesta[c]) \in Seq(DeUsuario) /\ r \in Tcb
    BY <1>2, <2>1, ColaCambia, TcbNuevos
  <2> HIDE DEF r
  <2>3. respuesta' \in [CPUs -> Seq(DeUsuario)] /\ turno' \in [CPUs -> Seq(Tcb)]
    BY <1>2, <2>1, <2>2
  <2>4. [op |-> "planificar_nuevo_hilo", tcb |-> r, dir |-> Usuario] \in Correo
    BY <2>2 DEF Operaciones, Correo
  <2>5. TcbRed'
    <3>1. CASE Mensaje(c, "planificar_nuevo_hilo", r, Usuario)
      BY <1>1, <2>3, <2>4, <3>1, MensajeTcb
    <3>2. CASE UNCHANGED mensajes
      BY <1>1, <2>3, <3>2 DEF TcbRed
    <3> QED
      BY <2>1, <3>1, <3>2
  <2> QED
    BY <1>1, <2>1, <2>5, ColasIguales, DispIgualTcb, HilosIguales DEF DInv
<1> QED
  BY <1>5, <1>6, <1>7, <1>8 DEF CPU

\* The initial states.
LEMMA TcbInicio == Init => DInv
<1> SUFFICES ASSUME Init PROVE DInv
  OBVIOUS
<1>1. Nulo \in Tcb /\ tcbKM \in Tcb
  BY TcbNuevos
<1>2. TcbColas
  BY <1>1 DEF Init, TcbColas
<1>3. TcbDisp
  BY <1>1 DEF PCs, Init, TcbDisp
<1>4. TcbRed
  BY DEF Init, TcbRed
<1>5. Reposo \in Calling
  <2>1. <<>> \in Seq(Calls)
    OBVIOUS
  <2> QED
    BY <1>1, <2>1 DEF Reposo, Calling
<1>6. EnOrden(Reposo.pasos) /\ Reposo.tcb \in DeUsuario
  BY ListasEnOrden, EnOrdenFacil, TcbNuevos DEF Reposo
<1>7. hilo = [h \in Hilos |-> Reposo]
  BY DEF Init
<1>8. TcbHilos
  BY <1>5, <1>6, <1>7 DEF TcbHilos, TcbHilo
<1> QED
  BY <1>2, <1>3, <1>4, <1>8 DEF DInv

\* Every step keeps the types.
LEMMA TcbPaso == DInv /\ [Next]_vars => DInv'
<1> SUFFICES ASSUME DInv, [Next]_vars
             PROVE  DInv'
  OBVIOUS
<1>1. ASSUME UNCHANGED <<ready, SYS_CALL, exec, bloq, dic_bloqueados, kms, hilos_join, llamador, TID,
                         turno, respuesta, mensajes, disp, hilo, caida>>
      PROVE  DInv'
  BY <1>1, ColasIguales, DispIgualTcb, RedIgual, HilosIguales DEF DInv
<1>2. CASE Boot
  BY <1>1, <1>2 DEF Boot, ConectarConsola, ConectarCPU, colas, redes
<1>3. CASE Dispatcher
  BY <1>3, TcbDispatcher
<1>4. CASE Planificador
  BY <1>4, TcbPlanificador
<1>5. CASE Loader
  BY <1>5, TcbLoader
<1>6. CASE \E c \in CPUs : RecibirDe(c) \/ CPU(c)
  BY <1>6, TcbRecibir, TcbCPU
<1>9. CASE \E c \in CPUs : IngresarDatos(c)
  BY <1>1, <1>9 DEF IngresarDatos, colas, tablas
<1>7. CASE \E p \in PIDs : CerrarConsola(p)
  BY <1>1, <1>7 DEF CerrarConsola, colas, redes
<1>8. CASE UNCHANGED vars
  BY <1>1, <1>8 DEF vars, colas, tablas, redes
<1> QED
  BY <1>2, <1>3, <1>4, <1>5, <1>6, <1>7, <1>8, <1>9 DEF Next

-------------------------------------------------------------------------------
(* The kernel thread is in one place *)

\* One of the messages q gives the thread s back.
Vuelve(q, s) == \E i \in Marcas(q) : q[i].tcb = s

\* The CPU c executes the thread s, has an order to do it or has given it back.
Tiene(c, s) == Esta(turno[c], s) \/ Vuelve(mensajes[c], s)

\* Who has the kernel thread: a CPU, dispatcher or, once its turn has ended, planificador.
EnManos == {p \in CPUs \X Tcb : Tiene(p[1], p[2]) /\ p[2].km}
Lleva   == Despacha /\ disp.tcb.km
Anuncia == Esta(yo.pasos, "postKM")
Encuentra == Esta(yo.pasos, "finKM")

UnoSolo ==
  /\ \/ sem_kmDisponible = 1 /\ ~ Lleva /\ ~ Anuncia /\ EnManos = {}
     \/ sem_kmDisponible = 0 /\ Lleva /\ ~ Anuncia /\ EnManos = {}
     \/ sem_kmDisponible = 0 /\ ~ Lleva /\ Anuncia /\ EnManos = {}
     \/ sem_kmDisponible = 0 /\ ~ Lleva /\ ~ Anuncia /\ \E p \in CPUs \X Tcb : EnManos = {p}
  /\ Encuentra => Anuncia
  /\ sem_kmDisponible = 1 \/ (Anuncia /\ ~ Encuentra) => kms # <<>>

\* The Kernel has fallen with the token of the kernel thread taken and nothing done.
Caido == caida /\ ~ Lleva /\ ~ Anuncia /\ ~ Encuentra /\ EnManos = {}

\* A CPU has at most one order or thread given back.
LEMMA UnTurno ==
  ASSUME IInv, NEW c \in CPUs
  PROVE  /\ Len(turno[c]) <= 1
         /\ turno[c] # <<>> => Marcas(mensajes[c]) = {}
         /\ \A i, j \in Marcas(mensajes[c]) : i = j
<1>1. Secuencia(turno[c]) /\ Secuencia(mensajes[c]) /\ Turno(c)
  BY DEF IInv, Tipos, TiposCPU
<1>2. /\ Finales(mensajes[c]) \in Nat /\ IsFiniteSet(Marcas(mensajes[c]))
      /\ Finales(mensajes[c]) = Cardinality(Marcas(mensajes[c]))
  BY <1>1, CuantosNat
<1>3. Len(turno[c]) \in Nat /\ (turno[c] # <<>> => Len(turno[c]) # 0)
  BY <1>1 DEF Secuencia
<1>4. Len(turno[c]) + Finales(mensajes[c]) <= 1
  BY <1>1, <1>2, <1>3 DEF Turno, Uno
<1>5. turno[c] # <<>> => Cardinality(Marcas(mensajes[c])) = 0
  BY <1>2, <1>3, <1>4
<1>6. turno[c] # <<>> => Marcas(mensajes[c]) = {}
  BY <1>2, <1>5, FS_EmptySet
<1>7. ASSUME NEW i \in Marcas(mensajes[c]), NEW j \in Marcas(mensajes[c]), i # j PROVE FALSE
  <2>1. {i, j} \in SUBSET Marcas(mensajes[c])
    BY <1>7
  <2>2. IsFiniteSet({i}) /\ Cardinality({i}) = 1 /\ {i, j} = {i} \cup {j} /\ j \notin {i}
    BY <1>7, FS_Singleton
  <2>3. Cardinality({i, j}) = 2
    <3>1. Cardinality({i} \cup {j}) = Cardinality({i}) + 1
      BY <2>2, FS_AddElement, Zenon
    <3> QED
      BY <2>2, <3>1
  <2>4. Cardinality({i, j}) <= Cardinality(Marcas(mensajes[c]))
    BY <1>2, <2>1, FS_Subset
  <2> QED
    BY <1>2, <1>3, <1>4, <2>3, <2>4
<1> QED
  BY <1>3, <1>4, <1>2, <1>6, <1>7

\* What a longer sequence has.
LEMMA EstaAppend ==
  ASSUME NEW S, NEW q \in Seq(S), NEW e, NEW x
  PROVE  Esta(Append(q, e), x) <=> Esta(q, x) \/ x = e
<1>1. q \in Seq(S \cup {e}) /\ e \in S \cup {e}
  OBVIOUS
<1>2. /\ Len(q) \in Nat /\ DOMAIN q = 1 .. Len(q) /\ DOMAIN Append(q, e) = 1 .. Len(q) + 1
      /\ Append(q, e)[Len(q) + 1] = e /\ \A i \in 1 .. Len(q) : Append(q, e)[i] = q[i]
  BY <1>1
<1>3. /\ Len(q) + 1 \in 1 .. Len(q) + 1
      /\ \A i \in 1 .. Len(q) + 1 : i \in 1 .. Len(q) \/ i = Len(q) + 1
      /\ \A i \in 1 .. Len(q) : i \in 1 .. Len(q) + 1
  BY <1>2
<1> QED
  BY <1>2, <1>3 DEF Esta

\* One more message.
LEMMA MarcasAppend ==
  ASSUME NEW S, NEW q \in Seq(S), NEW m, NEW x
  PROVE  Vuelve(Append(q, m), x) <=> Vuelve(q, x) \/ (esFinal(m) /\ x = m.tcb)
<1> DEFINE a == Append(q, m)
<1>1. q \in Seq(S \cup {m}) /\ m \in S \cup {m}
  OBVIOUS
<1>2. /\ Len(q) \in Nat /\ DOMAIN q = 1 .. Len(q) /\ DOMAIN a = 1 .. Len(q) + 1
      /\ a[Len(q) + 1] = m /\ \A i \in 1 .. Len(q) : a[i] = q[i]
  BY <1>1
<1>3. /\ Len(q) + 1 \in 1 .. Len(q) + 1
      /\ \A i \in 1 .. Len(q) + 1 : i \in 1 .. Len(q) \/ i = Len(q) + 1
      /\ \A i \in 1 .. Len(q) : i \in 1 .. Len(q) + 1
  BY <1>2
<1> HIDE DEF a
<1>4. (\E i \in Marcas(a) : a[i].tcb = x)
        <=> (\E i \in Marcas(q) : q[i].tcb = x) \/ (esFinal(m) /\ x = m.tcb)
  <2>1. ASSUME NEW i \in Marcas(a), a[i].tcb = x
        PROVE  (\E j \in Marcas(q) : q[j].tcb = x) \/ (esFinal(m) /\ x = m.tcb)
    BY <1>2, <1>3, <2>1 DEF Marcas
  <2>2. ASSUME NEW i \in Marcas(q), q[i].tcb = x PROVE i \in Marcas(a) /\ a[i].tcb = x
    BY <1>2, <1>3, <2>2 DEF Marcas
  <2>3. esFinal(m) /\ x = m.tcb => Len(q) + 1 \in Marcas(a) /\ a[Len(q) + 1].tcb = x
    BY <1>2, <1>3 DEF Marcas
  <2> QED
    BY <2>1, <2>2, <2>3
<1> QED
  BY <1>4 DEF a, Vuelve

\* An order more, or a message more, for the CPU d.
LEMMA TieneMas ==
  ASSUME DInv, NEW d \in CPUs, NEW s
  PROVE  /\ (turno' = [turno EXCEPT ![d] = Append(@, s)] /\ UNCHANGED mensajes) =>
              \A c \in CPUs : \A x : Tiene(c, x)' <=> Tiene(c, x) \/ (c = d /\ x = s)
         /\ \A m : (mensajes' = [mensajes EXCEPT ![d] = Append(@, m)] /\ UNCHANGED turno) =>
              \A c \in CPUs : \A x :
                 Tiene(c, x)' <=> Tiene(c, x) \/ (c = d /\ esFinal(m) /\ x = m.tcb)
<1>1. /\ turno \in [CPUs -> Seq(Tcb)] /\ mensajes \in [CPUs -> Seq(Correo)]
  BY DEF DInv, TcbRed
<1>2. ASSUME turno' = [turno EXCEPT ![d] = Append(@, s)], UNCHANGED mensajes,
             NEW c \in CPUs, NEW x
      PROVE  Tiene(c, x)' <=> Tiene(c, x) \/ (c = d /\ x = s)
  <2>1. CASE c # d
    <3>1. turno'[c] = turno[c] /\ mensajes'[c] = mensajes[c]
      BY <1>1, <1>2, <2>1
    <3> QED
      BY <2>1, <3>1 DEF Tiene
  <2>2. CASE c = d
    <3>1. turno'[c] = Append(turno[c], s) /\ mensajes'[c] = mensajes[c] /\ turno[c] \in Seq(Tcb)
      BY <1>1, <1>2, <2>2
    <3>2. Esta(turno'[c], x) <=> Esta(turno[c], x) \/ x = s
      BY <3>1, EstaAppend
    <3> QED
      BY <2>2, <3>1, <3>2 DEF Tiene
  <2> QED
    BY <2>1, <2>2
<1>3. ASSUME NEW m, mensajes' = [mensajes EXCEPT ![d] = Append(@, m)], UNCHANGED turno,
             NEW c \in CPUs, NEW x
      PROVE  Tiene(c, x)' <=> Tiene(c, x) \/ (c = d /\ esFinal(m) /\ x = m.tcb)
  <2>1. CASE c # d
    <3>1. turno'[c] = turno[c] /\ mensajes'[c] = mensajes[c]
      BY <1>1, <1>3, <2>1
    <3> QED
      BY <2>1, <3>1 DEF Tiene
  <2>2. CASE c = d
    <3> DEFINE q == mensajes[c]
    <3>1. turno'[c] = turno[c] /\ mensajes'[c] = Append(q, m) /\ q \in Seq(Correo)
      BY <1>1, <1>3, <2>2
    <3> HIDE DEF q
    <3>2. q \in Seq(Correo)
      BY <3>1
    <3>3. Vuelve(Append(q, m), x) <=> Vuelve(q, x) \/ (esFinal(m) /\ x = m.tcb)
      BY <3>2, MarcasAppend
    <3> QED
      BY <2>2, <3>1, <3>3 DEF Tiene, q
  <2> QED
    BY <2>1, <2>2
<1> QED
  BY <1>2, <1>3

\* What is left of a queue of messages.
LEMMA MarcasTail ==
  ASSUME NEW S, NEW q \in Seq(S), q # <<>>, NEW x
  PROVE  /\ Vuelve(q, x) <=> Vuelve(Tail(q), x) \/ (esFinal(Head(q)) /\ x = Head(q).tcb)
         /\ (\A i, j \in Marcas(q) : i = j) /\ esFinal(Head(q)) => Marcas(Tail(q)) = {}
<1> DEFINE a == Tail(q)
<1>1. /\ Len(q) \in Nat \ {0} /\ DOMAIN q = 1 .. Len(q) /\ DOMAIN a = 1 .. Len(q) - 1
      /\ Head(q) = q[1] /\ \A i \in 1 .. Len(q) - 1 : a[i] = q[i + 1]
  OBVIOUS
<1>2. /\ 1 \in 1 .. Len(q)
      /\ \A i \in 1 .. Len(q) : i = 1 \/ (i - 1 \in 1 .. Len(q) - 1 /\ i = (i - 1) + 1)
      /\ \A i \in 1 .. Len(q) - 1 : i + 1 \in 1 .. Len(q) /\ i + 1 # 1
  BY <1>1
<1> HIDE DEF a
<1>3. ASSUME NEW i \in Marcas(q) PROVE i = 1 \/ (i - 1 \in Marcas(a) /\ a[i - 1] = q[i])
  BY <1>1, <1>2 DEF Marcas
<1>4. ASSUME NEW i \in Marcas(a) PROVE i + 1 \in Marcas(q) /\ q[i + 1] = a[i] /\ i + 1 # 1
  BY <1>1, <1>2 DEF Marcas
<1>5. 1 \in Marcas(q) <=> esFinal(Head(q))
  BY <1>1, <1>2 DEF Marcas
<1>6. (\E i \in Marcas(q) : q[i].tcb = x)
        <=> (\E i \in Marcas(a) : a[i].tcb = x) \/ (esFinal(Head(q)) /\ x = Head(q).tcb)
  <2>1. ASSUME NEW i \in Marcas(q), q[i].tcb = x
        PROVE  (\E j \in Marcas(a) : a[j].tcb = x) \/ (esFinal(Head(q)) /\ x = Head(q).tcb)
    <3>1. CASE i = 1
      BY <1>1, <1>5, <2>1, <3>1
    <3>2. CASE i # 1
      BY <1>3, <2>1, <3>2
    <3> QED
      BY <3>1, <3>2
  <2>2. ASSUME NEW i \in Marcas(a), a[i].tcb = x PROVE \E j \in Marcas(q) : q[j].tcb = x
    BY <1>4, <2>2
  <2>3. esFinal(Head(q)) /\ x = Head(q).tcb => \E j \in Marcas(q) : q[j].tcb = x
    BY <1>1, <1>5
  <2> QED
    BY <2>1, <2>2, <2>3
<1>7. ASSUME \A i, j \in Marcas(q) : i = j, esFinal(Head(q)) PROVE Marcas(a) = {}
  <2>1. ASSUME NEW i \in Marcas(a) PROVE FALSE
    BY <1>4, <1>5, <1>7, <2>1
  <2> QED
    BY <2>1
<1> QED
  BY <1>6, <1>7 DEF a, Vuelve

\* planificador takes a message of the CPU d: the CPU is left with nothing when it gives
\* its thread back.
LEMMA TieneMenos ==
  ASSUME DInv, IInv, NEW d \in CPUs, mensajes[d] # <<>>,
         mensajes' = [mensajes EXCEPT ![d] = Tail(@)], UNCHANGED turno
  PROVE  /\ \A c \in CPUs \ {d} : \A x : Tiene(c, x)' <=> Tiene(c, x)
         /\ ~ esFinal(Head(mensajes[d])) => \A x : Tiene(d, x)' <=> Tiene(d, x)
         /\ esFinal(Head(mensajes[d])) =>
              \A x : /\ ~ Tiene(d, x)'
                     /\ Tiene(d, x) <=> x = Head(mensajes[d]).tcb
<1> DEFINE q == mensajes[d]
<1>1. turno \in [CPUs -> Seq(Tcb)] /\ mensajes \in [CPUs -> Seq(Correo)]
  BY DEF DInv, TcbRed
<1>2. q \in Seq(Correo)
  BY <1>1
<1>3. turno' = turno /\ mensajes'[d] = Tail(q) /\ \A c \in CPUs \ {d} : mensajes'[c] = mensajes[c]
  BY <1>1
<1>4. \A c \in CPUs \ {d} : \A x : Tiene(c, x)' <=> Tiene(c, x)
  BY <1>3 DEF Tiene
<1>5. /\ turno[d] # <<>> => Marcas(q) = {}
      /\ \A i, j \in Marcas(q) : i = j
  BY UnTurno
<1>6. turno[d] = <<>> => DOMAIN turno[d] = {}
  BY <1>1
<1>7. q # <<>>
  OBVIOUS
<1> HIDE DEF q
<1>8. ASSUME NEW x
      PROVE  Vuelve(q, x) <=> Vuelve(Tail(q), x) \/ (esFinal(Head(q)) /\ x = Head(q).tcb)
  BY <1>2, <1>7, MarcasTail
<1>9. /\ esFinal(Head(q)) => Marcas(Tail(q)) = {}
      /\ esFinal(Head(q)) => Marcas(q) # {}
  <2>1. esFinal(Head(q)) => Marcas(Tail(q)) = {}
    BY <1>2, <1>5, <1>7, MarcasTail
  <2>2. esFinal(Head(q)) => Vuelve(q, Head(q).tcb)
    BY <1>8
  <2> QED
    BY <2>1, <2>2 DEF Vuelve
<1>10. ASSUME ~ esFinal(Head(q)), NEW x PROVE Tiene(d, x)' <=> Tiene(d, x)
  <2>1. Vuelve(q, x) <=> Vuelve(Tail(q), x)
    BY <1>8, <1>10
  <2> QED
    BY <1>3, <2>1 DEF Tiene, q
<1>11. ASSUME esFinal(Head(q)), NEW x PROVE ~ Tiene(d, x)' /\ (Tiene(d, x) <=> x = Head(q).tcb)
  <2>1. DOMAIN turno[d] = {} /\ Marcas(Tail(q)) = {}
    BY <1>5, <1>6, <1>9, <1>11
  <2>2. ~ Tiene(d, x)'
    BY <1>3, <2>1 DEF Tiene, Vuelve, Esta
  <2>3. Vuelve(q, x) <=> x = Head(q).tcb
    BY <1>8, <1>11, <2>1 DEF Vuelve
  <2> QED
    BY <2>1, <2>2, <2>3 DEF Tiene, Esta, q
<1> QED
  BY <1>4, <1>10, <1>11 DEF q

\* The turn of the CPU d ends: it has the same thread, on its way back.
LEMMA TieneIgual ==
  ASSUME DInv, IInv, NEW d \in CPUs, turno[d] # <<>>, NEW m, esFinal(m), m.tcb = Head(turno[d]),
         turno' = [turno EXCEPT ![d] = Tail(@)], mensajes' = [mensajes EXCEPT ![d] = Append(@, m)]
  PROVE  \A c \in CPUs : \A x : Tiene(c, x)' <=> Tiene(c, x)
<1> DEFINE q == mensajes[d]
           o == turno[d]
<1>1. turno \in [CPUs -> Seq(Tcb)] /\ mensajes \in [CPUs -> Seq(Correo)]
  BY DEF DInv, TcbRed
<1>2. q \in Seq(Correo) /\ o \in Seq(Tcb) /\ o # <<>>
  BY <1>1
<1>3. /\ turno'[d] = Tail(o) /\ mensajes'[d] = Append(q, m)
      /\ \A c \in CPUs \ {d} : mensajes'[c] = mensajes[c] /\ turno'[c] = turno[c]
  BY <1>1
<1>4. \A c \in CPUs \ {d} : \A x : Tiene(c, x)' <=> Tiene(c, x)
  BY <1>3 DEF Tiene
<1>5. Marcas(q) = {} /\ Len(o) <= 1
  BY UnTurno
<1>6. m.tcb = Head(o)
  OBVIOUS
<1> HIDE DEF q, o
<1>7. Len(o) = 1 /\ DOMAIN o = {1} /\ Head(o) = o[1] /\ DOMAIN Tail(o) = {}
  <2>1. Len(o) \in Nat \ {0} /\ DOMAIN o = 1 .. Len(o) /\ Head(o) = o[1]
    BY <1>2
  <2>2. Len(o) = 1
    BY <1>5, <2>1
  <2>3. DOMAIN Tail(o) = 1 .. Len(o) - 1
    BY <1>2
  <2> QED
    BY <2>1, <2>2, <2>3
<1>8. ASSUME NEW x PROVE Tiene(d, x)' <=> Tiene(d, x)
  <2>1. q \in Seq(Correo)
    BY <1>2
  <2>2. Vuelve(Append(q, m), x) <=> Vuelve(q, x) \/ (esFinal(m) /\ x = m.tcb)
    BY <2>1, MarcasAppend
  <2>3. Tiene(d, x)' <=> x = m.tcb
    BY <1>3, <1>5, <1>7, <2>2 DEF Tiene, Vuelve, Esta
  <2>4. Tiene(d, x) <=> x = o[1]
    BY <1>5, <1>7 DEF Tiene, Vuelve, Esta, o, q
  <2> QED
    BY <1>6, <1>7, <2>3, <2>4
<1> QED
  BY <1>4, <1>8

\* The TID of the call that the kernel thread executes, wherever it is.
EnVuelo(t) ==
  \/ Lleva /\ disp.tcb.tid = t
  \/ \E p \in EnManos : p[2].tid = t
  \/ Encuentra /\ yo.tcb.tid = t

\* What a step may do to the kernel thread: nothing,
KMQuieto ==
  /\ UNCHANGED <<sem_kmDisponible, EnManos>> /\ (kms' = kms \/ kms' # <<>>)
  /\ (Lleva' <=> Lleva) /\ (Lleva => disp'.tcb.tid = disp.tcb.tid)
  /\ (Anuncia' <=> Anuncia) /\ (Encuentra' <=> Encuentra)
  /\ Encuentra => yo'.tcb.tid = yo.tcb.tid
\* or dispatcher takes it for a system call,
KMSale ==
  /\ sem_kmDisponible > 0 /\ sem_kmDisponible' = sem_kmDisponible - 1
  /\ SYS_CALL # <<>> /\ SYS_CALL' = Tail(SYS_CALL)
  /\ Lleva' /\ disp'.tcb.tid = Head(SYS_CALL).tid /\ UNCHANGED <<EnManos, Anuncia, Encuentra, bloq>>
\* and sends it to a CPU,
KMParte ==
  /\ Lleva /\ ~ Lleva' /\ <<disp.cpu, disp.tcb>> \in CPUs \X Tcb
  /\ EnManos' = EnManos \cup {<<disp.cpu, disp.tcb>>}
  /\ UNCHANGED <<sem_kmDisponible, kms, Anuncia, Encuentra, yo, SYS_CALL, bloq>>
\* or planificador takes it from the CPU,
KMVuelve ==
  /\ \E p \in EnManos : EnManos' = EnManos \ {p} /\ yo'.tcb.tid = p[2].tid
  /\ ~ Anuncia /\ ~ Encuentra /\ Anuncia' /\ Encuentra'
  /\ UNCHANGED <<sem_kmDisponible, Lleva, disp, kms, SYS_CALL, bloq>>
\* queues it, when it finds the caller,
KMTermina ==
  /\ Encuentra /\ ~ Encuentra' /\ kms' # <<>>
  /\ UNCHANGED <<sem_kmDisponible, Lleva, disp, EnManos, Anuncia, SYS_CALL>>
  /\ LET i == ElPrimero(Llamadores(yo.tcb.tid)) IN
       bloq' = IF i = 0 THEN bloq ELSE RemoveAt(bloq, i)
\* and says that it is free,
KMAvisa ==
  /\ Anuncia /\ ~ Anuncia' /\ ~ Encuentra /\ ~ Encuentra'
  /\ sem_kmDisponible' = sem_kmDisponible + 1
  /\ UNCHANGED <<kms, Lleva, disp, EnManos, SYS_CALL, bloq>>
\* or the Kernel falls, with the token of the kernel thread taken.
KMCae == caida' /\ sem_kmDisponible > 0 /\ UNCHANGED <<disp, EnManos, yo, SYS_CALL, bloq>>

\* A system call comes.
Llega == \E b : bloq' = Append(bloq, b) /\ b \in Bloqueado /\ SYS_CALL' = Append(SYS_CALL, b.tcb)

\* What each step does.
PasoKM ==
  \/ KMQuieto /\ (UNCHANGED <<SYS_CALL, bloq>> \/ Llega \/ MatarBloq)
  \/ KMSale \/ KMParte \/ KMVuelve \/ KMTermina \/ KMAvisa \/ KMCae

\* The kernel thread goes on being in one place.
LEMMA UnoSoloSigue ==
  ASSUME UnoSolo, PasoKM
  PROVE  UnoSolo' \/ Caido'
<1>1. /\ Lleva \in BOOLEAN /\ Anuncia \in BOOLEAN /\ Encuentra \in BOOLEAN
  BY DEF Lleva, Anuncia, Encuentra, Esta, Despacha
<1>2. CASE KMQuieto
  BY <1>2 DEF KMQuieto, UnoSolo
<1>3. CASE KMSale
  BY <1>3 DEF KMSale, UnoSolo
<1>4. CASE KMParte
  BY <1>4 DEF KMParte, UnoSolo
<1>5. CASE KMVuelve
  BY <1>5 DEF KMVuelve, UnoSolo
<1>6. CASE KMTermina
  BY <1>6 DEF KMTermina, UnoSolo
<1>7. CASE KMAvisa
  BY <1>7 DEF KMAvisa, UnoSolo
<1>8. CASE KMCae
  BY <1>8 DEF KMCae, UnoSolo, Caido, Lleva, Despacha, Anuncia, Encuentra
<1> QED
  BY <1>2, <1>3, <1>4, <1>5, <1>6, <1>7, <1>8 DEF PasoKM

\* What touches neither the CPUs, nor dispatcher, nor planificador.
LEMMA ManosIguales == UNCHANGED <<turno, mensajes>> => EnManos' = EnManos
  BY DEF EnManos, Tiene

\* A step of others than the kernel thread.
LEMMA KMAjeno ==
  ASSUME UNCHANGED <<sem_kmDisponible, kms, disp, turno, mensajes>>, yo' = yo
  PROVE  KMQuieto
  BY ManosIguales DEF KMQuieto, Lleva, Despacha, Anuncia, Encuentra

\* Each call of loader.
LEMMA KMLoader ==
  ASSUME IInv, Loader
  PROVE  PasoKM
<1>1. ASSUME UNCHANGED <<sem_kmDisponible, kms, disp, turno, mensajes>>,
             hilo' = hilo \/ \E f : hilo' = [hilo EXCEPT !["loader"] = f]
      PROVE  KMQuieto
  <2>1. yo' = yo
    BY <1>1 DEF IInv, Tipos, TiposPlan, Hilos, yo
  <2> QED
    BY <1>1, <2>1, KMAjeno
<1>2. CASE \E p \in PIDs : RecibirPrograma(p) \/ RecibirDesconexion(p)
  <2>1. /\ UNCHANGED <<sem_kmDisponible, kms, disp, turno, mensajes, SYS_CALL, bloq>>
        /\ hilo' = hilo \/ \E f : hilo' = [hilo EXCEPT !["loader"] = f]
    BY <1>2 DEF RecibirPrograma, RecibirDesconexion, semaforos, redes, colas
  <2> QED
    BY <1>1, <2>1 DEF PasoKM
<1>3. CASE Comun("loader") \/ CrearPadre \/ EsperarListo
  <2>1. /\ UNCHANGED <<sem_kmDisponible, kms, disp, turno, mensajes, SYS_CALL, bloq>>
        /\ \E f : hilo' = [hilo EXCEPT !["loader"] = f]
    BY <1>3 DEF Comun, SumarTID, MeterEnReady, Avisar, CrearPadre, EsperarListo, Sigue,
                semaforos, tablas, redes, colas
  <2> QED
    BY <1>1, <2>1 DEF PasoKM
<1>4. CASE ContarReady \/ ContarBloq \/ ContarSysCall \/ ContarDic \/ MatarReady \/ MatarJoin
  <2>1. /\ UNCHANGED <<sem_kmDisponible, kms, disp, turno, mensajes, SYS_CALL, bloq>>
        /\ \E f : hilo' = [hilo EXCEPT !["loader"] = f]
    BY <1>4 DEF ContarReady, ContarBloq, ContarSysCall, ContarDic, LoaderPasa, Sigue,
                MatarReady, MatarJoin, semaforos, tablas, redes, colas
  <2> QED
    BY <1>1, <2>1 DEF PasoKM
<1>5. CASE MatarBloq
  <2>1. /\ UNCHANGED <<sem_kmDisponible, kms, disp, turno, mensajes>>
        /\ \E f : hilo' = [hilo EXCEPT !["loader"] = f]
    BY <1>5 DEF MatarBloq, Sigue, semaforos, redes
  <2> QED
    BY <1>1, <1>5, <2>1 DEF PasoKM
<1>6. CASE \E c \in CPUs : se_produjo_entrada(c)
  <2>1. UNCHANGED <<sem_kmDisponible, kms, disp, turno, mensajes, SYS_CALL, bloq, hilo>>
    BY <1>6 DEF se_produjo_entrada, semaforos, colas
  <2> QED
    BY <1>1, <2>1 DEF PasoKM
<1> QED
  BY <1>2, <1>3, <1>4, <1>5, <1>6 DEF Loader

\* Each call of dispatcher.
LEMMA KMDispatcher ==
  ASSUME IInv, DInv, Dispatcher
  PROVE  PasoKM
<1>1. TcbColas /\ TcbDisp /\ TcbRed
  BY DEF DInv
<1>2. ASSUME UNCHANGED <<sem_kmDisponible, kms, turno, mensajes, hilo, SYS_CALL, bloq>>,
             Lleva' <=> Lleva, Lleva => disp'.tcb.tid = disp.tcb.tid
      PROVE  PasoKM
  BY <1>2, ManosIguales DEF PasoKM, KMQuieto, Anuncia, Encuentra, yo
<1>3. CASE EsperarProceso("listo1", "cpu") \/ EsperarProceso("listo2", "elegir") \/ EsperarCPU
             \/ ElegirSysCall
  <2>1. /\ UNCHANGED <<sem_kmDisponible, kms, turno, mensajes, hilo, SYS_CALL, bloq>>
        /\ disp.pc \notin {"buscar", "exec", "enviar"}
        /\ \E q \in PCs \ {"buscar", "exec", "enviar"} : disp' = [disp EXCEPT !.pc = q]
    BY <1>3 DEF PCs, EsperarProceso, EsperarCPU, ElegirSysCall, EnPC, colas, semaforos, tablas, redes
  <2>2. disp'.pc \notin {"buscar", "exec", "enviar"}
    BY <1>1, <2>1 DEF TcbDisp
  <2>3. ~ Lleva /\ ~ Lleva'
    BY <2>1, <2>2 DEF Lleva, Despacha
  <2> QED
    BY <1>2, <2>1, <2>3
<1>4. CASE SacarDeReady
  <2>1. /\ UNCHANGED <<sem_kmDisponible, kms, turno, mensajes, hilo, SYS_CALL, bloq>>
        /\ disp.pc = "elegir"
        /\ \/ disp' = disp
           \/ ready # <<>> /\ disp' = [disp EXCEPT !.pc = "buscar", !.tcb = Head(ready)]
    BY <1>4 DEF SacarDeReady, EnPC, semaforos, tablas, redes
  <2>2. ready # <<>> => Head(ready) \in DeUsuario
    BY <1>1, ColaCambia DEF TcbColas
  <2>3. ~ Lleva /\ ~ Lleva'
    <3>1. ~ Lleva
      BY <2>1 DEF Lleva, Despacha
    <3>2. disp' = disp \/ disp'.tcb \in DeUsuario
      BY <1>1, <2>1, <2>2 DEF TcbDisp
    <3>3. disp' = disp => ~ Lleva'
      BY <3>1 DEF Lleva, Despacha
    <3>4. disp'.tcb \in DeUsuario => ~ Lleva'
      BY DEF Lleva, DeUsuario
    <3> QED
      BY <3>1, <3>2, <3>3, <3>4
  <2> QED
    BY <1>2, <2>1, <2>3
<1>5. CASE AtenderSysCall
  <2> DEFINE s == Head(SYS_CALL)
             i == SelectInSeq(bloq, LAMBDA b : b.tcb.tid = s.tid)
             k == [s EXCEPT !.km = TRUE, !.dir = bloq[i].dir]
  <2>1. /\ sem_kmDisponible > 0 /\ sem_kmDisponible' = sem_kmDisponible - 1
        /\ \/ caida' = TRUE /\ UNCHANGED <<SYS_CALL, disp>>
           \/ /\ SYS_CALL # <<>> /\ kms # <<>> /\ i # 0
              /\ SYS_CALL' = Tail(SYS_CALL)
              /\ disp' = [disp EXCEPT !.pc = "buscar", !.tcb = k]
        /\ UNCHANGED <<bloq, turno, mensajes, hilo>>
    BY <1>5 DEF AtenderSysCall, redes
  <2>2. EnManos' = EnManos /\ yo' = yo /\ Anuncia' = Anuncia /\ Encuentra' = Encuentra
    BY <2>1, ManosIguales DEF Anuncia, Encuentra, yo
  <2> HIDE DEF i
  <2>3. SYS_CALL # <<>> => s \in Tcb
    BY <1>1, ColaCambia, TcbNuevos DEF TcbColas
  <2> HIDE DEF s
  <2>4. s \in Tcb => k.km /\ k.tid = s.tid
    BY DEF Tcb
  <2> HIDE DEF k
  <2>5. CASE caida' = TRUE /\ UNCHANGED <<SYS_CALL, disp>>
    BY <2>1, <2>2, <2>5 DEF PasoKM, KMCae
  <2>6. CASE /\ SYS_CALL # <<>> /\ kms # <<>> /\ i # 0
             /\ SYS_CALL' = Tail(SYS_CALL)
             /\ disp' = [disp EXCEPT !.pc = "buscar", !.tcb = k]
    <3>1. disp'.pc = "buscar" /\ disp'.tcb = k
      BY <1>1, <2>6 DEF TcbDisp
    <3>2. Lleva' /\ disp'.tcb.tid = s.tid
      BY <2>3, <2>4, <2>6, <3>1 DEF Lleva, Despacha
    <3> QED
      BY <2>1, <2>2, <2>6, <3>2 DEF PasoKM, KMSale, s
  <2> QED
    BY <2>1, <2>5, <2>6
<1>6. CASE BuscarCPU \/ AgregarAExec
  <2>1. /\ UNCHANGED <<sem_kmDisponible, kms, turno, mensajes, hilo, SYS_CALL, bloq>>
        /\ disp.pc \in {"buscar", "exec"}
        /\ \E q \in {"exec", "enviar"} : \E c : \/ disp' = [disp EXCEPT !.pc = q, !.cpu = c]
                                                \/ disp' = [disp EXCEPT !.pc = q]
    BY <1>6 DEF BuscarCPU, AgregarAExec, EnPC, colas, semaforos, tablas, redes
  <2>2. disp'.pc \in {"exec", "enviar"} /\ disp'.tcb = disp.tcb
    BY <1>1, <2>1 DEF TcbDisp
  <2>3. Lleva' <=> Lleva
    BY <2>1, <2>2 DEF Lleva, Despacha
  <2> QED
    BY <1>2, <2>1, <2>2, <2>3
<1>7. CASE EnviarOrden
  <2>1. /\ disp.pc = "enviar"
        /\ turno' = [turno EXCEPT ![disp.cpu] = Append(@, disp.tcb)]
        /\ disp' = [pc |-> "listo1", tcb |-> Nulo, cpu |-> 0]
        /\ UNCHANGED <<sem_kmDisponible, kms, SYS_CALL, bloq, mensajes, hilo>>
    BY <1>7 DEF EnviarOrden, EnPC, colas, semaforos, tablas
  <2>2. disp.tcb \in Tcb /\ ~ Lleva' /\ (Lleva <=> disp.tcb.km)
    BY <1>1, <2>1 DEF TcbDisp, Lleva, Despacha
  <2>3. yo' = yo /\ Anuncia' = Anuncia /\ Encuentra' = Encuentra
    BY <2>1 DEF Anuncia, Encuentra, yo
  <2>4. disp.cpu \in CPUs
    BY <2>1 DEF IInv, Tipos, TiposDisp, Orden
  <2>5. \A c \in CPUs : \A x : Tiene(c, x)' <=> Tiene(c, x) \/ (c = disp.cpu /\ x = disp.tcb)
    BY <2>1, <2>4, TieneMas
  <2>6. <<disp.cpu, disp.tcb>> \in CPUs \X Tcb
    BY <2>2, <2>4
  <2>7. ASSUME Lleva PROVE EnManos' = EnManos \cup {<<disp.cpu, disp.tcb>>}
    BY <2>2, <2>5, <2>6, <2>7 DEF EnManos
  <2>8. ASSUME ~ Lleva PROVE EnManos' = EnManos
    BY <2>2, <2>5, <2>8 DEF EnManos
  <2>9. CASE Lleva
    BY <2>1, <2>2, <2>3, <2>6, <2>7, <2>9 DEF PasoKM, KMParte
  <2>10. CASE ~ Lleva
    BY <2>1, <2>2, <2>3, <2>8, <2>10 DEF PasoKM, KMQuieto
  <2> QED
    BY <2>9, <2>10
<1> QED
  BY <1>3, <1>4, <1>5, <1>6, <1>7 DEF Dispatcher

\* Every CPU has what it had.
LEMMA MismasManos ==
  ASSUME \A c \in CPUs : \A x : Tiene(c, x)' <=> Tiene(c, x)
  PROVE  EnManos' = EnManos
  BY DEF EnManos

\* Each step of a CPU.
LEMMA KMCPU ==
  ASSUME IInv, DInv, NEW c \in CPUs, CPU(c)
  PROVE  PasoKM
<1>1. ASSUME EnManos' = EnManos, UNCHANGED <<sem_kmDisponible, kms, disp, hilo, SYS_CALL, bloq>>
      PROVE  PasoKM
  BY <1>1 DEF PasoKM, KMQuieto, Lleva, Despacha, Anuncia, Encuentra, yo
<1>2. CASE TerminarUsuario(c) \/ TerminarKM(c)
  <2>1. /\ turno[c] # <<>>
        /\ \E op \in {"finaliza_quantum", "interrupcion", "finaliza_ejecucion", "ejecucion_erronea"} :
             \E dir : Terminar(c, op, dir)
    BY <1>2 DEF TerminarUsuario, TerminarKM, EnModo
  <2>2. PICK op, dir : /\ Terminar(c, op, dir)
                       /\ op \in {"finaliza_quantum", "interrupcion", "finaliza_ejecucion",
                                  "ejecucion_erronea"}
    BY <2>1
  <2> DEFINE m == [op |-> op, tcb |-> Head(turno[c]), dir |-> dir]
  <2>3. /\ mensajes' = [mensajes EXCEPT ![c] = Append(@, m)]
        /\ turno' = [turno EXCEPT ![c] = Tail(@)]
        /\ UNCHANGED <<sem_kmDisponible, kms, disp, hilo, SYS_CALL, bloq>>
    BY <2>2 DEF Terminar, Mensaje, colas, semaforos
  <2>4. esFinal(m) /\ m.tcb = Head(turno[c])
    BY <2>2 DEF esFinal
  <2> HIDE DEF m
  <2>5. \A d \in CPUs : \A x : Tiene(d, x)' <=> Tiene(d, x)
    BY <2>1, <2>3, <2>4, TieneIgual
  <2> QED
    BY <1>1, <2>3, <2>5, MismasManos
<1>3. CASE LlamarKernel(c) \/ PlanificarHilo(c)
  <2>1. /\ UNCHANGED mensajes \/ \E m : /\ ~ esFinal(m)
                                        /\ mensajes' = [mensajes EXCEPT ![c] = Append(@, m)]
        /\ UNCHANGED <<turno, sem_kmDisponible, kms, disp, hilo, SYS_CALL, bloq>>
    <3>1. ASSUME NEW op \in {"creacion_hilo", "join", "bloquear", "despertar",
                             "entrada_estandar", "planificar_nuevo_hilo"},
                 NEW s, NEW dir, Mensaje(c, op, s, dir)
          PROVE  \E m : /\ ~ esFinal(m)
                        /\ mensajes' = [mensajes EXCEPT ![c] = Append(@, m)]
      <4> DEFINE m == [op |-> op, tcb |-> s, dir |-> dir]
      <4>1. ~ esFinal(m)
        BY DEF esFinal
      <4>2. mensajes' = [mensajes EXCEPT ![c] = Append(@, m)]
        BY <3>1 DEF Mensaje
      <4> HIDE DEF m
      <4> QED
        BY <4>1, <4>2
    <3>2. CASE LlamarKernel(c)
      <4>1. operacion(Head(turno[c]).dir) \in {"creacion_hilo", "join", "bloquear", "despertar",
                                                "entrada_estandar"}
        BY DEF operacion
      <4>2. /\ Mensaje(c, operacion(Head(turno[c]).dir), Head(turno[c]), Usuario)
            /\ UNCHANGED <<turno, sem_kmDisponible, kms, disp, hilo, SYS_CALL, bloq>>
        BY <3>2 DEF LlamarKernel, colas, semaforos
      <4> QED
        BY <3>1, <4>1, <4>2
    <3>3. CASE PlanificarHilo(c)
      <4>1. /\ \/ Mensaje(c, "planificar_nuevo_hilo", Head(respuesta[c]), Usuario)
               \/ UNCHANGED mensajes
            /\ UNCHANGED <<turno, sem_kmDisponible, kms, disp, hilo, SYS_CALL, bloq>>
        BY <3>3 DEF PlanificarHilo, colas, semaforos
      <4> QED
        BY <3>1, <4>1
    <3> QED
      BY <1>3, <3>2, <3>3
  <2>2. \A d \in CPUs : \A x : Tiene(d, x)' <=> Tiene(d, x)
    <3>1. CASE UNCHANGED mensajes
      BY <2>1, <3>1 DEF Tiene
    <3>2. ASSUME NEW m, ~ esFinal(m), mensajes' = [mensajes EXCEPT ![c] = Append(@, m)]
          PROVE  \A d \in CPUs : \A x : Tiene(d, x)' <=> Tiene(d, x)
      BY <2>1, <3>2, TieneMas
    <3> QED
      BY <2>1, <3>1, <3>2
  <2> QED
    BY <1>1, <2>1, <2>2, MismasManos
<1> QED
  BY <1>2, <1>3 DEF CPU

\* Each call of planificador.
LEMMA KMPlanificador ==
  ASSUME IInv, DInv, Planificador
  PROVE  PasoKM
<1> DEFINE h == "planificador"
<1>1. /\ TcbColas /\ TcbDisp /\ TcbRed /\ TcbHilos /\ h \in Hilos /\ hilo[h] \in Calling /\ hilo[h] = yo
  BY DEF DInv, TcbHilos, Hilos, yo
<1> HIDE DEF h
<1>2. ASSUME NEW x, EnPaso(h, x), NEW f \in Calling, Sigue(h, f), f.pasos = yo.pasos,
             x \in Ponen => caida' \/ f.tcb \in DeUsuario,
             x \notin Ponen => f.tcb = yo.tcb
      PROVE  /\ \A y : Esta(yo.pasos, y) <=> x = y \/ Esta(yo'.pasos, y)
             /\ x \in Ponen \cup {"postKM"} => ~ Esta(yo'.pasos, x)
             /\ x \in {"encolar", "postKM"} => \A y \in Ponen : ~ Esta(yo.pasos, y)
             /\ Encuentra' => yo'.tcb = f.tcb
  <2>1. /\ \A y : Esta(hilo[h].pasos, y) <=> x = y \/ Esta(hilo'[h].pasos, y)
        /\ x \in Ponen \cup {"postKM"} => ~ Esta(hilo'[h].pasos, x)
        /\ x \in {"encolar", "postKM"} => \A y \in Ponen : ~ Esta(hilo[h].pasos, y)
        /\ hilo'[h] # Reposo => hilo'[h].tcb = f.tcb
    BY <1>1, <1>2, HiloAvanza
  <2>2. hilo'[h] = yo'
    BY DEF yo, h
  <2>3. yo' = Reposo => ~ Encuentra'
    BY DEF Reposo, Encuentra, Esta
  <2> QED
    BY <1>1, <2>1, <2>2, <2>3
<1>3. ASSUME NEW x, x \notin {"finKM", "postKM", "padre"}, EnPaso(h, x), NEW f \in Calling, Sigue(h, f),
             f.pasos = yo.pasos, f.tcb = yo.tcb,
             UNCHANGED <<sem_kmDisponible, kms, turno, mensajes, SYS_CALL, bloq>>,
             Lleva' <=> Lleva, Lleva => disp'.tcb.tid = disp.tcb.tid
      PROVE  PasoKM
  <2>1. x \notin Ponen
    BY <1>3 DEF Ponen
  <2>2. /\ \A y : Esta(yo.pasos, y) <=> x = y \/ Esta(yo'.pasos, y)
        /\ Encuentra' => yo'.tcb = yo.tcb
    BY <1>2, <1>3, <2>1
  <2>3. (Anuncia' <=> Anuncia) /\ (Encuentra' <=> Encuentra)
    BY <1>3, <2>2 DEF Anuncia, Encuentra
  <2> QED
    BY <1>3, <2>2, <2>3, ManosIguales DEF PasoKM, KMQuieto
<1>4. ASSUME NEW x, x \notin {"finKM", "postKM", "padre"}, EnPaso(h, x), Sigue(h, yo),
             UNCHANGED <<sem_kmDisponible, kms, turno, mensajes, SYS_CALL, bloq, disp>>
      PROVE  PasoKM
  BY <1>1, <1>3, <1>4 DEF Lleva, Despacha
<1>5. CASE Comun(h)
  <2>1. CASE MeterEnReady(h) \/ Avisar(h)
    BY <1>1, <1>4, <2>1 DEF MeterEnReady, Avisar, semaforos, tablas, redes, colas
  <2>2. CASE SumarTID(h)
    <3> DEFINE f == [hilo[h] EXCEPT !.n = TID + 1]
    <3>1. /\ EnPaso(h, "sumar") /\ Sigue(h, f)
          /\ UNCHANGED <<sem_kmDisponible, kms, turno, mensajes, SYS_CALL, bloq, disp>>
      BY <2>2 DEF SumarTID, colas, semaforos, tablas, redes
    <3>2. f \in Calling /\ f.pasos = yo.pasos /\ f.tcb = yo.tcb
      <4>1. TID + 1 \in Nat
        BY <1>1 DEF TcbColas
      <4> QED
        BY <1>1, <4>1 DEF Calling
    <3> HIDE DEF f
    <3> QED
      BY <1>3, <3>1, <3>2 DEF Lleva, Despacha
  <2> QED
    BY <1>5, <2>1, <2>2 DEF Comun
<1>6. CASE ResponderHilo \/ ContarHilo \/ SacarDeEjecucion \/ Exit \/ LiberarBit \/ LiberarPost
  BY <1>4, <1>6 DEF h, yo, ResponderHilo, ContarHilo, SacarDeEjecucion, Exit, LiberarBit, LiberarPost,
                    colas, semaforos, tablas, redes
<1>7. CASE LiberarExec
  <2> DEFINE t == CPU_list[yo.id].tid
             i == SelectInSeq(exec, LAMBDA e : e.tid = t)
             I == {j \in 1 .. Len(exec) : exec[j].tid = t}
  <2>1. /\ EnPaso(h, "exec") /\ Sigue(h, yo) /\ LiberarDeExec(i)
        /\ UNCHANGED <<sem_kmDisponible, kms, turno, mensajes, SYS_CALL, bloq>>
    BY <1>7 DEF h, yo, LiberarExec, semaforos, tablas, redes
  <2>2. i = ElPrimero(I) /\ I \in SUBSET (1 .. Len(exec))
    BY DEF SelectInSeq, ElPrimero
  <2> HIDE DEF i, I
  <2>3. i \in 0 .. Len(exec)
    BY <1>1, <2>2, ColaCambia DEF TcbColas
  <2>4. disp'.pc = disp.pc /\ disp'.tcb.km = disp.tcb.km /\ disp'.tcb.tid = disp.tcb.tid
    BY <1>1, <2>1, <2>3, LiberadoTcb
  <2>5. Lleva' <=> Lleva
    BY <2>4 DEF Lleva, Despacha
  <2> QED
    BY <1>1, <1>3, <2>1, <2>4, <2>5
<1>8. CASE FinKM
  <2> DEFINE i == SelectInSeq(bloq, LAMBDA b : b.tcb.tid = yo.tcb.tid)
             f == IF i = 0 THEN yo ELSE [yo EXCEPT !.tcb = bloq[i].tcb]
  <2>1. /\ EnPaso(h, "finKM") /\ kms' = Append(kms, tcbKM)
        /\ bloq' = IF i = 0 THEN bloq ELSE RemoveAt(bloq, i)
        /\ i = 0 => caida'
        /\ Sigue(h, f)
        /\ UNCHANGED <<sem_kmDisponible, turno, mensajes, SYS_CALL, disp>>
    BY <1>8 DEF FinKM, h, yo, semaforos, tablas, redes
  <2>2. i = ElPrimero(Llamadores(yo.tcb.tid))
    BY DEF SelectInSeq, ElPrimero, Llamadores
  <2>3. i # 0 => bloq[i] \in Bloqueado
    <3> HIDE DEF i
    <3> QED
      BY <1>1, <2>2, BuscaBloqueado DEF TcbColas
  <2> HIDE DEF i
  <2>4. /\ f \in Calling /\ f.pasos = yo.pasos
        /\ caida' \/ f.tcb \in DeUsuario
    <3>1. CASE i = 0
      BY <1>1, <2>1, <3>1
    <3>2. CASE i # 0
      <4>1. bloq[i].tcb \in DeUsuario /\ bloq[i].tcb \in Tcb
        BY <2>3, <3>2, TcbNuevos DEF Bloqueado
      <4>2. f = [yo EXCEPT !.tcb = bloq[i].tcb]
        BY <3>2
      <4> HIDE DEF f
      <4> QED
        BY <1>1, <4>1, <4>2 DEF Calling
    <3> QED
      BY <3>1, <3>2
  <2> HIDE DEF f
  <2>5. "finKM" \in Ponen
    BY DEF Ponen
  <2>6. /\ \A y : Esta(yo.pasos, y) <=> "finKM" = y \/ Esta(yo'.pasos, y)
        /\ ~ Esta(yo'.pasos, "finKM")
    BY <1>2, <2>1, <2>4, <2>5
  <2>7. Encuentra /\ ~ Encuentra' /\ Anuncia' = Anuncia
    BY <2>6 DEF Anuncia, Encuentra, Esta
  <2>8. kms' # <<>>
    <3>1. kms \in Seq({tcbKM})
      BY <1>1 DEF TcbColas
    <3> QED
      BY <2>1, <3>1
  <2>9. EnManos' = EnManos /\ Lleva' = Lleva
    BY <2>1, ManosIguales DEF Lleva, Despacha
  <2> QED
    BY <2>1, <2>2, <2>7, <2>8, <2>9 DEF PasoKM, KMTermina
<1>9. CASE PostKM
  <2>1. /\ EnPaso(h, "postKM") /\ Sigue(h, yo) /\ sem_kmDisponible' = sem_kmDisponible + 1
        /\ UNCHANGED <<kms, turno, mensajes, SYS_CALL, bloq, disp>>
    BY <1>9 DEF PostKM, h, yo, colas, tablas, redes
  <2>2. "postKM" \notin Ponen /\ "finKM" \in Ponen
    BY DEF Ponen
  <2>3. /\ \A y : Esta(yo.pasos, y) <=> "postKM" = y \/ Esta(yo'.pasos, y)
        /\ ~ Esta(yo'.pasos, "postKM") /\ ~ Esta(yo.pasos, "finKM")
    BY <1>1, <1>2, <2>1, <2>2
  <2>4. Anuncia /\ ~ Anuncia' /\ ~ Encuentra /\ ~ Encuentra'
    BY <2>3 DEF Anuncia, Encuentra
  <2>5. EnManos' = EnManos /\ Lleva' = Lleva
    BY <2>1, ManosIguales DEF Lleva, Despacha
  <2> QED
    BY <2>1, <2>4, <2>5 DEF PasoKM, KMAvisa
<1> QED
  BY <1>5, <1>6, <1>7, <1>8, <1>9 DEF Planificador, h

\* What a message of the CPU c changes, of the kernel thread.
LEMMA RecibeKM ==
  ASSUME IInv, DInv, NEW c \in CPUs, NEW op, NEW p, NEW s, Recibir(c, op, p, s)
  PROVE  /\ ~ Anuncia /\ ~ Encuentra /\ yo'.pasos = p /\ (p # <<>> => yo'.tcb = s)
         /\ op \notin {"finaliza_quantum", "finaliza_ejecucion", "ejecucion_erronea", "interrupcion"}
              \/ ~ Recibido(c).km => EnManos' = EnManos
         /\ (op \in {"finaliza_quantum", "finaliza_ejecucion", "ejecucion_erronea", "interrupcion"}
              /\ Recibido(c).km) =>
                /\ <<c, Recibido(c)>> \in EnManos
                /\ EnManos' = EnManos \ {<<c, Recibido(c)>>}
<1> DEFINE m == Head(mensajes[c])
           r == IF p = <<>> THEN Reposo ELSE [pasos |-> p, tcb |-> s, n |-> 0, id |-> c]
<1>1. /\ hilo["planificador"].pasos = <<>> /\ mensajes[c] # <<>> /\ m.op = op
      /\ mensajes' = [mensajes EXCEPT ![c] = Tail(@)] /\ UNCHANGED turno
      /\ hilo' = [hilo EXCEPT !["planificador"] = r]
  BY DEF Recibir, Libre
<1>2. yo' = r
  BY <1>1 DEF IInv, Tipos, TiposPlan, Hilos, yo
<1>3. yo'.pasos = p /\ (p # <<>> => yo'.tcb = s)
  BY <1>2 DEF Reposo
<1>4. yo.pasos = <<>>
  BY <1>1 DEF yo
<1>5. ~ Anuncia /\ ~ Encuentra
  BY <1>4 DEF Anuncia, Encuentra, Esta
<1>6. Recibido(c) = m.tcb /\ m.tcb \in Tcb
  BY Recibida DEF Recibido
<1>7. esFinal(m) <=> op \in {"finaliza_quantum", "finaliza_ejecucion", "ejecucion_erronea",
                             "interrupcion"}
  BY <1>1 DEF esFinal
<1> HIDE DEF m, r
<1>8. /\ \A d \in CPUs \ {c} : \A x : Tiene(d, x)' <=> Tiene(d, x)
      /\ ~ esFinal(m) => \A x : Tiene(c, x)' <=> Tiene(c, x)
      /\ esFinal(m) => \A x : ~ Tiene(c, x)' /\ (Tiene(c, x) <=> x = m.tcb)
  BY <1>1, TieneMenos DEF m
<1>9. ASSUME ~ esFinal(m) PROVE EnManos' = EnManos
  BY <1>8, <1>9, MismasManos
<1>10. ASSUME esFinal(m) PROVE EnManos' = EnManos \ {<<c, m.tcb>>} /\ Tiene(c, m.tcb)
  <2>1. \A d \in CPUs : \A x : Tiene(d, x)' <=> Tiene(d, x) /\ ~ (d = c /\ x = m.tcb)
    BY <1>8, <1>10
  <2>2. ASSUME NEW q \in CPUs \X Tcb
        PROVE  Tiene(q[1], q[2])' <=> Tiene(q[1], q[2]) /\ q # <<c, m.tcb>>
    <3>1. q[1] \in CPUs /\ q = <<q[1], q[2]>>
      OBVIOUS
    <3> QED
      BY <2>1, <3>1
  <2>3. EnManos' = EnManos \ {<<c, m.tcb>>}
    BY <2>2 DEF EnManos
  <2> QED
    BY <1>8, <1>10, <2>3
<1>11. <<c, m.tcb>> \in EnManos <=> Tiene(c, m.tcb) /\ m.tcb.km
  BY <1>6 DEF EnManos
<1>12. ~ m.tcb.km => EnManos \ {<<c, m.tcb>>} = EnManos
  BY <1>11
<1> QED
  BY <1>3, <1>5, <1>6, <1>7, <1>9, <1>10, <1>11, <1>12

\* Each message of a CPU.
LEMMA KMRecibir ==
  ASSUME IInv, DInv, NEW c \in CPUs, RecibirDe(c)
  PROVE  PasoKM
<1> DEFINE s == Recibido(c)
<1>1. TcbColas /\ TcbDisp
  BY DEF DInv
<1>2. \A p \in Seq(Quietos) : ~ Esta(p, "finKM") /\ ~ Esta(p, "postKM")
  BY EnOrdenFacil DEF Ponen
<1>3. ASSUME NEW op, NEW p, NEW r, Recibir(c, op, p, r), p \in Seq(Quietos),
             op \notin {"finaliza_ejecucion", "ejecucion_erronea"},
             op \in {"finaliza_quantum", "interrupcion"} => ~ s.km,
             Lleva' <=> Lleva, Lleva => disp'.tcb.tid = disp.tcb.tid,
             UNCHANGED sem_kmDisponible, kms' = kms \/ kms' # <<>>
      PROVE  KMQuieto
  <2>1. ~ Anuncia /\ ~ Encuentra /\ yo'.pasos = p /\ EnManos' = EnManos
    <3> HIDE DEF s
    <3>1. ~ Anuncia /\ ~ Encuentra /\ yo'.pasos = p
      BY <1>3, RecibeKM
    <3>2. EnManos' = EnManos
      BY <1>3, RecibeKM DEF s
    <3> QED
      BY <3>1, <3>2
  <2>2. ~ Anuncia' /\ ~ Encuentra'
    BY <1>2, <1>3, <2>1 DEF Anuncia, Encuentra
  <2> QED
    BY <1>3, <2>1, <2>2 DEF KMQuieto
<1>4. UNCHANGED disp => (Lleva' <=> Lleva) /\ disp'.tcb.tid = disp.tcb.tid
  BY DEF Lleva, Despacha
<1>5. ASSUME NEW op, NEW p, Recibir(c, op, p, s), op \in {"finaliza_ejecucion", "ejecucion_erronea"},
             Esta(p, "finKM") <=> s.km, Esta(p, "postKM") <=> s.km,
             UNCHANGED <<sem_kmDisponible, kms, disp, SYS_CALL, bloq>>
      PROVE  PasoKM
  <2>1. /\ ~ Anuncia /\ ~ Encuentra /\ yo'.pasos = p /\ (p # <<>> => yo'.tcb = s)
        /\ ~ s.km => EnManos' = EnManos
        /\ s.km => /\ <<c, s>> \in EnManos
                   /\ EnManos' = EnManos \ {<<c, s>>}
    BY <1>5, RecibeKM
  <2> HIDE DEF s
  <2>2. (Anuncia' <=> s.km) /\ (Encuentra' <=> s.km)
    BY <1>5, <2>1 DEF Anuncia, Encuentra
  <2>3. Lleva' = Lleva
    BY <1>5 DEF Lleva, Despacha
  <2>4. CASE s.km
    <3>1. p # <<>>
      <4>1. Esta(p, "finKM")
        BY <1>5, <2>4
      <4> QED
        BY <4>1 DEF Esta
    <3>2. <<c, s>>[2].tid = yo'.tcb.tid
      BY <2>1, <3>1
    <3>3. \E q \in EnManos : EnManos' = EnManos \ {q} /\ yo'.tcb.tid = q[2].tid
      BY <2>1, <2>4, <3>2
    <3> QED
      BY <1>5, <2>1, <2>2, <2>3, <2>4, <3>3 DEF PasoKM, KMVuelve
  <2>5. CASE ~ s.km
    BY <1>4, <1>5, <2>1, <2>2, <2>5 DEF PasoKM, KMQuieto
  <2> QED
    BY <2>4, <2>5
<1>6. CASE finalizo_quantum(c)
  <2> DEFINE i == SelectInSeq(exec, LAMBDA e : e.pid = PID /\ e.tid = TID /\ ~ e.km)
             p == IF s.pid \notin DOMAIN consola_list THEN libera
                  ELSE IF consola_list[s.pid].termino THEN <<"sacar", "exit">> \o libera
                  ELSE encola \o libera
  <2>1. /\ Recibir(c, "finaliza_quantum", p, s)
        /\ UNCHANGED <<exec, disp>> \/ LiberarDeExec(i)
        /\ UNCHANGED <<sem_kmDisponible, SYS_CALL, bloq, kms>>
    BY <1>6 DEF finalizo_quantum, semaforos
  <2>2. p \in Seq(Quietos)
    BY ListasEnOrden
  <2>3. s \in DeUsuario
    <3> HIDE DEF p
    <3> QED
      BY <2>1, Recibida
  <2>4. i \in 0 .. Len(exec)
    <3> DEFINE I == {j \in 1 .. Len(exec) : exec[j].pid = PID /\ exec[j].tid = TID /\ ~ exec[j].km}
    <3>1. i = ElPrimero(I)
      BY DEF SelectInSeq, ElPrimero
    <3>2. I \in SUBSET (1 .. Len(exec))
      OBVIOUS
    <3> HIDE DEF i, I
    <3> QED
      BY <1>1, <3>1, <3>2, ColaCambia DEF TcbColas
  <2> HIDE DEF i, p, s
  <2>5. disp'.pc = disp.pc /\ disp'.tcb.km = disp.tcb.km /\ disp'.tcb.tid = disp.tcb.tid
    BY <1>1, <2>1, <2>4, LiberadoTcb
  <2>6. (Lleva' <=> Lleva) /\ ~ s.km
    BY <2>3, <2>5 DEF Lleva, Despacha, DeUsuario
  <2> QED
    BY <1>3, <2>1, <2>2, <2>5, <2>6 DEF PasoKM
<1>7. CASE finalizo_ejecucion(c)
  <2>1. /\ Esta(finaliza(s) \o libera, "finKM") <=> s.km
        /\ Esta(finaliza(s) \o libera, "postKM") <=> s.km
    BY ListasEnOrden
  <2> QED
    BY <1>5, <1>7, <2>1 DEF finalizo_ejecucion, colas, semaforos
<1>8. CASE ejecucion_erronea(c)
  <2>1. /\ Esta(libera \o finaliza(s), "finKM") <=> s.km
        /\ Esta(libera \o finaliza(s), "postKM") <=> s.km
    BY ListasEnOrden
  <2> QED
    BY <1>5, <1>8, <2>1 DEF ejecucion_erronea, colas, semaforos
<1>9. CASE interrumpir(c)
  <2> DEFINE p == <<"avisar", "avisar">> \o libera
             d == Head(mensajes[c]).dir
             b == [tcb |-> s, dir |-> d]
  <2>1. /\ Recibir(c, "interrupcion", p, s)
        /\ bloq' = Append(bloq, b) /\ SYS_CALL' = Append(SYS_CALL, s)
        /\ UNCHANGED <<sem_kmDisponible, kms, disp>>
    BY <1>9 DEF interrumpir, semaforos, Recibido
  <2>2. p \in Seq(Quietos)
    BY ListasEnOrden
  <2> HIDE DEF p
  <2>3. s \in DeUsuario /\ d \in Llamadas
    BY <2>1, Recibida
  <2>4. b \in Bloqueado /\ b.tcb = s /\ ~ s.km
    BY <2>3 DEF Bloqueado, DeUsuario
  <2> HIDE DEF b, d, s
  <2>5. KMQuieto
    BY <1>3, <1>4, <2>1, <2>2, <2>4
  <2>6. Llega
    BY <2>1, <2>4 DEF Llega
  <2> QED
    BY <2>5, <2>6 DEF PasoKM
<1>10. CASE crear_hilo(c)
  <2>1. \E r : Recibir(c, "creacion_hilo", <<"sumar", "responder">>, r)
    BY <1>10 DEF crear_hilo
  <2>2. UNCHANGED <<sem_kmDisponible, kms, disp, SYS_CALL, bloq>>
    BY <1>10 DEF crear_hilo, colas, semaforos
  <2>3. <<"sumar", "responder">> \in Seq(Quietos)
    BY ListasEnOrden
  <2> HIDE DEF s
  <2> QED
    BY <1>3, <1>4, <2>1, <2>2, <2>3 DEF PasoKM
<1>11. CASE planificar_hilo_creado(c)
  <2>1. /\ Recibir(c, "planificar_nuevo_hilo", encola \o <<"contar">>, s)
        /\ UNCHANGED <<sem_kmDisponible, kms, disp, SYS_CALL, bloq>>
    BY <1>11 DEF planificar_hilo_creado, colas, semaforos
  <2>2. encola \o <<"contar">> \in Seq(Quietos)
    BY ListasEnOrden
  <2> HIDE DEF s
  <2> QED
    BY <1>3, <1>4, <2>1, <2>2 DEF PasoKM
<1>12. CASE realizar_join(c) \/ realizar_bloqueo(c) \/ producir_entrada_estandar(c)
  <2>1. /\ \E op \in {"join", "bloquear", "entrada_estandar"} : Recibir(c, op, <<>>, Nulo)
        /\ UNCHANGED <<sem_kmDisponible, kms, disp, SYS_CALL, bloq>>
    BY <1>12 DEF realizar_join, realizar_bloqueo, producir_entrada_estandar, semaforos, colas
  <2>2. <<>> \in Seq(Quietos)
    BY ListasEnOrden
  <2> HIDE DEF s
  <2> QED
    BY <1>3, <1>4, <2>1, <2>2 DEF PasoKM
<1>13. CASE realizar_desbloqueo(c)
  <2>1. /\ \E p \in {encola, <<>>} : \E r : Recibir(c, "despertar", p, r)
        /\ kms' = kms \/ kms' = Append(kms, tcbKM)
        /\ UNCHANGED <<sem_kmDisponible, disp, SYS_CALL, bloq>>
    BY <1>13 DEF realizar_desbloqueo, semaforos
  <2>2. encola \in Seq(Quietos) /\ <<>> \in Seq(Quietos)
    BY ListasEnOrden
  <2>3. kms' = kms \/ kms' # <<>>
    <3>1. kms \in Seq({tcbKM})
      BY <1>1 DEF TcbColas
    <3> QED
      BY <2>1, <3>1
  <2> HIDE DEF s
  <2> QED
    BY <1>3, <1>4, <2>1, <2>2, <2>3 DEF PasoKM
<1> QED
  BY <1>6, <1>7, <1>8, <1>9, <1>10, <1>11, <1>12, <1>13 DEF RecibirDe

\* Once the Kernel has fallen nothing moves.
LEMMA CaidaParada == Next => ~ caida
<1>1. ASSUME NEW h \in Hilos, NEW x, EnPaso(h, x) PROVE ~ caida
  BY <1>1 DEF EnPaso
<1>2. Planificador => ~ caida
  BY <1>1 DEF Planificador, Comun, SumarTID, MeterEnReady, Avisar, ResponderHilo, ContarHilo,
              SacarDeEjecucion, Exit, FinKM, PostKM, LiberarBit, LiberarExec, LiberarPost, Hilos
<1>3. Loader => ~ caida
  BY <1>1 DEF Loader, RecibirPrograma, RecibirDesconexion, Libre, Comun, SumarTID, MeterEnReady,
              Avisar, CrearPadre, ContarReady, EsperarListo, MatarReady, ContarBloq, MatarBloq,
              ContarSysCall, MatarJoin, ContarDic, se_produjo_entrada, Hilos
<1>4. Dispatcher => ~ caida
  BY DEF Dispatcher, EsperarProceso, EsperarCPU, SacarDeReady, ElegirSysCall, AtenderSysCall,
         BuscarCPU, AgregarAExec, EnviarOrden, EnPC
<1>5. ASSUME NEW c \in CPUs, RecibirDe(c) PROVE ~ caida
  BY <1>5 DEF RecibirDe, finalizo_quantum, finalizo_ejecucion, ejecucion_erronea, interrumpir,
              crear_hilo, planificar_hilo_creado, realizar_join, realizar_bloqueo,
              realizar_desbloqueo, producir_entrada_estandar, Recibir, Libre
<1>6. ASSUME NEW c \in CPUs, CPU(c) PROVE ~ caida
  BY <1>6 DEF CPU, TerminarUsuario, LlamarKernel, PlanificarHilo, TerminarKM, EnModo
<1>7. Boot \/ (\E p \in PIDs : CerrarConsola(p)) \/ (\E c \in CPUs : IngresarDatos(c)) => ~ caida
  BY DEF Boot, ConectarConsola, ConectarCPU, CerrarConsola, IngresarDatos
<1> QED
  BY <1>2, <1>3, <1>4, <1>5, <1>6, <1>7 DEF Next

\* What every step does to the kernel thread.
LEMMA KMPaso ==
  ASSUME IInv, DInv, Next
  PROVE  PasoKM
<1>1. CASE \/ Boot \/ \E p \in PIDs : CerrarConsola(p)
           \/ \E c \in CPUs : IngresarDatos(c)
  <2>1. /\ UNCHANGED <<sem_kmDisponible, kms, disp, turno, mensajes, hilo, SYS_CALL, bloq>>
    BY <1>1 DEF Boot, ConectarConsola, ConectarCPU, CerrarConsola, IngresarDatos, colas, semaforos,
                redes
  <2>2. yo' = yo
    BY <2>1 DEF yo
  <2> QED
    BY <2>1, <2>2, KMAjeno DEF PasoKM
<1> QED
  BY <1>1, KMDispatcher, KMPlanificador, KMLoader, KMRecibir, KMCPU DEF Next

\* The inductive invariant.
KInv == IInv /\ DInv /\ (UnoSolo \/ Caido)

\* The invariant of the kernel thread holds at first
LEMMA KInicio == Init => KInv
<1> SUFFICES ASSUME Init PROVE KInv
  OBVIOUS
<1>1. yo = Reposo /\ disp.pc = "listo1" /\ sem_kmDisponible = 1 /\ kms = <<tcbKM>>
  BY DEF Init, yo, Hilos
<1>2. ~ Lleva /\ ~ Anuncia /\ ~ Encuentra
  BY <1>1 DEF Lleva, Despacha, Anuncia, Encuentra, Reposo, Esta
<1>3. ASSUME NEW p \in CPUs \X Tcb PROVE ~ Tiene(p[1], p[2])
  <2>1. turno[p[1]] = <<>> /\ mensajes[p[1]] = <<>>
    BY DEF Init
  <2> QED
    BY <2>1 DEF Tiene, Esta, Vuelve, Marcas
<1>4. EnManos = {}
  BY <1>3 DEF EnManos
<1>5. UnoSolo
  BY <1>1, <1>2, <1>4 DEF UnoSolo
<1> QED
  BY <1>5, Inicio, TcbInicio DEF KInv

\* and every step keeps it.
LEMMA KPaso == KInv /\ [Next]_vars => KInv'
<1> SUFFICES ASSUME KInv, [Next]_vars PROVE KInv'
  OBVIOUS
<1>1. IInv' /\ DInv'
  BY Paso, TcbPaso DEF KInv
<1>2. CASE Next
  <2>1. UnoSolo
    BY <1>2, CaidaParada DEF KInv, Caido
  <2> QED
    BY <1>1, <1>2, <2>1, KMPaso, UnoSoloSigue DEF KInv
<1>3. CASE UNCHANGED vars
  <2>1. UNCHANGED <<sem_kmDisponible, kms, disp, turno, mensajes, hilo, caida>>
    BY <1>3 DEF vars, colas, semaforos, redes
  <2>2. EnManos' = EnManos
    BY <2>1, ManosIguales
  <2>3. (UnoSolo \/ Caido)'
    BY <2>1, <2>2 DEF KInv, UnoSolo, Caido, Lleva, Despacha, Anuncia, Encuentra, yo
  <2> QED
    BY <1>1, <2>3 DEF KInv
<1> QED
  BY <1>2, <1>3

-------------------------------------------------------------------------------
(* The orders and messages that have the kernel thread, counted *)

OrdenesKM == UNION {{c} \X {i \in DOMAIN turno[c] : turno[c][i].km} : c \in CPUs}
VueltasKM == UNION {{c} \X {i \in DOMAIN mensajes[c] :
                              esFinal(mensajes[c][i]) /\ mensajes[c][i].tcb.km} : c \in CPUs}

\* Those of the system call of t.
OrdenesDe(t) ==
  UNION {{c} \X {i \in DOMAIN turno[c] : turno[c][i].km /\ turno[c][i].tid = t} : c \in CPUs}
VueltasDe(t) ==
  UNION {{c} \X {i \in DOMAIN mensajes[c] :
                   /\ esFinal(mensajes[c][i])
                   /\ mensajes[c][i].tcb.km /\ mensajes[c][i].tcb.tid = t} : c \in CPUs}

\* No order and no message has the kernel thread, or just one does.
LEMMA SoloUna ==
  ASSUME IInv, DInv, NEW A, NEW B, NEW M, M \subseteq EnManos, M = {} \/ \E p \in EnManos : M = {p},
         \A x \in A : /\ x = <<x[1], x[2]>> /\ x[1] \in CPUs /\ x[2] \in DOMAIN turno[x[1]]
                      /\ <<x[1], turno[x[1]][x[2]]>> \in M,
         \A x \in B : /\ x = <<x[1], x[2]>> /\ x[1] \in CPUs /\ x[2] \in Marcas(mensajes[x[1]])
                      /\ <<x[1], mensajes[x[1]][x[2]].tcb>> \in M,
         \A c \in CPUs : \A i \in DOMAIN turno[c] :
           <<c, turno[c][i]>> \in M => <<c, i>> \in A,
         \A c \in CPUs : \A i \in Marcas(mensajes[c]) :
           <<c, mensajes[c][i].tcb>> \in M => <<c, i>> \in B
  PROVE  Cardinality(A) + Cardinality(B) = IF M = {} THEN 0 ELSE 1
<1>1. CASE M = {}
  <2>1. A = {} /\ B = {}
    BY <1>1
  <2> QED
    BY <1>1, <2>1, FS_EmptySet
<1>2. CASE M # {}
  <2>1. PICK p \in EnManos : M = {p}
    BY <1>2
  <2> DEFINE c == p[1]
  <2>2. c \in CPUs /\ p = <<c, p[2]>> /\ Tiene(c, p[2])
    BY <2>1 DEF EnManos
  <2>3. turno[c] \in Seq(Tcb)
    BY <2>2 DEF DInv, TcbRed
  <2>4. /\ Len(turno[c]) <= 1 /\ (turno[c] # <<>> => Marcas(mensajes[c]) = {})
        /\ \A i, j \in Marcas(mensajes[c]) : i = j
    BY <2>2, UnTurno
  <2> HIDE DEF c
  <2>5. \A x \in A : x = <<c, x[2]>> /\ x[2] \in DOMAIN turno[c] /\ turno[c][x[2]] = p[2]
    <3> SUFFICES ASSUME NEW x \in A
                 PROVE  x = <<c, x[2]>> /\ x[2] \in DOMAIN turno[c] /\ turno[c][x[2]] = p[2]
      OBVIOUS
    <3>1. <<x[1], turno[x[1]][x[2]]>> = <<c, p[2]>>
      BY <2>1, <2>2
    <3>2. x[1] = c /\ turno[x[1]][x[2]] = p[2]
      BY <3>1
    <3> QED
      BY <3>2
  <2>6. \A x \in B : x = <<c, x[2]>> /\ x[2] \in Marcas(mensajes[c])
    <3> SUFFICES ASSUME NEW x \in B
                 PROVE  x = <<c, x[2]>> /\ x[2] \in Marcas(mensajes[c])
      OBVIOUS
    <3>1. <<x[1], mensajes[x[1]][x[2]].tcb>> = <<c, p[2]>>
      BY <2>1, <2>2
    <3>2. x[1] = c
      BY <3>1
    <3> QED
      BY <3>2
  <2>7. \A i \in DOMAIN turno[c] : i = 1 /\ turno[c] # <<>>
    BY <2>3, <2>4
  <2>8. CASE Esta(turno[c], p[2])
    <3>1. PICK i \in DOMAIN turno[c] : turno[c][i] = p[2]
      BY <2>8 DEF Esta
    <3>2. <<c, i>> \in A
      BY <2>1, <2>2, <3>1
    <3>3. \A x \in A : x = <<c, i>>
      BY <2>5, <2>7
    <3>4. A = {<<c, i>>}
      BY <3>2, <3>3
    <3>5. B = {}
      BY <2>4, <2>6, <2>7
    <3>6. Cardinality({<<c, i>>}) = 1 /\ Cardinality({}) = 0
      BY FS_EmptySet, FS_Singleton
    <3>7. Cardinality(A) = 1 /\ Cardinality(B) = 0
      BY <3>4, <3>5, <3>6, Zenon
    <3> QED
      BY <1>2, <3>7
  <2>9. CASE Vuelve(mensajes[c], p[2])
    <3>1. PICK i \in Marcas(mensajes[c]) : mensajes[c][i].tcb = p[2]
      BY <2>9 DEF Vuelve
    <3>2. <<c, i>> \in B
      BY <2>1, <2>2, <3>1
    <3>3. \A x \in B : x = <<c, i>>
      BY <2>4, <2>6
    <3>4. B = {<<c, i>>}
      BY <3>2, <3>3
    <3>5. A = {}
      BY <2>4, <2>5, <2>7, <3>1
    <3>6. Cardinality({<<c, i>>}) = 1 /\ Cardinality({}) = 0
      BY FS_EmptySet, FS_Singleton
    <3>7. Cardinality(B) = 1 /\ Cardinality(A) = 0
      BY <3>4, <3>5, <3>6, Zenon
    <3> QED
      BY <1>2, <3>7
  <2> QED
    BY <2>2, <2>8, <2>9 DEF Tiene
<1> QED
  BY <1>1, <1>2

\* Those of the kernel thread, and those of the call of t.
LEMMA CuentaKM ==
  ASSUME IInv, DInv, UnoSolo \/ Caido
  PROVE  /\ EnCPU(LAMBDA s : s.km) = Uno(EnManos # {})
         /\ \A t : Cardinality(OrdenesDe(t)) + Cardinality(VueltasDe(t))
                  = Uno(\E p \in EnManos : p[2].tid = t)
<1>1. EnManos = {} \/ \E p \in CPUs \X Tcb : EnManos = {p}
  BY DEF UnoSolo, Caido
<1>2. turno \in [CPUs -> Seq(Tcb)] /\ mensajes \in [CPUs -> Seq(Correo)]
  BY DEF DInv, TcbRed
<1>3. ASSUME NEW c \in CPUs, NEW i \in DOMAIN turno[c]
      PROVE  <<c, turno[c][i]>> \in EnManos <=> turno[c][i].km
  <2>1. turno[c][i] \in Tcb /\ Esta(turno[c], turno[c][i])
    BY <1>2, <1>3 DEF Esta
  <2> QED
    BY <2>1 DEF EnManos, Tiene
<1>4. ASSUME NEW c \in CPUs, NEW i \in Marcas(mensajes[c])
      PROVE  <<c, mensajes[c][i].tcb>> \in EnManos <=> mensajes[c][i].tcb.km
  <2>1. mensajes[c][i] \in Correo /\ Vuelve(mensajes[c], mensajes[c][i].tcb)
    BY <1>2, <1>4 DEF Vuelve, Marcas
  <2>2. mensajes[c][i].tcb \in Tcb
    BY <2>1 DEF Correo
  <2> QED
    BY <2>1, <2>2 DEF EnManos, Tiene
<1>5. ASSUME NEW c \in CPUs, NEW i
      PROVE  i \in Marcas(mensajes[c]) <=> i \in DOMAIN mensajes[c] /\ esFinal(mensajes[c][i])
  BY DEF Marcas
<1>6. Cardinality(OrdenesKM) + Cardinality(VueltasKM) = IF EnManos = {} THEN 0 ELSE 1
  <2> DEFINE A == OrdenesKM
             B == VueltasKM
  <2>1. \A x \in A : /\ x = <<x[1], x[2]>> /\ x[1] \in CPUs /\ x[2] \in DOMAIN turno[x[1]]
                     /\ <<x[1], turno[x[1]][x[2]]>> \in EnManos
    BY <1>3 DEF OrdenesKM
  <2>2. \A x \in B : /\ x = <<x[1], x[2]>> /\ x[1] \in CPUs /\ x[2] \in Marcas(mensajes[x[1]])
                     /\ <<x[1], mensajes[x[1]][x[2]].tcb>> \in EnManos
    BY <1>4, <1>5 DEF VueltasKM
  <2>3. \A c \in CPUs : \A i \in DOMAIN turno[c] :
          <<c, turno[c][i]>> \in EnManos => <<c, i>> \in A
    BY <1>3 DEF OrdenesKM
  <2>4. \A c \in CPUs : \A i \in Marcas(mensajes[c]) :
          <<c, mensajes[c][i].tcb>> \in EnManos => <<c, i>> \in B
    BY <1>4, <1>5 DEF VueltasKM
  <2>5. EnManos = {} \/ \E p \in EnManos : EnManos = {p}
    BY <1>1
  <2> HIDE DEF A, B
  <2>6. Cardinality(A) + Cardinality(B) = IF EnManos = {} THEN 0 ELSE 1
    BY <2>1, <2>2, <2>3, <2>4, <2>5, SoloUna
  <2> QED
    BY <2>6 DEF A, B
<1>7. ASSUME NEW t
      PROVE  Cardinality(OrdenesDe(t)) + Cardinality(VueltasDe(t))
               = IF \E p \in EnManos : p[2].tid = t THEN 1 ELSE 0
  <2> DEFINE A == OrdenesDe(t)
             B == VueltasDe(t)
             M == {p \in EnManos : p[2].tid = t}
  <2>1. \A x \in A : /\ x = <<x[1], x[2]>> /\ x[1] \in CPUs /\ x[2] \in DOMAIN turno[x[1]]
                     /\ <<x[1], turno[x[1]][x[2]]>> \in M
    BY <1>3 DEF OrdenesDe
  <2>2. \A x \in B : /\ x = <<x[1], x[2]>> /\ x[1] \in CPUs /\ x[2] \in Marcas(mensajes[x[1]])
                     /\ <<x[1], mensajes[x[1]][x[2]].tcb>> \in M
    BY <1>4, <1>5 DEF VueltasDe
  <2>3. \A c \in CPUs : \A i \in DOMAIN turno[c] : <<c, turno[c][i]>> \in M => <<c, i>> \in A
    BY <1>3 DEF OrdenesDe
  <2>4. \A c \in CPUs : \A i \in Marcas(mensajes[c]) :
          <<c, mensajes[c][i].tcb>> \in M => <<c, i>> \in B
    BY <1>4, <1>5 DEF VueltasDe
  <2>5. M \subseteq EnManos /\ (M = {} \/ \E p \in EnManos : M = {p})
    BY <1>1
  <2>6. M = {} <=> ~ \E p \in EnManos : p[2].tid = t
    OBVIOUS
  <2> HIDE DEF A, B, M
  <2>7. Cardinality(A) + Cardinality(B) = IF M = {} THEN 0 ELSE 1
    BY <2>1, <2>2, <2>3, <2>4, <2>5, SoloUna
  <2> QED
    BY <2>6, <2>7 DEF A, B
<1>8. EnCPU(LAMBDA s : s.km) = Cardinality(OrdenesKM) + Cardinality(VueltasKM)
  BY Zenon DEF EnCPU, OrdenesKM, VueltasKM
<1> QED
  BY <1>6, <1>7, <1>8 DEF Uno

-------------------------------------------------------------------------------
\* There is one kernel thread: either the semaphore says that it is free, and it is in its
\* queue, or it is in one place on its way to a CPU, in it, or back from it.  For any number
\* of CPUs and programs and all the system calls, also when the consoles leave.
THEOREM SoloUnKMSiempre == Spec => []SoloUnKM
<1>1. KInv => SoloUnKM
  <2> SUFFICES ASSUME KInv, ~ caida
               PROVE  /\ sem_kmDisponible + Uno(Despacha /\ disp.tcb.km)
                         + Uno(Falta("planificador", "postKM")) + EnCPU(LAMBDA s : s.km) = 1
                      /\ sem_kmDisponible = 1 => kms # <<>>
    BY Zenon DEF SoloUnKM
  <2>1. UnoSolo /\ EnCPU(LAMBDA s : s.km) = Uno(EnManos # {})
    BY CuentaKM DEF KInv, Caido
  <2>2. (Despacha /\ disp.tcb.km <=> Lleva) /\ (Falta("planificador", "postKM") <=> Anuncia)
    BY DEF Lleva, Falta, Anuncia, Esta, yo
  <2> DEFINE e == EnCPU(LAMBDA s : s.km)
  <2>3. e = Uno(EnManos # {})
    BY <2>1
  <2> HIDE DEF e
  <2>4. sem_kmDisponible + Uno(Lleva) + Uno(Anuncia) + e = 1
    BY <2>1, <2>3 DEF UnoSolo, Uno
  <2>5. /\ Uno(Despacha /\ disp.tcb.km) = Uno(Lleva)
        /\ Uno(Falta("planificador", "postKM")) = Uno(Anuncia)
    BY <2>2 DEF Uno
  <2>6. sem_kmDisponible + Uno(Despacha /\ disp.tcb.km) + Uno(Falta("planificador", "postKM")) + e = 1
    BY <2>4, <2>5
  <2> QED
    BY <2>1, <2>6 DEF e, UnoSolo
<1> QED
  BY KInicio, KPaso, <1>1, PTL DEF Spec

-------------------------------------------------------------------------------
(* The callers that wait in block.prioridad_1 *)

\* Where in the sequence s the elements of S are.
Puestos(s, S) == {i \in DOMAIN s : s[i] \in S}

\* They can be counted.
LEMMA PuestosNat ==
  ASSUME NEW T, NEW s \in Seq(T), NEW S
  PROVE  IsFiniteSet(Puestos(s, S)) /\ Cardinality(Puestos(s, S)) \in Nat
<1>1. Len(s) \in Nat /\ DOMAIN s = 1 .. Len(s)
  OBVIOUS
<1>2. Puestos(s, S) \in SUBSET (1 .. Len(s)) /\ IsFiniteSet(1 .. Len(s))
  BY <1>1, FS_Interval DEF Puestos
<1> QED
  BY <1>2, FS_Subset, FS_CardinalityType

\* One more at the end.
LEMMA PuestosMas ==
  ASSUME NEW T, NEW s \in Seq(T), NEW S, NEW e \in T
  PROVE  Cardinality(Puestos(Append(s, e), S)) = Cardinality(Puestos(s, S)) + Uno(e \in S)
<1> DEFINE a == Append(s, e)
<1>1. /\ Len(s) \in Nat /\ DOMAIN s = 1 .. Len(s) /\ DOMAIN a = 1 .. Len(s) + 1
      /\ a[Len(s) + 1] = e /\ \A i \in 1 .. Len(s) : a[i] = s[i]
  OBVIOUS
<1> HIDE DEF a
<1>2. /\ \A i \in 1 .. Len(s) + 1 : i \in 1 .. Len(s) \/ i = Len(s) + 1
      /\ Len(s) + 1 \in 1 .. Len(s) + 1 /\ Len(s) + 1 \notin 1 .. Len(s)
      /\ \A i \in 1 .. Len(s) : i \in 1 .. Len(s) + 1
  BY <1>1
<1>3. IsFiniteSet(Puestos(s, S)) /\ Cardinality(Puestos(s, S)) \in Nat
  BY PuestosNat
<1>4. CASE e \in S
  <2>1. Puestos(a, S) = Puestos(s, S) \cup {Len(s) + 1} /\ Len(s) + 1 \notin Puestos(s, S)
    BY <1>1, <1>2, <1>4 DEF Puestos
  <2>2. Cardinality(Puestos(a, S)) = Cardinality(Puestos(s, S)) + 1
    BY <1>3, <2>1, FS_AddElement
  <2> QED
    BY <1>4, <2>2 DEF Uno, a
<1>5. CASE e \notin S
  <2>1. Puestos(a, S) = Puestos(s, S)
    BY <1>1, <1>2, <1>5 DEF Puestos
  <2> QED
    BY <1>3, <1>5, <2>1 DEF Uno, a
<1> QED
  BY <1>4, <1>5

\* One less, which was at i.
LEMMA PuestosMenos ==
  ASSUME NEW T, NEW s \in Seq(T), NEW S, NEW i \in 1 .. Len(s), NEW t \in Seq(T),
         Len(t) = Len(s) - 1,
         \A j \in 1 .. Len(s) - 1 : t[j] = IF j < i THEN s[j] ELSE s[j + 1]
  PROVE  Cardinality(Puestos(s, S)) = Cardinality(Puestos(t, S)) + Uno(s[i] \in S)
<1> DEFINE A == Puestos(t, S)
           B == Puestos(s, S) \ {i}
           f == [j \in A |-> IF j < i THEN j ELSE j + 1]
<1>1. /\ Len(s) \in Nat /\ i \in Nat /\ DOMAIN s = 1 .. Len(s) /\ DOMAIN t = 1 .. Len(s) - 1
  OBVIOUS
<1>2. IsFiniteSet(Puestos(s, S)) /\ Cardinality(Puestos(s, S)) \in Nat /\ IsFiniteSet(A)
      /\ Cardinality(A) \in Nat
  BY PuestosNat
<1>3. \A j \in A : j \in 1 .. Len(s) - 1 /\ t[j] \in S
  BY <1>1 DEF Puestos
<1>4. \A j \in B : j \in 1 .. Len(s) /\ j # i /\ s[j] \in S
  BY <1>1 DEF Puestos
<1>5. ASSUME NEW j \in A PROVE f[j] \in B
  <2>1. f[j] = IF j < i THEN j ELSE j + 1
    OBVIOUS
  <2> HIDE DEF f
  <2>2. f[j] \in 1 .. Len(s) /\ f[j] # i /\ s[f[j]] = t[j]
    BY <1>1, <1>3, <2>1
  <2> QED
    BY <1>1, <1>3, <2>2 DEF Puestos
<1>6. \A j, k \in A : f[j] = f[k] => j = k
  BY <1>1, <1>3
<1>7. ASSUME NEW j \in B PROVE \E k \in A : f[k] = j
  <2> DEFINE k == IF j < i THEN j ELSE j - 1
  <2>1. k \in 1 .. Len(s) - 1 /\ t[k] = s[j] /\ j = IF k < i THEN k ELSE k + 1
    BY <1>1, <1>4
  <2> HIDE DEF k
  <2>2. k \in A
    BY <1>1, <1>4, <2>1 DEF Puestos
  <2> QED
    BY <2>1, <2>2
<1> HIDE DEF f
<1>8. f \in [A -> B]
  BY <1>5 DEF f
<1>9. f \in Bijection(A, B)
  BY <1>6, <1>7, <1>8, Zenon DEF Bijection, Injection, Surjection, IsInjective
<1>10. Cardinality(B) = Cardinality(A)
  BY <1>2, <1>9, FS_Bijection DEF ExistsBijection
<1>11. i \in Puestos(s, S) <=> s[i] \in S
  BY <1>1 DEF Puestos
<1>12. Cardinality(B) = IF i \in Puestos(s, S) THEN Cardinality(Puestos(s, S)) - 1
                                                ELSE Cardinality(Puestos(s, S))
  BY <1>2, FS_RemoveElement
<1> HIDE DEF A, B
<1>13. Cardinality(Puestos(s, S)) = Cardinality(A) + Uno(s[i] \in S)
  BY <1>2, <1>10, <1>11, <1>12 DEF Uno
<1> QED
  BY <1>13 DEF A

\* The first one goes.
LEMMA PuestosTail ==
  ASSUME NEW T, NEW s \in Seq(T), s # <<>>, NEW S
  PROVE  Cardinality(Puestos(s, S)) = Cardinality(Puestos(Tail(s), S)) + Uno(Head(s) \in S)
<1>1. /\ Tail(s) \in Seq(T) /\ Len(Tail(s)) = Len(s) - 1 /\ Head(s) = s[1] /\ 1 \in 1 .. Len(s)
      /\ \A j \in 1 .. Len(s) - 1 : Tail(s)[j] = IF j < 1 THEN s[j] ELSE s[j + 1]
  OBVIOUS
<1> DEFINE t == Tail(s)
           e == Head(s)
<1>2. /\ t \in Seq(T) /\ Len(t) = Len(s) - 1 /\ e = s[1] /\ 1 \in 1 .. Len(s)
      /\ \A j \in 1 .. Len(s) - 1 : t[j] = IF j < 1 THEN s[j] ELSE s[j + 1]
  BY <1>1
<1> HIDE DEF t, e
<1>3. Cardinality(Puestos(s, S)) = Cardinality(Puestos(t, S)) + Uno(s[1] \in S)
  BY <1>2, PuestosMenos
<1> QED
  BY <1>2, <1>3 DEF t, e

\* One is removed.
LEMMA PuestosQuitar ==
  ASSUME NEW T, NEW s \in Seq(T), NEW i \in 1 .. Len(s), NEW S
  PROVE  Cardinality(Puestos(s, S)) = Cardinality(Puestos(RemoveAt(s, i), S)) + Uno(s[i] \in S)
<1>1. /\ RemoveAt(s, i) \in Seq(T) /\ Len(RemoveAt(s, i)) = Len(s) - 1
      /\ \A j \in 1 .. Len(s) - 1 : RemoveAt(s, i)[j] = IF j < i THEN s[j] ELSE s[j + 1]
  BY QuitarPosicion
<1> HIDE DEF RemoveAt
<1> QED
  BY <1>1, PuestosMenos

Llaman(t)  == {b \in Bloqueado : b.tcb.tid = t}
Esperan(t) == {s \in DeUsuario : s.tid = t}

\* The callers with the TID t are those that wait in SYS_CALL and the one of the call that
\* the kernel thread executes.
Cuadra(t) ==
  Cardinality(Puestos(bloq, Llaman(t))) = Cardinality(Puestos(SYS_CALL, Esperan(t))) + Uno(EnVuelo(t))

\* A step keeps it, as long as it does not abort the callers.
LEMMA CuadraSigue ==
  ASSUME DInv, UnoSolo, PasoKM, ~ MatarBloq, \A t \in Nat : Cuadra(t), NEW t \in Nat
  PROVE  Cuadra(t)'
<1> DEFINE b == Cardinality(Puestos(bloq, Llaman(t)))
           e == Cardinality(Puestos(SYS_CALL, Esperan(t)))
<1>1. bloq \in Seq(Bloqueado) /\ SYS_CALL \in Seq(DeUsuario)
  BY DEF DInv, TcbColas
<1>2. b \in Nat /\ e \in Nat /\ b = e + Uno(EnVuelo(t))
  BY <1>1, PuestosNat DEF Cuadra
<1>3. EnVuelo(t) \in BOOLEAN /\ EnVuelo(t)' \in BOOLEAN
  BY DEF EnVuelo
<1>4. ASSUME UNCHANGED <<bloq, SYS_CALL>>, EnVuelo(t)' <=> EnVuelo(t) PROVE Cuadra(t)'
  <2>1. Uno(EnVuelo(t))' = Uno(EnVuelo(t))
    BY <1>4 DEF Uno
  <2> QED
    BY <1>2, <1>4, <2>1 DEF Cuadra
<1>5. CASE KMQuieto /\ (UNCHANGED <<SYS_CALL, bloq>> \/ Llega \/ MatarBloq)
  <2>1. EnVuelo(t)' <=> EnVuelo(t)
    BY <1>5 DEF KMQuieto, EnVuelo
  <2>2. CASE UNCHANGED <<SYS_CALL, bloq>>
    BY <1>4, <2>1, <2>2
  <2>3. CASE Llega
    <3>1. PICK x \in Bloqueado : bloq' = Append(bloq, x) /\ SYS_CALL' = Append(SYS_CALL, x.tcb)
      BY <2>3 DEF Llega
    <3>2. x.tcb \in DeUsuario /\ (x \in Llaman(t) <=> x.tcb \in Esperan(t))
      BY DEF Llaman, Esperan, Bloqueado
    <3>3. Cardinality(Puestos(bloq', Llaman(t))) = b + Uno(x \in Llaman(t))
      BY <1>1, <3>1, PuestosMas
    <3>4. Cardinality(Puestos(SYS_CALL', Esperan(t))) = e + Uno(x.tcb \in Esperan(t))
      BY <1>1, <3>1, <3>2, PuestosMas
    <3> HIDE DEF b, e
    <3>5. Uno(EnVuelo(t))' = Uno(EnVuelo(t)) /\ Uno(x \in Llaman(t)) = Uno(x.tcb \in Esperan(t))
      BY <2>1, <3>2 DEF Uno
    <3>6. Uno(EnVuelo(t)) \in Nat /\ Uno(x \in Llaman(t)) \in Nat
      BY DEF Uno
    <3>7. Cardinality(Puestos(bloq', Llaman(t)))
            = Cardinality(Puestos(SYS_CALL', Esperan(t))) + Uno(EnVuelo(t))'
      BY <1>2, <3>3, <3>4, <3>5, <3>6
    <3>8. Llaman(t)' = Llaman(t) /\ Esperan(t)' = Esperan(t)
      BY DEF Llaman, Esperan
    <3> QED
      BY <3>7, <3>8 DEF Cuadra
  <2> QED
    BY <1>5, <2>2, <2>3
<1>6. CASE KMSale
  <2> DEFINE s == Head(SYS_CALL)
  <2>1. ~ EnVuelo(t)
    BY <1>6 DEF KMSale, UnoSolo, EnVuelo
  <2>2. EnVuelo(t)' <=> s.tid = t
    BY <1>6 DEF KMSale, UnoSolo, EnVuelo
  <2>3. s \in DeUsuario
    BY <1>1, <1>6, ColaCambia DEF KMSale
  <2>4. e = Cardinality(Puestos(SYS_CALL', Esperan(t))) + Uno(s \in Esperan(t))
    BY <1>1, <1>6, PuestosTail DEF KMSale
  <2>5. Uno(EnVuelo(t)) = 0 /\ Uno(EnVuelo(t))' = Uno(s \in Esperan(t))
    BY <2>1, <2>2, <2>3 DEF Uno, Esperan
  <2> HIDE DEF e, s
  <2>6. Cardinality(Puestos(SYS_CALL', Esperan(t))) \in Nat
    <3>1. SYS_CALL' \in Seq(DeUsuario)
      BY <1>1, <1>6, ColaCambia DEF KMSale
    <3> QED
      BY <3>1, PuestosNat
  <2>7. b = Cardinality(Puestos(SYS_CALL', Esperan(t))) + Uno(EnVuelo(t))'
    BY <1>2, <2>4, <2>5, <2>6 DEF Uno
  <2>8. Llaman(t)' = Llaman(t) /\ Esperan(t)' = Esperan(t) /\ bloq' = bloq
    BY <1>6 DEF Llaman, Esperan, KMSale
  <2> QED
    BY <2>7, <2>8 DEF Cuadra
<1>7. CASE KMParte
  <2>1. EnVuelo(t) <=> disp.tcb.tid = t
    BY <1>7 DEF KMParte, UnoSolo, EnVuelo
  <2>2. EnVuelo(t)' <=> disp.tcb.tid = t
    <3>1. EnManos' = {<<disp.cpu, disp.tcb>>} /\ ~ Lleva' /\ ~ Encuentra'
      BY <1>7 DEF KMParte, UnoSolo
    <3> QED
      BY <3>1 DEF EnVuelo
  <2> QED
    BY <1>4, <1>7, <2>1, <2>2 DEF KMParte
<1>8. CASE KMVuelve
  <2>1. PICK p \in EnManos : EnManos' = EnManos \ {p} /\ yo'.tcb.tid = p[2].tid
    BY <1>8 DEF KMVuelve
  <2>2. EnManos = {p} /\ ~ Lleva /\ ~ Encuentra
    BY <1>8, <2>1 DEF KMVuelve, UnoSolo
  <2>3. EnManos' = {} /\ ~ Lleva' /\ Encuentra'
    BY <1>8, <2>1, <2>2 DEF KMVuelve
  <2>4. EnVuelo(t)' <=> EnVuelo(t)
    BY <2>1, <2>2, <2>3 DEF EnVuelo
  <2> QED
    BY <1>4, <1>8, <2>4 DEF KMVuelve
<1>9. CASE KMTermina
  <2> DEFINE T == yo.tcb.tid
             i == ElPrimero(Llamadores(T))
             bT == Cardinality(Puestos(bloq, Llaman(T)))
             eT == Cardinality(Puestos(SYS_CALL, Esperan(T)))
  <2>1. bloq' = IF i = 0 THEN bloq ELSE RemoveAt(bloq, i)
    BY <1>9 DEF KMTermina
  <2>2. ~ Lleva /\ EnManos = {} /\ Encuentra /\ ~ Lleva' /\ EnManos' = {} /\ ~ Encuentra'
    BY <1>9 DEF KMTermina, UnoSolo
  <2>3. EnVuelo(T) /\ (EnVuelo(t) <=> T = t) /\ ~ EnVuelo(t)'
    BY <2>2 DEF EnVuelo
  <2>4. T \in Nat
    BY DEF DInv, TcbHilos, Hilos, Calling, Tcb, yo
  <2>5. bT \in Nat /\ eT \in Nat /\ bT = eT + 1
    <3>1. Cuadra(T)
      BY <2>4
    <3> QED
      BY <1>1, <2>3, <3>1, PuestosNat DEF Cuadra, Uno
  <2>6. i # 0
    <3> SUFFICES ASSUME i = 0 PROVE FALSE
      OBVIOUS
    <3>1. \A j \in DOMAIN bloq : bloq[j].tcb.tid # T
      <4> HIDE DEF T
      <4> QED
        BY <1>1, BuscaBloqueado
    <3>2. Puestos(bloq, Llaman(T)) = {}
      BY <3>1 DEF Puestos, Llaman
    <3>3. bT = 0
      BY <3>2, FS_EmptySet
    <3> QED
      BY <2>5, <3>3
  <2>7. i \in 1 .. Len(bloq) /\ bloq[i] \in Bloqueado /\ bloq[i].tcb.tid = T
    <3> HIDE DEF T
    <3> QED
      BY <1>1, <2>6, BuscaBloqueado
  <2> HIDE DEF i, T, bT, eT
  <2>8. b = Cardinality(Puestos(RemoveAt(bloq, i), Llaman(t))) + Uno(bloq[i] \in Llaman(t))
    BY <1>1, <2>7, PuestosQuitar
  <2>9. Cardinality(Puestos(RemoveAt(bloq, i), Llaman(t))) \in Nat
    <3>1. RemoveAt(bloq, i) \in Seq(Bloqueado)
      BY <1>1, <2>7, ColaCambia
    <3> QED
      BY <3>1, PuestosNat
  <2>10. Uno(bloq[i] \in Llaman(t)) = Uno(EnVuelo(t)) /\ Uno(EnVuelo(t))' = 0
    BY <2>3, <2>7 DEF Uno, Llaman
  <2>11. Uno(EnVuelo(t)) \in Nat
    BY DEF Uno
  <2> HIDE DEF b, e
  <2>12. Cardinality(Puestos(bloq', Llaman(t))) = e + Uno(EnVuelo(t))'
    BY <1>2, <2>1, <2>6, <2>8, <2>9, <2>10, <2>11
  <2>13. Llaman(t)' = Llaman(t) /\ Esperan(t)' = Esperan(t) /\ SYS_CALL' = SYS_CALL
    BY <1>9 DEF Llaman, Esperan, KMTermina
  <2> QED
    BY <2>12, <2>13 DEF Cuadra, e
<1>10. CASE KMAvisa
  <2>1. ~ EnVuelo(t) /\ ~ EnVuelo(t)'
    BY <1>10 DEF KMAvisa, UnoSolo, EnVuelo
  <2> QED
    BY <1>4, <1>10, <2>1 DEF KMAvisa
<1>11. CASE KMCae
  <2>1. EnVuelo(t)' <=> EnVuelo(t)
    BY <1>11 DEF KMCae, EnVuelo, Lleva, Despacha, Encuentra
  <2> QED
    BY <1>4, <1>11, <2>1 DEF KMCae
<1> QED
  BY <1>5, <1>6, <1>7, <1>8, <1>9, <1>10, <1>11 DEF PasoKM

-------------------------------------------------------------------------------
(* The callers, until loader takes one away *)

\* The kernel thread is one, and the callers correspond to the calls.
BInv == KInv /\ \A t \in Nat : Cuadra(t)

\* It holds at first
LEMMA BInicio == Init => BInv
<1> SUFFICES ASSUME Init PROVE BInv
  OBVIOUS
<1>1. KInv
  BY KInicio
<1>2. yo = Reposo /\ disp.pc = "listo1" /\ bloq = <<>> /\ SYS_CALL = <<>>
  BY DEF Init, yo, Hilos
<1>3. ~ Lleva /\ ~ Encuentra
  BY <1>2 DEF Lleva, Despacha, Encuentra, Reposo, Esta
<1>4. EnManos = {}
  <2>1. \A c \in CPUs : turno[c] = <<>> /\ mensajes[c] = <<>>
    BY DEF Init
  <2> QED
    BY <2>1 DEF EnManos, Tiene, Esta, Vuelve, Marcas
<1>5. ASSUME NEW t \in Nat PROVE Cuadra(t)
  <2>1. ~ EnVuelo(t)
    BY <1>3, <1>4 DEF EnVuelo
  <2>2. Puestos(bloq, Llaman(t)) = {} /\ Puestos(SYS_CALL, Esperan(t)) = {}
    BY <1>2 DEF Puestos
  <2>3. Cardinality({}) = 0
    BY FS_EmptySet
  <2> QED
    BY <2>1, <2>2, <2>3 DEF Cuadra, Uno
<1> QED
  BY <1>1, <1>5 DEF BInv

\* and every step keeps it, unless loader takes a caller from block.prioridad_1.
LEMMA BPaso == BInv /\ [Next]_vars /\ [~ MatarBloq]_vars => BInv'
<1> SUFFICES ASSUME BInv, [Next]_vars, [~ MatarBloq]_vars PROVE BInv'
  OBVIOUS
<1>1. KInv'
  BY KPaso DEF BInv
<1>2. CASE UNCHANGED vars
  <2>1. UNCHANGED <<hilo, bloq, SYS_CALL, disp, turno, mensajes>>
    BY <1>2 DEF vars, colas, tablas, redes
  <2>2. EnManos' = EnManos
    BY <2>1, ManosIguales
  <2>3. ASSUME NEW t \in Nat PROVE Cuadra(t)'
    <3>1. EnVuelo(t)' = EnVuelo(t)
      BY <2>1, <2>2 DEF EnVuelo, Lleva, Despacha, Encuentra, yo
    <3> QED
      BY <2>1, <3>1 DEF BInv, Cuadra, Puestos, Uno
  <2> QED
    BY <1>1, <2>3 DEF BInv
<1>3. CASE Next /\ ~ MatarBloq
  <2>1. UnoSolo /\ PasoKM /\ IInv /\ DInv
    BY <1>3, CaidaParada, KMPaso DEF BInv, KInv, Caido
  <2>2. \A t \in Nat : Cuadra(t)'
    BY <1>3, <2>1, CuadraSigue DEF BInv
  <2> QED
    BY <1>1, <2>2 DEF BInv
<1> QED
  BY <1>2, <1>3

\* A thread with a call waiting or in execution is in block.prioridad_1, once per call, and
\* no other thread is, whatever programs start, end or lose their users meanwhile, until
\* matar_hijos_en_lista takes a caller from that list.  The TCBs are copies, so the code has
\* two lists to keep in step, with the kernel thread in between.
THEOREM BloqueadosSiempreLlaman == Spec /\ [][~ MatarBloq]_vars => []BloqueadosLlaman
<1>1. BInv => BloqueadosLlaman
  <2> SUFFICES ASSUME BInv, NEW t \in TIDs
               PROVE  Cuantos(bloq, LAMBDA b : b.tcb.tid = t)
                      = Cuantos(SYS_CALL, LAMBDA s : s.tid = t)
                        + EnCPU(LAMBDA s : s.km /\ s.tid = t)
                        + Uno(Despacha /\ disp.tcb.km /\ disp.tcb.tid = t)
                        + Uno(Falta("planificador", "finKM") /\ hilo["planificador"].tcb.tid = t)
    BY Zenon DEF BloqueadosLlaman
  <2>1. t \in Nat /\ Cuadra(t)
    BY DEF BInv, TIDs
  <2>2. /\ bloq \in Seq(Bloqueado) /\ SYS_CALL \in Seq(DeUsuario)
        /\ IInv /\ DInv /\ (UnoSolo \/ Caido)
    BY DEF BInv, KInv, DInv, TcbColas
  <2> DEFINE b == Cardinality(Puestos(bloq, Llaman(t)))
             s == Cardinality(Puestos(SYS_CALL, Esperan(t)))
             e == EnCPU(LAMBDA x : x.km /\ x.tid = t)
  <2>3. Cuantos(bloq, LAMBDA x : x.tcb.tid = t) = b
    <3>1. {i \in DOMAIN bloq : bloq[i].tcb.tid = t} = Puestos(bloq, Llaman(t))
      BY <2>2 DEF Puestos, Llaman
    <3> QED
      BY <3>1, Zenon DEF Cuantos
  <2>4. Cuantos(SYS_CALL, LAMBDA x : x.tid = t) = s
    <3>1. {i \in DOMAIN SYS_CALL : SYS_CALL[i].tid = t} = Puestos(SYS_CALL, Esperan(t))
      BY <2>2 DEF Puestos, Esperan
    <3> QED
      BY <3>1, Zenon DEF Cuantos
  <2>5. e = Uno(\E p \in EnManos : p[2].tid = t)
    <3>1. e = Cardinality(OrdenesDe(t)) + Cardinality(VueltasDe(t))
      BY Zenon DEF EnCPU, OrdenesDe, VueltasDe
    <3> HIDE DEF e
    <3> QED
      BY <2>2, <3>1, CuentaKM
  <2>6. /\ (Despacha /\ disp.tcb.km /\ disp.tcb.tid = t <=> Lleva /\ disp.tcb.tid = t)
        /\ (Falta("planificador", "finKM") /\ hilo["planificador"].tcb.tid = t
              <=> Encuentra /\ yo.tcb.tid = t)
    BY DEF Lleva, Falta, Encuentra, Esta, yo
  <2> DEFINE d == Uno(Despacha /\ disp.tcb.km /\ disp.tcb.tid = t)
             f == Uno(Falta("planificador", "finKM") /\ hilo["planificador"].tcb.tid = t)
  <2>7. d = Uno(Lleva /\ disp.tcb.tid = t) /\ f = Uno(Encuentra /\ yo.tcb.tid = t)
    BY <2>6 DEF Uno
  <2>8. b = s + Uno(EnVuelo(t)) /\ b \in Nat /\ s \in Nat
    BY <2>1, <2>2, PuestosNat DEF Cuadra
  <2> HIDE DEF b, s, e, d, f
  <2>9. e + d + f = Uno(EnVuelo(t))
    BY <2>2, <2>5, <2>7 DEF UnoSolo, Caido, EnVuelo, Uno
  <2>10. e \in Nat /\ d \in Nat /\ f \in Nat
    BY <2>5, <2>7 DEF Uno
  <2>11. b = s + e + d + f
    BY <2>8, <2>9, <2>10
  <2> QED
    BY <2>3, <2>4, <2>11, Zenon DEF e, d, f
<1> QED
  BY BInicio, BPaso, <1>1, PTL DEF Spec

\* Those that obtener_tcb_bloqueado looks for are blocked: the caller of each call that
\* waits, which dispatcher is to serve, and that of the call that has ended.
LlamadorEspera ==
  /\ \A i \in DOMAIN SYS_CALL : \E j \in DOMAIN bloq : bloq[j].tcb.tid = SYS_CALL[i].tid
  /\ Falta("planificador", "finKM") =>
       \E j \in DOMAIN bloq : bloq[j].tcb.tid = hilo["planificador"].tcb.tid

\* Until matar_hijos_en_lista takes a caller from block.prioridad_1, neither the start nor
\* the end of a system call dereferences NULL: obtener_tcb_bloqueado has a TCB to return.
THEOREM LlamadorSiempreEspera == Spec /\ [][~ MatarBloq]_vars => []LlamadorEspera
<1>1. BInv => LlamadorEspera
  <2> SUFFICES ASSUME BInv PROVE LlamadorEspera
    OBVIOUS
  <2>1. bloq \in Seq(Bloqueado) /\ SYS_CALL \in Seq(DeUsuario) /\ hilo \in [Hilos -> Calling]
    BY DEF BInv, KInv, DInv, TcbColas, TcbHilos
  <2>2. ASSUME NEW t \in Nat, Puestos(SYS_CALL, Esperan(t)) # {} \/ EnVuelo(t)
        PROVE  \E j \in DOMAIN bloq : bloq[j].tcb.tid = t
    <3> DEFINE b == Puestos(bloq, Llaman(t))
               w == Puestos(SYS_CALL, Esperan(t))
    <3>1. Cardinality(b) = Cardinality(w) + Uno(EnVuelo(t))
      BY DEF BInv, Cuadra
    <3>2. Cardinality(b) \in Nat /\ Cardinality(w) \in Nat /\ IsFiniteSet(w)
      BY <2>1, PuestosNat
    <3>3. w # {} => Cardinality(w) # 0
      BY <3>2, FS_EmptySet
    <3> HIDE DEF b, w
    <3>4. Cardinality(b) # 0
      BY <2>2, <3>1, <3>2, <3>3 DEF Uno, w
    <3>5. b # {}
      BY <3>4, FS_EmptySet
    <3> QED
      BY <3>5 DEF b, Puestos, Llaman
  <2>3. ASSUME NEW i \in DOMAIN SYS_CALL
        PROVE  \E j \in DOMAIN bloq : bloq[j].tcb.tid = SYS_CALL[i].tid
    <3> DEFINE t == SYS_CALL[i].tid
    <3>1. SYS_CALL[i] \in DeUsuario
      BY <2>1
    <3>2. t \in Nat
      BY <3>1 DEF DeUsuario, Tcb
    <3>3. i \in Puestos(SYS_CALL, Esperan(t))
      BY <3>1 DEF Puestos, Esperan
    <3> HIDE DEF t
    <3>4. \E j \in DOMAIN bloq : bloq[j].tcb.tid = t
      BY <2>2, <3>2, <3>3
    <3> QED
      BY <3>4 DEF t
  <2>4. ASSUME Falta("planificador", "finKM")
        PROVE  \E j \in DOMAIN bloq : bloq[j].tcb.tid = hilo["planificador"].tcb.tid
    <3>1. yo.tcb.tid \in Nat
      BY <2>1 DEF yo, Calling, Tcb, Hilos
    <3>2. EnVuelo(yo.tcb.tid)
      BY <2>4 DEF EnVuelo, Encuentra, Falta, Esta, yo
    <3>3. \E j \in DOMAIN bloq : bloq[j].tcb.tid = yo.tcb.tid
      BY <2>2, <3>1, <3>2
    <3> QED
      BY <3>3 DEF yo
  <2> QED
    BY <2>3, <2>4 DEF LlamadorEspera
<1> QED
  BY BInicio, BPaso, <1>1, PTL DEF Spec

===============================================================================
