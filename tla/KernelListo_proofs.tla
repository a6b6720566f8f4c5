-------------------------- MODULE KernelListo_proofs ---------------------------
(*****************************************************************************)
(* Proofs about the Kernel: the tokens of sem_procesoListo, which dispatcher *)
(* takes two by two with a wait for a CPU in between and planificador and    *)
(* loader post one by one, agree with the queues ready and SYS_CALL until    *)
(* loader, to release a console, takes tokens or threads itself.             *)
(*****************************************************************************)
EXTENDS Kernel, Lemas, FiniteSetTheorems

-------------------------------------------------------------------------------
(* The calls that planificador and loader have to make *)

\* Those that neither queue a thread nor announce one.
Mudos == {"libre", "exec", "post", "sumar", "padre", "responder", "contar", "sacar", "exit",
          "finKM", "postKM", "contarReady", "esperar", "matarReady", "contarBloq",
          "matarBloq", "contarSysCall", "matarJoin", "contarDic"}
Calls == Mudos \cup {"encolar", "avisar"}

Avisares(p) == {i \in DOMAIN p : p[i] = "avisar"}
Encola(p)   == \E i \in DOMAIN p : p[i] = "encolar"

\* A thread that has still to be queued will be announced twice at once; one that is
\* queued is announced by the next two calls, or by the next one.
PasosBien(p) ==
  /\ p \in Seq(Calls)
  /\ \A i, j \in DOMAIN p : p[i] = "encolar" /\ p[j] = "encolar" => i = j
  /\ \A i \in DOMAIN p : p[i] = "encolar" => Avisares(p) = {i + 1, i + 2}
  /\ ~ Encola(p) => Avisares(p) \in {{}, {1}, {1, 2}}

\* The tokens that are owed for a thread which is in its queue.
Debe(p) == IF Encola(p) THEN 0 ELSE Cardinality(Avisares(p))

\* What is owed, when it is known which calls are left.
LEMMA DebeValor ==
  ASSUME NEW p
  PROVE  /\ ~ Encola(p) /\ Avisares(p) = {} => Debe(p) = 0
         /\ ~ Encola(p) /\ Avisares(p) = {1} => Debe(p) = 1
         /\ ~ Encola(p) /\ Avisares(p) = {1, 2} => Debe(p) = 2
         /\ Encola(p) => Debe(p) = 0
<1>1. Cardinality({}) = 0 /\ IsFiniteSet({})
  BY FS_EmptySet
<1>2. IsFiniteSet({1}) /\ Cardinality({1}) = 1
  BY FS_Singleton
<1>3. {1, 2} = {1} \cup {2} /\ 2 \notin {1}
  OBVIOUS
<1>4. Cardinality({1, 2}) = 2
  BY <1>2, <1>3, FS_AddElement
<1> QED
  BY <1>1, <1>2, <1>4 DEF Debe

\* What is owed is a number of tokens.
LEMMA DebeNat ==
  ASSUME NEW p, PasosBien(p)
  PROVE  Debe(p) \in Nat
<1>1. ~ Encola(p) => Avisares(p) \in {{}, {1}, {1, 2}}
  BY DEF PasosBien
<1> QED
  BY <1>1, DebeValor

\* The next call owes less or more.
LEMMA DebeTail ==
  ASSUME NEW p, PasosBien(p), p # <<>>
  PROVE  /\ PasosBien(Tail(p))
         /\ Debe(p) \in Nat /\ Debe(Tail(p)) \in Nat
         /\ Head(p) = "encolar" => Debe(p) = 0 /\ Debe(Tail(p)) = 2
         /\ Head(p) = "avisar" => Debe(p) = Debe(Tail(p)) + 1
         /\ Head(p) \notin {"encolar", "avisar"} => Debe(p) = 0 /\ Debe(Tail(p)) = 0
<1> DEFINE t == Tail(p)
<1>1. /\ t \in Seq(Calls) /\ Len(p) \in Nat \ {0} /\ DOMAIN p = 1 .. Len(p)
      /\ DOMAIN t = 1 .. Len(p) - 1 /\ \A i \in 1 .. Len(p) - 1 : t[i] = p[i + 1]
      /\ Head(p) = p[1]
  BY DEF PasosBien
<1>2. /\ \A i, j \in DOMAIN p : p[i] = "encolar" /\ p[j] = "encolar" => i = j
      /\ \A i \in DOMAIN p : p[i] = "encolar" => Avisares(p) = {i + 1, i + 2}
      /\ ~ Encola(p) => Avisares(p) \in {{}, {1}, {1, 2}}
  BY DEF PasosBien
<1> HIDE DEF t
<1>3. \A i \in DOMAIN t : i \in Nat \ {0} /\ i + 1 \in DOMAIN p /\ t[i] = p[i + 1]
  BY <1>1
<1>4. \A j \in DOMAIN p : j # 1 => j - 1 \in DOMAIN t /\ t[j - 1] = p[j]
  <2> SUFFICES ASSUME NEW j \in DOMAIN p, j # 1 PROVE j - 1 \in DOMAIN t /\ t[j - 1] = p[j]
    OBVIOUS
  <2>1. j - 1 \in 1 .. Len(p) - 1 /\ (j - 1) + 1 = j
    BY <1>1
  <2> QED
    BY <1>1, <2>1
<1>5. 1 \in DOMAIN p /\ DOMAIN p \subseteq Nat \ {0}
  BY <1>1
<1>6. Avisares(t) = {j \in Nat \ {0} : j + 1 \in Avisares(p)}
  <2>1. ASSUME NEW j \in Avisares(t) PROVE j \in Nat \ {0} /\ j + 1 \in Avisares(p)
    BY <1>3 DEF Avisares
  <2>2. ASSUME NEW j \in Nat \ {0}, j + 1 \in Avisares(p) PROVE j \in Avisares(t)
    <3>1. j + 1 \in DOMAIN p /\ j + 1 # 1 /\ (j + 1) - 1 = j /\ p[j + 1] = "avisar"
      BY <2>2 DEF Avisares
    <3> QED
      BY <1>4, <3>1 DEF Avisares
  <2> QED
    BY <2>1, <2>2
<1>7. Encola(p) <=> (p[1] = "encolar" \/ Encola(t))
  BY <1>3, <1>4, <1>5 DEF Encola
<1>8. \A i, j \in DOMAIN t : t[i] = "encolar" /\ t[j] = "encolar" => i = j
  <2> SUFFICES ASSUME NEW i \in DOMAIN t, NEW j \in DOMAIN t,
                      t[i] = "encolar", t[j] = "encolar"
               PROVE  i = j
    OBVIOUS
  <2>1. i + 1 = j + 1 /\ i \in Nat /\ j \in Nat
    BY <1>2, <1>3
  <2> QED
    BY <2>1
<1>9. \A i \in DOMAIN t : t[i] = "encolar" => Avisares(t) = {i + 1, i + 2}
  <2> SUFFICES ASSUME NEW i \in DOMAIN t, t[i] = "encolar" PROVE Avisares(t) = {i + 1, i + 2}
    OBVIOUS
  <2>1. i \in Nat /\ i + 1 \in DOMAIN p /\ p[i + 1] = "encolar"
    BY <1>3
  <2>2. Avisares(p) = {(i + 1) + 1, (i + 1) + 2}
    BY <1>2, <2>1
  <2>3. \A j \in Nat \ {0} : j + 1 \in {(i + 1) + 1, (i + 1) + 2} <=> j \in {i + 1, i + 2}
    BY <2>1
  <2>4. {i + 1, i + 2} \subseteq Nat \ {0}
    BY <2>1
  <2> QED
    BY <1>6, <2>2, <2>3, <2>4
<1>10. CASE p[1] = "encolar"
  <2>1. Encola(p) /\ Avisares(p) = {2, 3}
    BY <1>2, <1>5, <1>10 DEF Encola
  <2>2. ~ Encola(t)
    <3> SUFFICES ASSUME NEW i \in DOMAIN t, t[i] = "encolar" PROVE FALSE
      BY DEF Encola
    <3>1. i + 1 = 1 /\ i \in Nat \ {0}
      BY <1>2, <1>3, <1>5, <1>10
    <3> QED
      BY <3>1
  <2>3. Avisares(t) = {1, 2}
    <3>1. \A j \in Nat \ {0} : j + 1 \in {2, 3} <=> j \in {1, 2}
      OBVIOUS
    <3>2. {1, 2} \subseteq Nat \ {0}
      OBVIOUS
    <3> QED
      BY <1>6, <2>1, <3>1, <3>2
  <2>4. Debe(p) = 0 /\ Debe(t) = 2
    BY <2>1, <2>2, <2>3, DebeValor
  <2>5. PasosBien(t)
    BY <1>1, <1>8, <1>9, <2>2, <2>3 DEF PasosBien, t
  <2> QED
    BY <1>1, <1>10, <2>4, <2>5 DEF t
<1>11. CASE p[1] # "encolar" /\ Encola(p)
  <2>1. Encola(t) /\ Debe(p) = 0 /\ Debe(t) = 0
    BY <1>7, <1>11, DebeValor
  <2>2. p[1] # "avisar"
    <3>1. PICK i \in DOMAIN p : p[i] = "encolar"
      BY <1>11 DEF Encola
    <3>2. 1 \notin Avisares(p)
      BY <1>2, <1>5, <3>1
    <3> QED
      BY <1>5, <3>2 DEF Avisares
  <2>3. PasosBien(t)
    BY <1>1, <1>8, <1>9, <2>1 DEF PasosBien, t
  <2> QED
    BY <1>1, <1>11, <2>1, <2>2, <2>3 DEF t
<1>12. CASE ~ Encola(p)
  <2>1. ~ Encola(t) /\ Avisares(p) \in {{}, {1}, {1, 2}} /\ p[1] # "encolar"
    BY <1>2, <1>7, <1>12
  <2>2. p[1] = "avisar" <=> 1 \in Avisares(p)
    BY <1>5 DEF Avisares
  <2>3. CASE Avisares(p) = {}
    <3>1. Avisares(t) = {}
      BY <1>6, <2>3
    <3>2. Debe(p) = 0 /\ Debe(t) = 0 /\ p[1] # "avisar"
      BY <1>12, <2>1, <2>2, <2>3, <3>1, DebeValor
    <3> QED
      BY <1>1, <1>8, <1>9, <2>1, <3>1, <3>2 DEF PasosBien, t
  <2>4. CASE Avisares(p) = {1}
    <3>1. Avisares(t) = {}
      BY <1>6, <2>4
    <3>2. Debe(p) = 1 /\ Debe(t) = 0 /\ p[1] = "avisar"
      BY <1>12, <2>1, <2>2, <2>4, <3>1, DebeValor
    <3> QED
      BY <1>1, <1>8, <1>9, <2>1, <3>1, <3>2 DEF PasosBien, t
  <2>5. CASE Avisares(p) = {1, 2}
    <3>1. Avisares(t) = {1}
      <4>1. \A j \in Nat \ {0} : j + 1 \in {1, 2} <=> j \in {1}
        OBVIOUS
      <4> QED
        BY <1>6, <2>5, <4>1
    <3>2. Debe(p) = 2 /\ Debe(t) = 1 /\ p[1] = "avisar"
      BY <1>12, <2>1, <2>2, <2>5, <3>1, DebeValor
    <3> QED
      BY <1>1, <1>8, <1>9, <2>1, <3>1, <3>2 DEF PasosBien, t
  <2> QED
    BY <2>1, <2>3, <2>4, <2>5
<1> QED
  BY <1>10, <1>11, <1>12

\* Concatenation, position by position.
LEMMA Concatena ==
  ASSUME NEW S, NEW s \in Seq(S), NEW t \in Seq(S)
  PROVE  /\ s \o t \in Seq(S) /\ Len(s \o t) = Len(s) + Len(t)
         /\ \A i \in 1 .. Len(s) + Len(t) :
              (s \o t)[i] = IF i <= Len(s) THEN s[i] ELSE t[i - Len(s)]
BY ConcatProperties

\* The handlers that queue a thread, or none.
LEMMA ConEncola ==
  ASSUME NEW a \in Seq(Mudos), NEW b \in Seq(Mudos)
  PROVE  /\ PasosBien((a \o encola) \o b) /\ Debe((a \o encola) \o b) = 0
         /\ PasosBien(a) /\ Debe(a) = 0
<1> DEFINE p == (a \o encola) \o b
           n == Len(a)
<1>1. /\ n \in Nat /\ Len(b) \in Nat /\ DOMAIN a = 1 .. n /\ DOMAIN b = 1 .. Len(b)
      /\ \A i \in 1 .. n : a[i] \in Mudos
      /\ \A i \in 1 .. Len(b) : b[i] \in Mudos
      /\ a \in Seq(Calls) /\ b \in Seq(Calls)
  BY DEF Calls
<1>2. /\ encola \in Seq(Calls) /\ Len(encola) = 3 /\ encola[1] = "encolar"
      /\ encola[2] = "avisar" /\ encola[3] = "avisar"
  BY DEF encola, Calls
<1>3. /\ a \o encola \in Seq(Calls) /\ Len(a \o encola) = n + 3
      /\ \A i \in 1 .. n + 3 : (a \o encola)[i] = IF i <= n THEN a[i] ELSE encola[i - n]
  <2>1. /\ a \o encola \in Seq(Calls) /\ Len(a \o encola) = Len(a) + Len(encola)
        /\ \A i \in 1 .. Len(a) + Len(encola) :
             (a \o encola)[i] = IF i <= Len(a) THEN a[i] ELSE encola[i - Len(a)]
    BY <1>1, <1>2, Concatena, Zenon
  <2> QED
    BY <1>2, <2>1
<1>4. /\ p \in Seq(Calls) /\ Len(p) = n + 3 + Len(b)
      /\ \A i \in 1 .. n + 3 + Len(b) :
           p[i] = IF i <= n + 3 THEN (a \o encola)[i] ELSE b[i - (n + 3)]
  <2> DEFINE q == a \o encola
  <2> HIDE DEF q
  <2>1. q \in Seq(Calls) /\ Len(q) = n + 3
    BY <1>3 DEF q
  <2>2. /\ q \o b \in Seq(Calls) /\ Len(q \o b) = Len(q) + Len(b)
        /\ \A i \in 1 .. Len(q) + Len(b) : (q \o b)[i] = IF i <= Len(q) THEN q[i] ELSE b[i - Len(q)]
    BY <1>1, <2>1, Concatena, Zenon
  <2>3. p = q \o b
    BY DEF q
  <2> HIDE DEF p, n
  <2>4. /\ p \in Seq(Calls) /\ Len(p) = n + 3 + Len(b)
        /\ \A i \in 1 .. n + 3 + Len(b) : p[i] = IF i <= n + 3 THEN q[i] ELSE b[i - (n + 3)]
    BY <2>1, <2>2, <2>3
  <2> QED
    BY <2>4 DEF q
<1> HIDE DEF p
<1>5. /\ DOMAIN p = 1 .. n + 3 + Len(b)
      /\ p[n + 1] = "encolar" /\ p[n + 2] = "avisar" /\ p[n + 3] = "avisar"
      /\ \A i \in 1 .. n + 3 + Len(b) : i \notin {n + 1, n + 2, n + 3} => p[i] \in Mudos
  <2>1. DOMAIN p = 1 .. n + 3 + Len(b)
    BY <1>4
  <2>2. /\ n + 1 \in 1 .. n + 3 /\ ~ (n + 1 <= n) /\ (n + 1) - n = 1
        /\ n + 2 \in 1 .. n + 3 /\ ~ (n + 2 <= n) /\ (n + 2) - n = 2
        /\ n + 3 \in 1 .. n + 3 /\ ~ (n + 3 <= n) /\ (n + 3) - n = 3
    BY <1>1
  <2>3. \A i \in 1 .. n + 3 : i \in 1 .. n + 3 + Len(b) /\ i <= n + 3
    BY <1>1
  <2>4. p[n + 1] = "encolar" /\ p[n + 2] = "avisar" /\ p[n + 3] = "avisar"
    BY <1>2, <1>3, <1>4, <2>2, <2>3
  <2>5. ASSUME NEW i \in 1 .. n + 3 + Len(b), i \notin {n + 1, n + 2, n + 3} PROVE p[i] \in Mudos
    <3>1. CASE i <= n
      <4>1. i \in 1 .. n /\ i \in 1 .. n + 3 /\ i <= n + 3
        BY <1>1, <3>1
      <4> QED
        BY <1>1, <1>3, <1>4, <3>1, <4>1
    <3>2. CASE ~ (i <= n)
      <4>1. ~ (i <= n + 3) /\ i - (n + 3) \in 1 .. Len(b)
        BY <1>1, <2>5, <3>2
      <4> QED
        BY <1>1, <1>4, <4>1
    <3> QED
      BY <3>1, <3>2
  <2> QED
    BY <2>1, <2>4, <2>5
<1>6. "encolar" \notin Mudos /\ "avisar" \notin Mudos
  BY DEF Mudos
<1>7. /\ n + 1 \in DOMAIN p /\ n + 2 \in DOMAIN p /\ n + 3 \in DOMAIN p
      /\ \A i \in DOMAIN p : p[i] = "encolar" => i = n + 1
  <2>1. /\ n + 1 \in DOMAIN p /\ n + 2 \in DOMAIN p /\ n + 3 \in DOMAIN p
    BY <1>1, <1>5
  <2> QED
    BY <2>1, <1>5, <1>6
<1>8. Avisares(p) = {n + 2, n + 3}
  BY <1>5, <1>6, <1>7 DEF Avisares
<1>9. Encola(p)
  BY <1>5, <1>7 DEF Encola
<1>10. PasosBien(p)
  <2>1. (n + 1) + 1 = n + 2 /\ (n + 1) + 2 = n + 3
    BY <1>1
  <2> HIDE DEF n
  <2> QED
    BY <1>4, <1>7, <1>8, <1>9, <2>1 DEF PasosBien
<1>11. Debe(p) = 0
  BY <1>9, DebeValor
<1>12. ~ Encola(a) /\ Avisares(a) = {}
  BY <1>1, <1>6 DEF Encola, Avisares
<1>13. PasosBien(a)
  BY <1>1, <1>12 DEF PasosBien, Encola
<1>14. Debe(a) = 0
  BY <1>12, DebeValor
<1> QED
  BY <1>10, <1>11, <1>13, <1>14 DEF p

\* The handler that announces a system call that is in its queue.
LEMMA ConAvisos ==
  ASSUME NEW b \in Seq(Mudos)
  PROVE  PasosBien(<<"avisar", "avisar">> \o b) /\ Debe(<<"avisar", "avisar">> \o b) = 2
<1> DEFINE a == <<"avisar", "avisar">>
           p == a \o b
<1>1. /\ a \in Seq(Calls) /\ Len(a) = 2 /\ a[1] = "avisar" /\ a[2] = "avisar"
      /\ b \in Seq(Calls) /\ Len(b) \in Nat /\ \A i \in 1 .. Len(b) : b[i] \in Mudos
  BY DEF Calls
<1> HIDE DEF a
<1>2. /\ p \in Seq(Calls) /\ Len(p) = 2 + Len(b)
      /\ \A i \in 1 .. 2 + Len(b) : p[i] = IF i <= 2 THEN a[i] ELSE b[i - 2]
  <2>1. /\ p \in Seq(Calls) /\ Len(p) = Len(a) + Len(b)
        /\ \A i \in 1 .. Len(a) + Len(b) : p[i] = IF i <= Len(a) THEN a[i] ELSE b[i - Len(a)]
    BY <1>1, Concatena, Zenon
  <2> HIDE DEF p
  <2> QED
    BY <1>1, <2>1
<1> HIDE DEF p
<1>3. /\ DOMAIN p = 1 .. 2 + Len(b) /\ p[1] = "avisar" /\ p[2] = "avisar"
      /\ \A i \in 1 .. 2 + Len(b) : i \notin {1, 2} => p[i] \in Mudos
  <2>1. DOMAIN p = 1 .. 2 + Len(b) /\ 1 \in 1 .. 2 + Len(b) /\ 2 \in 1 .. 2 + Len(b)
    BY <1>1, <1>2
  <2>2. \A i \in 1 .. 2 + Len(b) : i \notin {1, 2} => ~ (i <= 2) /\ i - 2 \in 1 .. Len(b)
    BY <1>1
  <2>3. \A i \in 1 .. 2 + Len(b) : i \notin {1, 2} => p[i] \in Mudos
    BY <1>1, <1>2, <2>2
  <2>4. p[1] = "avisar" /\ p[2] = "avisar"
    BY <1>1, <1>2, <2>1
  <2> QED
    BY <2>1, <2>3, <2>4
<1>4. "encolar" \notin Mudos /\ "avisar" \notin Mudos /\ 1 \in DOMAIN p /\ 2 \in DOMAIN p
  BY <1>1, <1>3 DEF Mudos
<1>5. Avisares(p) = {1, 2}
  BY <1>3, <1>4 DEF Avisares
<1>6. \A i \in DOMAIN p : p[i] # "encolar"
  BY <1>3, <1>4
<1>7. ~ Encola(p)
  BY <1>6 DEF Encola
<1>8. PasosBien(p)
  BY <1>2, <1>5, <1>6 DEF PasosBien
<1> QED
  BY <1>5, <1>7, <1>8, DebeValor DEF p, a

-------------------------------------------------------------------------------
(* The inductive invariant *)

\* A sequence, of whatever it is.
Secuencia(s) == \E S : s \in Seq(S)

Campos == {"pasos", "tcb", "n", "id"}

TiposHilos ==
  /\ DOMAIN hilo = Hilos
  /\ \A h \in Hilos : DOMAIN hilo[h] = Campos /\ PasosBien(hilo[h].pasos)

TiposDisp  == DOMAIN disp = {"pc", "tcb", "cpu"}
TiposColas == sem_procesoListo \in Nat /\ Secuencia(ready) /\ Secuencia(SYS_CALL)

Deuda   == Debe(hilo["planificador"].pasos) + Debe(hilo["loader"].pasos)
Tomadas == IF disp.pc \in {"cpu", "listo2"} THEN 1
           ELSE IF disp.pc \in {"elegir", "km"} THEN 2 ELSE 0
HayLlamada == disp.pc = "km" => SYS_CALL # <<>>

Tipos == TiposHilos /\ TiposDisp /\ TiposColas
IInv  == Tipos /\ HayLlamada

\* A step after which what is owed, taken and posted exceeds two tokens for each thread
\* and each call by as much as before.
Parejo ==
  sem_procesoListo' + Deuda' + Tomadas' + 2 * (Len(ready) + Len(SYS_CALL))
  = sem_procesoListo + Deuda + Tomadas + 2 * (Len(ready') + Len(SYS_CALL'))

\* The empty list of calls.
LEMMA SinCalls ==
  /\ <<>> \in Seq(Mudos) /\ DOMAIN <<>> = {} /\ PasosBien(<<>>) /\ Debe(<<>>) = 0
  /\ DOMAIN Reposo = Campos /\ Reposo.pasos = <<>>
<1>1. <<>> \in Seq(Mudos) /\ DOMAIN <<>> = {}
  OBVIOUS
<1> QED
  BY <1>1, ConEncola DEF Reposo, Campos

\* The numbers of the equation.
LEMMA Numeros ==
  ASSUME IInv
  PROVE  /\ Debe(hilo["planificador"].pasos) \in Nat /\ Debe(hilo["loader"].pasos) \in Nat
         /\ Deuda \in Nat /\ Tomadas \in Nat /\ Len(ready) \in Nat /\ Len(SYS_CALL) \in Nat
<1>1. ASSUME NEW h \in Hilos PROVE Debe(hilo[h].pasos) \in Nat
  <2>1. PasosBien(hilo[h].pasos)
    BY DEF IInv, Tipos, TiposHilos
  <2> QED
    BY <2>1, DebeNat
<1>2. "planificador" \in Hilos /\ "loader" \in Hilos
  BY DEF Hilos
<1>3. Debe(hilo["planificador"].pasos) \in Nat /\ Debe(hilo["loader"].pasos) \in Nat
  BY <1>1, <1>2
<1>4. Len(ready) \in Nat /\ Len(SYS_CALL) \in Nat
  BY DEF IInv, Tipos, TiposColas, Secuencia
<1> QED
  BY <1>3, <1>4 DEF Deuda, Tomadas

\* What the property counts is what the invariant counts.
SaldoEs ==
  /\ sem_procesoListo \in Nat /\ Deuda \in Nat /\ Tomadas \in Nat
  /\ Len(ready) \in Nat /\ Len(SYS_CALL) \in Nat
  /\ SaldoListo = sem_procesoListo + Deuda + Tomadas - 2 * (Len(ready) + Len(SYS_CALL))

LEMMA Fichas == IInv => SaldoEs
<1> SUFFICES ASSUME IInv PROVE SaldoEs
  OBVIOUS
<1>1. ASSUME NEW h PROVE Avisos(h) = Debe(hilo[h].pasos)
  <2>1. Cuantos(hilo[h].pasos, LAMBDA q : q = "avisar") = Cardinality(Avisares(hilo[h].pasos))
    BY DEF Cuantos, Avisares
  <2>2. Falta(h, "encolar") <=> Encola(hilo[h].pasos)
    BY DEF Falta, Encola
  <2> QED
    BY <2>1, <2>2 DEF Avisos, Debe
<1>2. /\ Avisos("planificador") = Debe(hilo["planificador"].pasos)
      /\ Avisos("loader") = Debe(hilo["loader"].pasos)
  BY <1>1
<1>3. /\ Debe(hilo["planificador"].pasos) \in Nat /\ Debe(hilo["loader"].pasos) \in Nat
      /\ sem_procesoListo \in Nat
  BY Numeros DEF IInv, Tipos, TiposColas
<1> QED
  BY <1>2, <1>3, Numeros DEF SaldoEs, SaldoListo, Deuda, Tomadas

\* The initial states.
LEMMA Inicio == Init => IInv /\ SaldoListo = 0
<1> SUFFICES ASSUME Init PROVE IInv /\ SaldoListo = 0
  OBVIOUS
<1>1. Secuencia(<<>>) /\ Len(<<>>) = 0
  <2>1. <<>> \in Seq({})
    OBVIOUS
  <2> QED
    BY <2>1 DEF Secuencia
<1>2. DOMAIN hilo = Hilos /\ \A h \in Hilos : hilo[h] = Reposo
  BY DEF Init
<1>3. hilo["planificador"] = Reposo /\ hilo["loader"] = Reposo
  BY <1>2 DEF Hilos
<1>4. TiposHilos
  BY <1>2, SinCalls DEF TiposHilos
<1>5. TiposDisp /\ TiposColas /\ HayLlamada
  BY <1>1 DEF Init, TiposDisp, TiposColas, HayLlamada
<1>6. Deuda = 0
  BY <1>3, SinCalls DEF Deuda
<1>7. Tomadas = 0 /\ sem_procesoListo = 0 /\ ready = <<>> /\ SYS_CALL = <<>>
  BY DEF Init, Tomadas
<1>8. IInv
  BY <1>4, <1>5 DEF IInv, Tipos
<1>9. SaldoListo = 0
  <2>1. SaldoListo = sem_procesoListo + Deuda + Tomadas - 2 * (Len(ready) + Len(SYS_CALL))
    BY <1>8, Fichas DEF SaldoEs
  <2>2. Len(ready) = 0 /\ Len(SYS_CALL) = 0
    BY <1>1, <1>7
  <2>3. sem_procesoListo = 0 /\ Tomadas = 0 /\ Deuda = 0
    BY <1>6, <1>7
  <2> QED
    BY <2>1, <2>2, <2>3
<1> QED
  BY <1>8, <1>9

-------------------------------------------------------------------------------
(* What a step may change *)

\* The thread h goes on to its next call.
LEMMA HiloSigue ==
  ASSUME IInv, NEW h \in Hilos, NEW f, DOMAIN f = Campos, f.pasos = hilo[h].pasos,
         NEW x, EnPaso(h, x), Sigue(h, f)
  PROVE  /\ TiposHilos' /\ Deuda' \in Nat
         /\ x = "encolar" => Deuda' = Deuda + 2
         /\ x = "avisar" => Deuda = Deuda' + 1
         /\ x \notin {"encolar", "avisar"} => Deuda' = Deuda
<1> DEFINE p == hilo[h].pasos
<1>1. TiposHilos /\ PasosBien(p) /\ p # <<>> /\ Head(p) = x /\ p \in Seq(Calls)
  BY DEF IInv, Tipos, TiposHilos, EnPaso, PasosBien
<1>2. /\ DOMAIN hilo' = Hilos /\ \A g \in Hilos \ {h} : hilo'[g] = hilo[g]
      /\ hilo'[h] = IF Len(p) = 1 THEN Reposo ELSE [f EXCEPT !.pasos = Tail(f.pasos)]
  BY <1>1 DEF TiposHilos, Sigue
<1>3. DOMAIN hilo'[h] = Campos /\ hilo'[h].pasos = Tail(p)
  <2>1. CASE Len(p) = 1
    <3>1. Tail(p) \in Seq(Calls) /\ Len(Tail(p)) = 0
      BY <1>1, <2>1
    <3>2. Tail(p) = <<>>
      BY <3>1, EmptySeq
    <3> QED
      BY <1>2, <2>1, <3>2, SinCalls
  <2>2. CASE Len(p) # 1
    BY <1>2, <2>2 DEF Campos
  <2> QED
    BY <2>1, <2>2
<1>4. /\ PasosBien(Tail(p)) /\ Debe(p) \in Nat /\ Debe(Tail(p)) \in Nat
      /\ x = "encolar" => Debe(p) = 0 /\ Debe(Tail(p)) = 2
      /\ x = "avisar" => Debe(p) = Debe(Tail(p)) + 1
      /\ x \notin {"encolar", "avisar"} => Debe(p) = 0 /\ Debe(Tail(p)) = 0
  BY <1>1, DebeTail
<1>6. h # "loader" => hilo'["loader"] = hilo["loader"]
  BY <1>2 DEF Hilos
<1>8. ASSUME NEW g \in Hilos PROVE DOMAIN hilo'[g] = Campos /\ PasosBien(hilo'[g].pasos)
  BY <1>1, <1>2, <1>3, <1>4 DEF TiposHilos
<1>9. TiposHilos'
  BY <1>2, <1>8 DEF TiposHilos
<1>10. /\ Debe(hilo["planificador"].pasos) \in Nat /\ Debe(hilo["loader"].pasos) \in Nat
  BY Numeros
<1>11. \E d \in Nat : Deuda = Debe(p) + d /\ Deuda' = Debe(Tail(p)) + d
  <2>1. CASE h = "planificador"
    <3>1. hilo'["loader"] = hilo["loader"]
      BY <1>6, <2>1
    <3> QED
      BY <1>3, <1>10, <2>1, <3>1 DEF Deuda
  <2>2. CASE h = "loader"
    <3>1. hilo'["planificador"] = hilo["planificador"]
      BY <1>2, <2>2 DEF Hilos
    <3>2. Deuda = Debe(hilo["planificador"].pasos) + Debe(p)
      BY <2>2 DEF Deuda
    <3>3. Deuda' = Debe(hilo["planificador"].pasos) + Debe(Tail(p))
      BY <1>3, <2>2, <3>1 DEF Deuda
    <3> HIDE DEF p
    <3> QED
      BY <1>4, <1>10, <3>2, <3>3
  <2> QED
    BY <2>1, <2>2 DEF Hilos
<1> HIDE DEF p
<1> QED
  BY <1>4, <1>9, <1>11

\* The thread h, which was idle, has the calls p to make.
LEMMA HiloEmpieza ==
  ASSUME IInv, NEW h \in Hilos, Libre(h), NEW f, hilo' = [hilo EXCEPT ![h] = f],
         DOMAIN f = Campos, PasosBien(f.pasos)
  PROVE  TiposHilos' /\ Deuda' = Deuda + Debe(f.pasos) /\ Debe(f.pasos) \in Nat
<1>1. TiposHilos /\ hilo[h].pasos = <<>>
  BY DEF IInv, Tipos, Libre
<1>2. DOMAIN hilo' = Hilos /\ hilo'[h] = f /\ \A g \in Hilos \ {h} : hilo'[g] = hilo[g]
  BY <1>1 DEF TiposHilos
<1>3. h # "loader" => hilo'["loader"] = hilo["loader"]
  BY <1>2 DEF Hilos
<1>4. h # "planificador" => hilo'["planificador"] = hilo["planificador"]
  BY <1>2 DEF Hilos
<1>5. TiposHilos'
  BY <1>1, <1>2, <1>3 DEF TiposHilos
<1>6. Debe(f.pasos) \in Nat
  BY DebeNat
<1>7. Debe(hilo[h].pasos) = 0 /\ Debe(hilo'[h].pasos) = Debe(f.pasos)
  BY <1>1, <1>2, SinCalls
<1>8. /\ Debe(hilo["planificador"].pasos) \in Nat /\ Debe(hilo["loader"].pasos) \in Nat
  BY Numeros
<1>9. Deuda' = Deuda + Debe(f.pasos)
  <2>1. CASE h = "planificador"
    <3>1. Deuda' = Debe(f.pasos) + Debe(hilo["loader"].pasos)
      BY <1>3, <1>7, <2>1 DEF Deuda
    <3>2. Deuda = 0 + Debe(hilo["loader"].pasos)
      BY <1>7, <2>1 DEF Deuda
    <3> QED
      BY <1>6, <1>8, <3>1, <3>2
  <2>2. CASE h = "loader"
    <3>1. Deuda' = Debe(hilo["planificador"].pasos) + Debe(f.pasos)
      BY <1>4, <1>7, <2>2 DEF Deuda
    <3>2. Deuda = Debe(hilo["planificador"].pasos) + 0
      BY <1>7, <2>2 DEF Deuda
    <3> QED
      BY <1>6, <1>8, <3>1, <3>2
  <2> QED
    BY <2>1, <2>2 DEF Hilos
<1> QED
  BY <1>5, <1>6, <1>9

\* Steps that do not touch the threads of the Kernel.
LEMMA HilosIguales ==
  ASSUME IInv, UNCHANGED hilo
  PROVE  TiposHilos' /\ Deuda' = Deuda
BY DEF IInv, Tipos, TiposHilos, Deuda

\* Steps that do not touch dispatcher's counter, the queues or the semaphore.
LEMMA Resto ==
  ASSUME IInv
  PROVE  /\ UNCHANGED disp => TiposDisp' /\ Tomadas' = Tomadas
         /\ (\E i : LiberarDeExec(i)) => TiposDisp' /\ Tomadas' = Tomadas /\ disp'.pc = disp.pc
         /\ UNCHANGED <<ready, SYS_CALL, sem_procesoListo>> => TiposColas'
<1>1. TiposDisp /\ TiposColas
  BY DEF IInv, Tipos
<1>2. ASSUME NEW i, LiberarDeExec(i)
      PROVE  TiposDisp' /\ Tomadas' = Tomadas /\ disp'.pc = disp.pc
  <2>1. DOMAIN disp' = {"pc", "tcb", "cpu"} /\ disp'.pc = disp.pc
    BY <1>1, <1>2 DEF LiberarDeExec, TiposDisp
  <2> QED
    BY <2>1 DEF TiposDisp, Tomadas
<1>3. UNCHANGED disp => TiposDisp' /\ Tomadas' = Tomadas
  BY <1>1 DEF TiposDisp, Tomadas
<1>4. UNCHANGED <<ready, SYS_CALL, sem_procesoListo>> => TiposColas'
  BY <1>1 DEF TiposColas
<1> QED
  BY <1>2, <1>3, <1>4

\* What a step that is neither a wait nor a removal of loader leaves as it was.
Conserva == IInv' /\ Parejo

\* The ways in which it adds up: nothing changes,
LEMMA MismoSaldo ==
  ASSUME IInv, TiposHilos', TiposDisp', TiposColas', HayLlamada',
         UNCHANGED <<sem_procesoListo, ready, SYS_CALL>>, Deuda' = Deuda, Tomadas' = Tomadas
  PROVE  Conserva
BY DEF Conserva, IInv, Tipos, Parejo

\* what was owed is posted,
LEMMA SePaga ==
  ASSUME IInv, TiposHilos', TiposDisp', HayLlamada',
         sem_procesoListo' = sem_procesoListo + 1, UNCHANGED <<ready, SYS_CALL>>,
         Deuda' \in Nat, Deuda = Deuda' + 1, Tomadas' = Tomadas
  PROVE  Conserva
<1> DEFINE s == sem_procesoListo
           d == Deuda'
           t == Tomadas
           n == 2 * (Len(ready) + Len(SYS_CALL))
<1>1. s \in Nat /\ d \in Nat /\ t \in Nat /\ n \in Nat
  <2>1. s \in Nat /\ t \in Nat /\ Len(ready) \in Nat /\ Len(SYS_CALL) \in Nat
    BY Numeros DEF IInv, Tipos, TiposColas
  <2> QED
    BY <2>1
<1>2. TiposColas'
  BY <1>1 DEF IInv, Tipos, TiposColas
<1> HIDE DEF s, d, t, n
<1>3. (s + 1) + d + t + n = s + (d + 1) + t + n
  BY <1>1
<1>4. sem_procesoListo' + Deuda' + Tomadas' + n = sem_procesoListo + Deuda + Tomadas + n
  BY <1>3, Zenon DEF s, d, t
<1> QED
  BY <1>2, <1>4 DEF n, Conserva, IInv, Tipos, Parejo

\* a thread or a system call is queued and what announces it is owed or posted,
LEMMA SeEncola ==
  ASSUME IInv, TiposHilos', TiposDisp', TiposColas', HayLlamada',
         UNCHANGED sem_procesoListo, Deuda' = Deuda + 2, Tomadas' = Tomadas,
         \/ Len(ready') = Len(ready) + 1 /\ Len(SYS_CALL') = Len(SYS_CALL)
         \/ Len(ready') = Len(ready) /\ Len(SYS_CALL') = Len(SYS_CALL) + 1
  PROVE  Conserva
<1> DEFINE s == sem_procesoListo
           d == Deuda
           t == Tomadas
           n == Len(ready) + Len(SYS_CALL)
           n1 == Len(ready') + Len(SYS_CALL')
<1>1. s \in Nat /\ d \in Nat /\ t \in Nat /\ n \in Nat /\ n1 = n + 1
  <2>1. /\ s \in Nat /\ d \in Nat /\ t \in Nat
        /\ Len(ready) \in Nat /\ Len(SYS_CALL) \in Nat
    BY Numeros DEF IInv, Tipos, TiposColas
  <2> QED
    BY <2>1
<1> HIDE DEF s, d, t, n, n1
<1>2. s + (d + 2) + t + 2 * n = s + d + t + 2 * n1
  BY <1>1
<1>3. sem_procesoListo' + Deuda' + Tomadas' + 2 * n
        = sem_procesoListo + Deuda + Tomadas + 2 * n1
  BY <1>2, Zenon DEF s, d, t
<1> QED
  BY <1>3 DEF n, n1, Conserva, IInv, Tipos, Parejo

\* dispatcher takes a token,
LEMMA SeToma ==
  ASSUME IInv, TiposHilos', TiposDisp', HayLlamada',
         sem_procesoListo > 0, sem_procesoListo' = sem_procesoListo - 1,
         UNCHANGED <<ready, SYS_CALL>>, Deuda' = Deuda, Tomadas' = Tomadas + 1
  PROVE  Conserva
<1> DEFINE s == sem_procesoListo
           d == Deuda
           t == Tomadas
           n == 2 * (Len(ready) + Len(SYS_CALL))
<1>1. s \in Nat /\ d \in Nat /\ t \in Nat /\ n \in Nat /\ s > 0
  <2>1. /\ s \in Nat /\ d \in Nat /\ t \in Nat
        /\ Len(ready) \in Nat /\ Len(SYS_CALL) \in Nat
    BY Numeros DEF IInv, Tipos, TiposColas
  <2> QED
    BY <2>1
<1>2. TiposColas'
  BY <1>1 DEF IInv, Tipos, TiposColas
<1> HIDE DEF s, d, t, n
<1>3. (s - 1) + d + (t + 1) + n = s + d + t + n
  BY <1>1
<1>4. sem_procesoListo' + Deuda' + Tomadas' + n = sem_procesoListo + Deuda + Tomadas + n
  BY <1>3, Zenon DEF s, d, t
<1> QED
  BY <1>2, <1>4 DEF n, Conserva, IInv, Tipos, Parejo

\* and it takes a thread or a system call for the two it had.
LEMMA SeSaca ==
  ASSUME IInv, TiposHilos', TiposDisp', TiposColas', HayLlamada',
         UNCHANGED sem_procesoListo, Deuda' = Deuda, Tomadas = 2, Tomadas' = 0,
         \/ Len(ready) = Len(ready') + 1 /\ Len(SYS_CALL') = Len(SYS_CALL)
         \/ Len(ready') = Len(ready) /\ Len(SYS_CALL) = Len(SYS_CALL') + 1
  PROVE  Conserva
<1> DEFINE s == sem_procesoListo
           d == Deuda
           n == Len(ready) + Len(SYS_CALL)
           n1 == Len(ready') + Len(SYS_CALL')
<1>1. s \in Nat /\ d \in Nat /\ n1 \in Nat /\ n = n1 + 1
  <2>1. s \in Nat /\ d \in Nat /\ Len(ready) \in Nat /\ Len(SYS_CALL) \in Nat
    BY Numeros DEF IInv, Tipos, TiposColas
  <2>2. Len(ready') \in Nat /\ Len(SYS_CALL') \in Nat
    BY DEF TiposColas, Secuencia
  <2> QED
    BY <2>1, <2>2
<1> HIDE DEF s, d, n, n1
<1>2. s + d + 0 + 2 * n = s + d + 2 + 2 * n1
  BY <1>1
<1>3. sem_procesoListo' + Deuda' + Tomadas' + 2 * n
        = sem_procesoListo + Deuda + Tomadas + 2 * n1
  BY <1>2, Zenon DEF s, d
<1> QED
  BY <1>3 DEF n, n1, Conserva, IInv, Tipos, Parejo

\* Steps that touch none of what the invariant is about.
LEMMA Ajeno ==
  ASSUME IInv, UNCHANGED <<ready, SYS_CALL, sem_procesoListo, hilo>>,
         TiposDisp', Tomadas' = Tomadas, disp'.pc # "km" \/ disp'.pc = disp.pc
  PROVE  Conserva
<1>1. HayLlamada'
  BY DEF IInv, HayLlamada
<1>2. TiposHilos' /\ Deuda' = Deuda /\ TiposColas'
  BY HilosIguales, Resto
<1> QED
  BY <1>1, <1>2, MismoSaldo

\* A call that neither queues nor announces.
LEMMA CallMuda ==
  ASSUME IInv, NEW h \in Hilos, NEW f, DOMAIN f = Campos, f.pasos = hilo[h].pasos,
         NEW x, x \notin {"encolar", "avisar"}, EnPaso(h, x), Sigue(h, f),
         UNCHANGED <<ready, SYS_CALL, sem_procesoListo>>,
         UNCHANGED disp \/ \E i : LiberarDeExec(i)
  PROVE  Conserva
<1>1. TiposHilos' /\ Deuda' = Deuda
  BY HiloSigue
<1>2. TiposDisp' /\ Tomadas' = Tomadas /\ disp'.pc = disp.pc /\ TiposColas'
  BY Resto
<1>3. HayLlamada'
  BY <1>2 DEF IInv, HayLlamada
<1> QED
  BY <1>1, <1>2, <1>3, MismoSaldo

-------------------------------------------------------------------------------
(* The steps *)

\* What planificador and loader have in common.
LEMMA PasoComun ==
  ASSUME IInv, NEW h \in Hilos, Comun(h)
  PROVE  Conserva
<1>1. DOMAIN hilo[h] = Campos
  BY DEF IInv, Tipos, TiposHilos
<1>2. CASE SumarTID(h)
  <2> DEFINE f == [hilo[h] EXCEPT !.n = TID + 1]
  <2>1. /\ EnPaso(h, "sumar") /\ Sigue(h, f)
        /\ UNCHANGED <<ready, SYS_CALL, sem_procesoListo, disp>>
    BY <1>2 DEF SumarTID, colas, semaforos
  <2>2. DOMAIN f = Campos /\ f.pasos = hilo[h].pasos
    BY <1>1 DEF Campos
  <2> HIDE DEF f
  <2> QED
    BY <2>1, <2>2, CallMuda
<1>3. CASE MeterEnReady(h)
  <2>1. /\ EnPaso(h, "encolar") /\ Sigue(h, hilo[h]) /\ ready' = Append(ready, hilo[h].tcb)
        /\ UNCHANGED <<SYS_CALL, sem_procesoListo, disp, consola_list>>
    BY <1>3 DEF MeterEnReady, semaforos, tablas
  <2>2. TiposHilos' /\ Deuda' = Deuda + 2
    BY <1>1, <2>1, HiloSigue
  <2>3. TiposDisp' /\ Tomadas' = Tomadas
    BY <2>1, Resto
  <2>4. Secuencia(ready') /\ Len(ready') = Len(ready) + 1
    <3>1. PICK S : ready \in Seq(S)
      BY DEF IInv, Tipos, TiposColas, Secuencia
    <3>2. ready \in Seq(S \cup {hilo[h].tcb})
      BY <3>1
    <3>3. ready' \in Seq(S \cup {hilo[h].tcb}) /\ Len(ready') = Len(ready) + 1
      BY <2>1, <3>2
    <3> QED
      BY <3>3 DEF Secuencia
  <2>5. TiposColas' /\ HayLlamada'
    BY <2>1, <2>4 DEF IInv, Tipos, TiposColas, HayLlamada
  <2> QED
    BY <2>1, <2>2, <2>3, <2>4, <2>5, SeEncola
<1>4. CASE Avisar(h)
  <2>1. /\ EnPaso(h, "avisar") /\ Sigue(h, hilo[h]) /\ sem_procesoListo' = sem_procesoListo + 1
        /\ UNCHANGED <<ready, SYS_CALL, disp, consola_list>>
    BY <1>4 DEF Avisar, colas, tablas
  <2>2. TiposHilos' /\ Deuda' \in Nat /\ Deuda = Deuda' + 1
    BY <1>1, <2>1, HiloSigue
  <2>3. TiposDisp' /\ Tomadas' = Tomadas
    BY <2>1, Resto
  <2>4. HayLlamada'
    BY <2>1 DEF IInv, HayLlamada
  <2> QED
    BY <2>1, <2>2, <2>3, <2>4, SePaga
<1> QED
  BY <1>2, <1>3, <1>4 DEF Comun

\* Each call of planificador.
LEMMA PasoPlanificador ==
  ASSUME IInv, Planificador
  PROVE  Conserva
<1> DEFINE h == "planificador"
           yo == hilo[h]
<1>1. DOMAIN yo = Campos /\ h \in Hilos
  BY DEF IInv, Tipos, TiposHilos, Hilos
<1>2. ASSUME NEW x, x \notin {"encolar", "avisar"}, EnPaso(h, x), Sigue(h, yo),
             UNCHANGED <<ready, SYS_CALL, sem_procesoListo>>,
             UNCHANGED disp \/ \E i : LiberarDeExec(i)
      PROVE  Conserva
  BY <1>1, <1>2, CallMuda
<1>3. CASE Comun(h)
  BY <1>1, <1>3, PasoComun
<1>4. CASE ResponderHilo
  BY <1>2, <1>4 DEF ResponderHilo, colas, semaforos
<1>5. CASE ContarHilo
  BY <1>2, <1>5 DEF ContarHilo, colas, semaforos
<1>6. CASE SacarDeEjecucion
  BY <1>2, <1>6 DEF SacarDeEjecucion, semaforos
<1>7. CASE Exit
  BY <1>2, <1>7 DEF Exit, semaforos
<1>8. CASE FinKM
  <2>1. /\ EnPaso(h, "finKM")
        /\ Sigue(h, yo) \/ \E s : Sigue(h, [yo EXCEPT !.tcb = s])
        /\ UNCHANGED <<ready, SYS_CALL, sem_procesoListo, disp>>
    BY <1>8 DEF FinKM, semaforos
  <2>2. ASSUME NEW s, Sigue(h, [yo EXCEPT !.tcb = s]) PROVE Conserva
    <3> DEFINE f == [yo EXCEPT !.tcb = s]
    <3>1. DOMAIN f = Campos /\ f.pasos = yo.pasos /\ Sigue(h, f)
      BY <1>1, <2>2 DEF Campos
    <3> HIDE DEF f
    <3> QED
      BY <1>1, <2>1, <3>1, CallMuda
  <2> QED
    BY <1>2, <2>1, <2>2
<1>9. CASE PostKM
  BY <1>2, <1>9 DEF PostKM, colas
<1>10. CASE LiberarBit
  BY <1>2, <1>10 DEF LiberarBit, colas, semaforos
<1>11. CASE LiberarExec
  BY <1>2, <1>11 DEF LiberarExec, semaforos
<1>12. CASE LiberarPost
  BY <1>2, <1>12 DEF LiberarPost, colas
<1> QED
  BY <1>3, <1>4, <1>5, <1>6, <1>7, <1>8, <1>9, <1>10, <1>11, <1>12 DEF Planificador

\* matar_hijos goes on to other calls, none of which queues or announces.
LEMMA Cuenta ==
  ASSUME IInv, NEW x, x \notin {"encolar", "avisar"}, EnPaso("loader", x),
         NEW q \in Seq(Mudos), LoaderPasa(q),
         UNCHANGED <<ready, SYS_CALL, sem_procesoListo, disp>>
  PROVE  Conserva
<1> DEFINE p == hilo["loader"].pasos
<1>1. /\ TiposHilos /\ PasosBien(p) /\ p # <<>> /\ Head(p) = x /\ "loader" \in Hilos
      /\ DOMAIN hilo["loader"] = Campos
  BY DEF IInv, Tipos, TiposHilos, EnPaso, Hilos
<1>2. Debe(p) = 0
  BY <1>1, DebeTail
<1>3. PasosBien(q) /\ Debe(q) = 0
  BY SinCalls, ConEncola
<1>4. /\ DOMAIN hilo' = Hilos /\ \A g \in Hilos \ {"loader"} : hilo'[g] = hilo[g]
      /\ DOMAIN hilo'["loader"] = Campos /\ hilo'["loader"].pasos = q
  BY <1>1 DEF TiposHilos, LoaderPasa, Campos
<1>5. TiposHilos'
  BY <1>1, <1>3, <1>4 DEF TiposHilos
<1>6. hilo'["planificador"] = hilo["planificador"]
  BY <1>4 DEF Hilos
<1>7. Deuda' = Deuda
  BY <1>2, <1>3, <1>4, <1>6 DEF Deuda
<1>8. TiposDisp' /\ Tomadas' = Tomadas /\ TiposColas'
  BY Resto
<1>9. HayLlamada'
  BY DEF IInv, HayLlamada
<1> QED
  BY <1>5, <1>7, <1>8, <1>9, MismoSaldo

\* The positions of a sequence that satisfy something are a number of them.
LEMMA CuantosHay ==
  ASSUME NEW s, Secuencia(s), NEW I \in SUBSET DOMAIN s
  PROVE  Cardinality(I) \in Nat
<1>1. PICK S : s \in Seq(S)
  BY DEF Secuencia
<1>2. IsFiniteSet(DOMAIN s)
  BY <1>1, FS_Interval
<1> QED
  BY <1>2, FS_Subset, FS_CardinalityType

\* The calls of matar_hijos.
LEMMA RepetidoMudo ==
  ASSUME NEW n \in Nat, NEW x \in Mudos, NEW y \in Mudos
  PROVE  /\ Repetido(x, n) \o <<y>> \in Seq(Mudos)
         /\ (<<"esperar", "esperar">> \o Repetido(x, n)) \o <<y>> \in Seq(Mudos)
<1>1. Repetido(x, n) \in Seq(Mudos) /\ <<y>> \in Seq(Mudos)
  BY DEF Repetido
<1>2. <<"esperar", "esperar">> \in Seq(Mudos)
  BY DEF Mudos
<1>3. \A a, b \in Seq(Mudos) : a \o b \in Seq(Mudos)
  BY Concatena
<1> QED
  BY <1>1, <1>2, <1>3


\* A queue from which the first that satisfies something is removed, if there is one.
LEMMA Quitada ==
  ASSUME NEW s, Secuencia(s), NEW I \in SUBSET (1 .. Len(s)),
         NEW i, i = IF I # {} THEN Min(I) ELSE 0,
         NEW t, t = s \/ (I # {} /\ t = RemoveAt(s, i))
  PROVE  Secuencia(t)
<1>1. PICK S : s \in Seq(S)
  BY DEF Secuencia
<1>2. Len(s) \in Nat
  BY <1>1
<1>3. I # {} => i \in 1 .. Len(s)
  BY <1>2, MinDeIndices
<1>4. I # {} => RemoveAt(s, i) \in Seq(S)
  BY <1>1, <1>3, QuitarPosicion
<1> QED
  BY <1>1, <1>4 DEF Secuencia

\* block.prioridad_1 and hilos_join are sequences, which loader counts.
Secuencias == Secuencia(bloq) /\ Secuencia(hilos_join)

\* A thread that was idle starts, and what it has to do pays for itself.
LEMMA Empieza ==
  ASSUME IInv, NEW h \in Hilos, Libre(h), NEW f, hilo' = [hilo EXCEPT ![h] = f],
         DOMAIN f = Campos, PasosBien(f.pasos), Debe(f.pasos) = 0,
         UNCHANGED disp \/ \E i : LiberarDeExec(i),
         UNCHANGED <<ready, SYS_CALL, sem_procesoListo>>
  PROVE  Conserva
<1>1. TiposHilos' /\ Deuda' = Deuda + Debe(f.pasos)
  BY HiloEmpieza
<1>2. Deuda' = Deuda
  BY <1>1, Numeros
<1>3. TiposDisp' /\ Tomadas' = Tomadas /\ TiposColas' /\ disp'.pc = disp.pc
  BY Resto
<1>4. HayLlamada'
  BY <1>3 DEF IInv, HayLlamada
<1> QED
  BY <1>1, <1>2, <1>3, <1>4, MismoSaldo

\* Each call of loader.
LEMMA PasoLoader ==
  ASSUME IInv, Secuencias, Loader
  PROVE  IInv' /\ (Parejo \/ EsperarListo \/ MatarReady)
<1> DEFINE yo == hilo["loader"]
<1>1. DOMAIN yo = Campos /\ "loader" \in Hilos /\ TiposDisp /\ TiposColas
  BY DEF IInv, Tipos, TiposHilos, Hilos
<1>2. ASSUME NEW x, x \notin {"encolar", "avisar"}, EnPaso("loader", x), Sigue("loader", yo),
             UNCHANGED <<ready, SYS_CALL, sem_procesoListo, disp>>
      PROVE  Conserva
  BY <1>1, <1>2, CallMuda
<1>3. ASSUME NEW p \in PIDs, RecibirPrograma(p) PROVE Conserva
  <2> DEFINE a == <<"sumar", "padre">>
             f == [Reposo EXCEPT !.pasos = a \o encola, !.id = p]
  <2>1. /\ Libre("loader") /\ hilo' = [hilo EXCEPT !["loader"] = f]
        /\ UNCHANGED <<ready, SYS_CALL, sem_procesoListo, disp>>
    BY <1>3 DEF RecibirPrograma, colas, semaforos
  <2>2. PasosBien(a \o encola) /\ Debe(a \o encola) = 0
    <3>1. a \in Seq(Mudos) /\ <<>> \in Seq(Mudos)
      BY DEF Mudos
    <3>2. a \o encola \in Seq(Calls)
      <4>1. a \in Seq(Calls) /\ encola \in Seq(Calls)
        BY DEF Calls, Mudos, encola
      <4> QED
        BY <4>1, Concatena
    <3>3. (a \o encola) \o <<>> = a \o encola
      BY <3>2, ConcatEmptySeq
    <3> QED
      BY <3>1, <3>3, ConEncola
  <2>3. DOMAIN f = Campos /\ f.pasos = a \o encola
    BY DEF Reposo, Campos
  <2> HIDE DEF f
  <2> QED
    BY <1>1, <2>1, <2>2, <2>3, Empieza
<1>4. ASSUME NEW p \in PIDs, RecibirDesconexion(p) PROVE Conserva
  <2> DEFINE f == [Reposo EXCEPT !.pasos = <<"contarReady">>, !.id = p]
  <2>1. /\ Libre("loader")
        /\ hilo' = [hilo EXCEPT !["loader"] = f] \/ UNCHANGED hilo
        /\ UNCHANGED <<ready, SYS_CALL, sem_procesoListo, disp>>
    BY <1>4 DEF RecibirDesconexion, colas, semaforos
  <2>2. PasosBien(<<"contarReady">>) /\ Debe(<<"contarReady">>) = 0
    <3>1. <<"contarReady">> \in Seq(Mudos)
      BY DEF Mudos
    <3> QED
      BY <3>1, SinCalls, ConEncola
  <2>3. DOMAIN f = Campos /\ f.pasos = <<"contarReady">>
    BY DEF Reposo, Campos
  <2>4. CASE UNCHANGED hilo
    BY <1>1, <2>1, <2>4, Resto, Ajeno
  <2>5. CASE hilo' = [hilo EXCEPT !["loader"] = f]
    <3> HIDE DEF f
    <3> QED
      BY <1>1, <2>1, <2>2, <2>3, <2>5, Empieza
  <2> QED
    BY <2>1, <2>4, <2>5
<1>5. ASSUME Comun("loader") PROVE Conserva
  BY <1>1, <1>5, PasoComun
<1>6. ASSUME CrearPadre PROVE Conserva
  <2> DEFINE f == [yo EXCEPT !.tcb = hiloUsuario(yo.id, yo.n)]
  <2>1. /\ EnPaso("loader", "padre") /\ Sigue("loader", f)
        /\ UNCHANGED <<ready, SYS_CALL, sem_procesoListo, disp>>
    BY <1>6 DEF CrearPadre, colas, semaforos
  <2>2. DOMAIN f = Campos /\ f.pasos = yo.pasos
    BY <1>1 DEF Campos
  <2> HIDE DEF f
  <2> QED
    BY <1>1, <2>1, <2>2, CallMuda
<1>7. ASSUME ContarReady PROVE Conserva
  <2> DEFINE n == Cardinality(Propios(ready))
             q == <<"esperar", "esperar">> \o Repetido("matarReady", n) \o <<"contarBloq">>
  <2>1. /\ EnPaso("loader", "contarReady") /\ LoaderPasa(q)
        /\ UNCHANGED <<ready, SYS_CALL, sem_procesoListo, disp>>
    BY <1>7 DEF ContarReady, colas, semaforos
  <2>2. n \in Nat
    BY <1>1, CuantosHay DEF Propios, TiposColas
  <2>3. "matarReady" \in Mudos /\ "contarBloq" \in Mudos
    BY DEF Mudos
  <2> HIDE DEF n
  <2>4. q \in Seq(Mudos)
    BY <2>2, <2>3, RepetidoMudo
  <2> HIDE DEF q
  <2> QED
    BY <2>1, <2>4, Cuenta
<1>8. CASE EsperarListo
  <2>1. /\ EnPaso("loader", "esperar") /\ Sigue("loader", yo) /\ sem_procesoListo > 0
        /\ sem_procesoListo' = sem_procesoListo - 1
        /\ UNCHANGED <<ready, SYS_CALL, disp>>
    BY <1>8 DEF EsperarListo, colas
  <2>2. TiposHilos' /\ TiposDisp'
    BY <1>1, <2>1, HiloSigue, Resto
  <2>3. TiposColas' /\ HayLlamada'
    BY <1>1, <2>1 DEF TiposColas, IInv, HayLlamada
  <2> QED
    BY <1>8, <2>2, <2>3 DEF IInv, Tipos
<1>9. CASE MatarReady
  <2> DEFINE I == {j \in 1 .. Len(ready) : ready[j].pid = hilo["loader"].id}
             i == SelectInSeq(ready, LAMBDA s : s.pid = hilo["loader"].id)
  <2>1. /\ EnPaso("loader", "matarReady") /\ Sigue("loader", yo)
        /\ UNCHANGED <<SYS_CALL, sem_procesoListo, disp>>
        /\ IF i = 0 THEN UNCHANGED ready ELSE ready' = RemoveAt(ready, i)
    BY <1>9 DEF MatarReady, semaforos
  <2>2. TiposHilos' /\ TiposDisp'
    BY <1>1, <2>1, HiloSigue, Resto
  <2>3. i = IF I # {} THEN Min(I) ELSE 0
    BY DEF SelectInSeq
  <2>4. I \in SUBSET (1 .. Len(ready)) /\ Secuencia(ready)
    BY <1>1 DEF TiposColas
  <2> HIDE DEF I, i
  <2>5. Secuencia(ready')
    BY <2>1, <2>3, <2>4, Quitada
  <2>6. TiposColas' /\ HayLlamada'
    BY <1>1, <2>1, <2>5 DEF TiposColas, IInv, HayLlamada
  <2> QED
    BY <1>9, <2>2, <2>6 DEF IInv, Tipos
<1>10. ASSUME ContarBloq PROVE Conserva
  <2> DEFINE I == {j \in DOMAIN bloq : bloq[j].tcb.pid = hilo["loader"].id}
             n == Cardinality(I)
             q == Repetido("matarBloq", n) \o <<"contarSysCall">>
  <2>1. /\ EnPaso("loader", "contarBloq") /\ LoaderPasa(q)
        /\ UNCHANGED <<ready, SYS_CALL, sem_procesoListo, disp>>
    BY <1>10 DEF ContarBloq, colas, semaforos
  <2>2. n \in Nat
    BY CuantosHay DEF Secuencias
  <2>3. "matarBloq" \in Mudos /\ "contarSysCall" \in Mudos
    BY DEF Mudos
  <2> HIDE DEF n
  <2>4. q \in Seq(Mudos)
    BY <2>2, <2>3, RepetidoMudo
  <2> HIDE DEF q
  <2> QED
    BY <2>1, <2>4, Cuenta
<1>11. ASSUME MatarBloq PROVE Conserva
  BY <1>2, <1>11 DEF MatarBloq, semaforos
<1>12. ASSUME ContarSysCall PROVE Conserva
  <2> DEFINE I == {j \in DOMAIN hilos_join : hilos_join[j].llamador.pid = hilo["loader"].id}
             n == Cardinality(I)
             q == Repetido("matarJoin", n) \o <<"contarDic">>
  <2>1. /\ EnPaso("loader", "contarSysCall") /\ LoaderPasa(q)
        /\ UNCHANGED <<ready, SYS_CALL, sem_procesoListo, disp>>
    BY <1>12 DEF ContarSysCall, colas, semaforos
  <2>2. n \in Nat
    BY CuantosHay DEF Secuencias
  <2>3. "matarJoin" \in Mudos /\ "contarDic" \in Mudos
    BY DEF Mudos
  <2> HIDE DEF n
  <2>4. q \in Seq(Mudos)
    BY <2>2, <2>3, RepetidoMudo
  <2> HIDE DEF q
  <2> QED
    BY <2>1, <2>4, Cuenta
<1>13. ASSUME MatarJoin PROVE Conserva
  BY <1>2, <1>13 DEF MatarJoin, semaforos
<1>14. ASSUME ContarDic PROVE Conserva
  BY <1>2, <1>14 DEF ContarDic, colas, semaforos
<1>15. ASSUME NEW c \in CPUs, se_produjo_entrada(c) PROVE Conserva
  <2>1. UNCHANGED <<ready, SYS_CALL, sem_procesoListo, hilo, disp>>
    BY <1>15 DEF se_produjo_entrada, colas, semaforos
  <2> QED
    BY <2>1, Resto, Ajeno
<1> QED
  BY <1>3, <1>4, <1>5, <1>6, <1>7, <1>8, <1>9, <1>10, <1>11, <1>12, <1>13, <1>14, <1>15
  DEF Loader, Conserva

\* Each step of dispatcher.
LEMMA PasoDispatcher ==
  ASSUME IInv, Dispatcher
  PROVE  Conserva
<1>1. TiposDisp /\ TiposColas
  BY DEF IInv, Tipos
<1>2. ASSUME UNCHANGED hilo PROVE TiposHilos' /\ Deuda' = Deuda
  BY <1>2, HilosIguales
<1>4. ASSUME NEW a, NEW b, <<a, b>> \in {<<"listo1", "cpu">>, <<"listo2", "elegir">>},
             EsperarProceso(a, b)
      PROVE  Conserva
  <2>1. /\ disp.pc = a /\ sem_procesoListo > 0 /\ sem_procesoListo' = sem_procesoListo - 1
        /\ disp' = [disp EXCEPT !.pc = b] /\ UNCHANGED <<ready, SYS_CALL, hilo>>
    BY <1>4 DEF EsperarProceso, EnPC, colas
  <2>2. (a = "listo1" /\ b = "cpu") \/ (a = "listo2" /\ b = "elegir")
    BY <1>4
  <2>3. TiposDisp' /\ disp'.pc = b
    BY <1>1, <2>1 DEF TiposDisp
  <2>4. Tomadas' = Tomadas + 1 /\ HayLlamada'
    BY <2>1, <2>2, <2>3 DEF Tomadas, HayLlamada
  <2> QED
    BY <1>2, <2>1, <2>3, <2>4, SeToma
<1>5. CASE EsperarCPU
  <2>1. /\ disp.pc = "cpu" /\ disp' = [disp EXCEPT !.pc = "listo2"]
        /\ UNCHANGED <<ready, SYS_CALL, sem_procesoListo, hilo>>
    BY <1>5 DEF EsperarCPU, EnPC, colas
  <2>2. TiposDisp' /\ disp'.pc = "listo2" /\ Tomadas' = Tomadas
    BY <1>1, <2>1 DEF TiposDisp, Tomadas
  <2> QED
    BY <2>1, <2>2, Ajeno
<1>6. CASE SacarDeReady
  <2>1. disp.pc = "elegir" /\ UNCHANGED <<SYS_CALL, sem_procesoListo, hilo>>
    BY <1>6 DEF SacarDeReady, EnPC, semaforos
  <2>2. CASE UNCHANGED <<ready, disp>>
    <3>1. TiposDisp' /\ Tomadas' = Tomadas
      BY <2>2, Resto
    <3> QED
      BY <2>1, <2>2, <3>1, Ajeno
  <2>3. CASE /\ ready # <<>> /\ ready' = Tail(ready)
             /\ disp' = [disp EXCEPT !.pc = "buscar", !.tcb = Head(ready)]
    <3>1. TiposDisp' /\ disp'.pc = "buscar"
      BY <1>1, <2>3 DEF TiposDisp
    <3>2. Tomadas = 2 /\ Tomadas' = 0 /\ HayLlamada'
      BY <2>1, <3>1 DEF Tomadas, HayLlamada
    <3>3. Secuencia(ready') /\ Len(ready) = Len(ready') + 1
      <4>1. PICK S : ready \in Seq(S)
        BY <1>1 DEF TiposColas, Secuencia
      <4>2. ready' \in Seq(S) /\ Len(ready) = Len(ready') + 1
        BY <2>3, <4>1
      <4> QED
        BY <4>2 DEF Secuencia
    <3>4. TiposColas'
      BY <1>1, <2>1, <3>3 DEF TiposColas
    <3> QED
      BY <1>2, <2>1, <3>1, <3>2, <3>3, <3>4, SeSaca
  <2> QED
    BY <1>6, <2>2, <2>3 DEF SacarDeReady
<1>7. CASE ElegirSysCall
  <2>1. /\ disp.pc = "elegir" /\ SYS_CALL # <<>> /\ disp' = [disp EXCEPT !.pc = "km"]
        /\ UNCHANGED <<ready, SYS_CALL, sem_procesoListo, hilo>>
    BY <1>7 DEF ElegirSysCall, EnPC, colas, semaforos
  <2>2. TiposDisp' /\ disp'.pc = "km" /\ Tomadas' = Tomadas
    BY <1>1, <2>1 DEF TiposDisp, Tomadas
  <2>3. HayLlamada' /\ TiposColas'
    BY <2>1, Resto DEF HayLlamada
  <2> QED
    BY <1>2, <2>1, <2>2, <2>3, MismoSaldo
<1>8. CASE AtenderSysCall
  <2>1. disp.pc = "km" /\ UNCHANGED <<ready, sem_procesoListo, hilo>>
    BY <1>8 DEF AtenderSysCall, EnPC
  <2>2. CASE UNCHANGED <<SYS_CALL, disp>>
    <3>1. TiposDisp' /\ Tomadas' = Tomadas
      BY <2>2, Resto
    <3> QED
      BY <2>1, <2>2, <3>1, Ajeno
  <2>3. CASE /\ SYS_CALL # <<>> /\ SYS_CALL' = Tail(SYS_CALL)
             /\ \E s : disp' = [disp EXCEPT !.pc = "buscar", !.tcb = s]
    <3>1. TiposDisp' /\ disp'.pc = "buscar"
      BY <1>1, <2>3 DEF TiposDisp
    <3>2. Tomadas = 2 /\ Tomadas' = 0 /\ HayLlamada'
      BY <2>1, <3>1 DEF Tomadas, HayLlamada
    <3>3. Secuencia(SYS_CALL') /\ Len(SYS_CALL) = Len(SYS_CALL') + 1
      <4>1. PICK S : SYS_CALL \in Seq(S)
        BY <1>1 DEF TiposColas, Secuencia
      <4>2. SYS_CALL' \in Seq(S) /\ Len(SYS_CALL) = Len(SYS_CALL') + 1
        BY <2>3, <4>1
      <4> QED
        BY <4>2 DEF Secuencia
    <3>4. TiposColas'
      BY <1>1, <2>1, <3>3 DEF TiposColas
    <3> QED
      BY <1>2, <2>1, <3>1, <3>2, <3>3, <3>4, SeSaca
  <2> QED
    BY <1>8, <2>2, <2>3 DEF AtenderSysCall
<1>9. CASE BuscarCPU
  <2>1. /\ disp.pc = "buscar" /\ \E c : disp' = [disp EXCEPT !.pc = "exec", !.cpu = c]
        /\ UNCHANGED <<ready, SYS_CALL, sem_procesoListo, hilo>>
    BY <1>9 DEF BuscarCPU, EnPC, colas, semaforos
  <2>2. TiposDisp' /\ disp'.pc = "exec" /\ Tomadas' = Tomadas
    BY <1>1, <2>1 DEF TiposDisp, Tomadas
  <2> QED
    BY <2>1, <2>2, Ajeno
<1>10. CASE AgregarAExec
  <2>1. /\ disp.pc = "exec" /\ disp' = [disp EXCEPT !.pc = "enviar"]
        /\ UNCHANGED <<ready, SYS_CALL, sem_procesoListo, hilo>>
    BY <1>10 DEF AgregarAExec, EnPC, semaforos
  <2>2. TiposDisp' /\ disp'.pc = "enviar" /\ Tomadas' = Tomadas
    BY <1>1, <2>1 DEF TiposDisp, Tomadas
  <2> QED
    BY <2>1, <2>2, Ajeno
<1>11. CASE EnviarOrden
  <2>1. /\ disp.pc = "enviar" /\ disp' = [pc |-> "listo1", tcb |-> Nulo, cpu |-> 0]
        /\ UNCHANGED <<ready, SYS_CALL, sem_procesoListo, hilo>>
    BY <1>11 DEF EnviarOrden, EnPC, colas, semaforos
  <2>2. TiposDisp' /\ disp'.pc = "listo1" /\ Tomadas' = Tomadas
    BY <1>1, <2>1 DEF TiposDisp, Tomadas
  <2> QED
    BY <2>1, <2>2, Ajeno
<1> QED
  BY <1>4, <1>5, <1>6, <1>7, <1>8, <1>9, <1>10, <1>11 DEF Dispatcher

\* The connections, the CPUs and the users.
LEMMA PasoEntorno ==
  ASSUME IInv, \/ Boot \/ \E p \in PIDs : CerrarConsola(p)
               \/ \E c \in CPUs : CPU(c) \/ IngresarDatos(c)
  PROVE  Conserva
<1>1. ASSUME UNCHANGED disp PROVE TiposDisp' /\ Tomadas' = Tomadas
  BY <1>1, Resto
<1>2. ASSUME UNCHANGED <<ready, SYS_CALL, sem_procesoListo, hilo, disp>>
      PROVE  Conserva
  BY <1>1, <1>2, Ajeno
<1>3. ASSUME NEW c \in CPUs, ConectarCPU(c) PROVE Conserva
  BY <1>2, <1>3 DEF ConectarCPU, colas
<1>4. CASE ConectarConsola
  BY <1>2, <1>4 DEF ConectarConsola, colas, semaforos
<1>5. ASSUME NEW c \in CPUs, TerminarUsuario(c) PROVE Conserva
  BY <1>2, <1>5 DEF TerminarUsuario, Terminar, colas, semaforos
<1>6. ASSUME NEW c \in CPUs, LlamarKernel(c) PROVE Conserva
  BY <1>2, <1>6 DEF LlamarKernel, colas, semaforos
<1>7. ASSUME NEW c \in CPUs, PlanificarHilo(c) PROVE Conserva
  BY <1>2, <1>7 DEF PlanificarHilo, colas, semaforos
<1>8. ASSUME NEW c \in CPUs, TerminarKM(c) PROVE Conserva
  BY <1>2, <1>8 DEF TerminarKM, Terminar, colas, semaforos
<1>9. ASSUME NEW c \in CPUs, IngresarDatos(c) PROVE Conserva
  BY <1>2, <1>9 DEF IngresarDatos, colas, semaforos
<1>10. ASSUME NEW p \in PIDs, CerrarConsola(p) PROVE Conserva
  BY <1>2, <1>10 DEF CerrarConsola, colas, semaforos
<1> QED
  BY <1>3, <1>4, <1>5, <1>6, <1>7, <1>8, <1>9, <1>10 DEF Boot, CPU

\* The messages of the CPUs: planificador starts a handler.
LEMMA PasoRecibir ==
  ASSUME IInv, NEW c \in CPUs, RecibirDe(c)
  PROVE  Conserva
<1> DEFINE h == "planificador"
<1>1. h \in Hilos /\ TiposColas
  BY DEF IInv, Tipos, Hilos
<1>2. ASSUME NEW op, NEW p, NEW s, Recibir(c, op, p, s), PasosBien(p)
      PROVE  TiposHilos' /\ Deuda' = Deuda + Debe(p) /\ Debe(p) \in Nat
  <2> DEFINE f == IF p = <<>> THEN Reposo ELSE [pasos |-> p, tcb |-> s, n |-> 0, id |-> c]
  <2>1. Libre(h) /\ hilo' = [hilo EXCEPT ![h] = f]
    BY <1>2 DEF Recibir
  <2>2. DOMAIN f = Campos /\ f.pasos = p
    BY SinCalls DEF Campos
  <2> HIDE DEF f
  <2> QED
    BY <1>1, <1>2, <2>1, <2>2, HiloEmpieza
<1>3. ASSUME NEW op, NEW p, NEW s, Recibir(c, op, p, s), PasosBien(p), Debe(p) = 0,
             UNCHANGED disp \/ \E i : LiberarDeExec(i),
             UNCHANGED <<ready, SYS_CALL, sem_procesoListo>>
      PROVE  Conserva
  <2> DEFINE f == IF p = <<>> THEN Reposo ELSE [pasos |-> p, tcb |-> s, n |-> 0, id |-> c]
  <2>1. Libre(h) /\ hilo' = [hilo EXCEPT ![h] = f]
    BY <1>3 DEF Recibir
  <2>2. DOMAIN f = Campos /\ f.pasos = p
    BY SinCalls DEF Campos
  <2> HIDE DEF f
  <2> QED
    BY <1>1, <1>3, <2>1, <2>2, Empieza
<1>4. /\ libera \in Seq(Mudos) /\ <<>> \in Seq(Mudos) /\ <<"sacar", "exit">> \in Seq(Mudos)
      /\ <<"finKM">> \in Seq(Mudos) /\ <<"postKM">> \in Seq(Mudos)
      /\ <<"sumar", "responder">> \in Seq(Mudos) /\ <<"contar">> \in Seq(Mudos)
  BY DEF libera, Mudos
<1>5. \A a, b \in Seq(Mudos) : a \o b \in Seq(Mudos)
  BY Concatena
<1>6. \A a, b \in Seq(Calls) : a \o b \in Seq(Calls)
  BY Concatena
<1>7. Seq(Mudos) \subseteq Seq(Calls) /\ encola \in Seq(Calls)
  BY DEF Calls, encola
<1>8. \A a, b, d \in Seq(Calls) : (a \o b) \o d = a \o (b \o d)
  BY ConcatAssociative
<1>9. \A a \in Seq(Calls) : <<>> \o a = a /\ a \o <<>> = a
  BY ConcatEmptySeq
<1> DEFINE Bueno(p) == PasosBien(p) /\ Debe(p) = 0
<1>10. \A a \in Seq(Mudos) : Bueno(a)
  BY <1>4, ConEncola
<1>11. \A b \in Seq(Mudos) : Bueno(encola \o b)
  <2> SUFFICES ASSUME NEW b \in Seq(Mudos) PROVE Bueno(encola \o b)
    OBVIOUS
  <2>1. <<>> \o encola = encola
    BY <1>7, <1>9
  <2>2. Bueno((<<>> \o encola) \o b)
    BY <1>4, ConEncola
  <2> HIDE DEF Bueno
  <2> QED
    BY <2>1, <2>2
<1>12. Bueno(encola)
  <2>1. encola \o <<>> = encola
    BY <1>7, <1>9
  <2> HIDE DEF Bueno
  <2> QED
    BY <1>4, <1>11, <2>1
<1>13. ASSUME NEW s PROVE Bueno(finaliza(s) \o libera) /\ Bueno(libera \o finaliza(s))
  <2> DEFINE k == <<"finKM">> \o encola
  <2>1. CASE s.km
    <3>1. finaliza(s) = k \o <<"postKM">> /\ k \in Seq(Calls)
      BY <1>4, <1>6, <1>7, <2>1 DEF finaliza
    <3> HIDE DEF Bueno
    <3>2. Bueno(k \o (<<"postKM">> \o libera))
      BY <1>4, <1>5, ConEncola DEF Bueno
    <3>3. finaliza(s) \o libera = k \o (<<"postKM">> \o libera)
      BY <1>4, <1>7, <1>8, <3>1
    <3>4. Bueno(((libera \o <<"finKM">>) \o encola) \o <<"postKM">>)
      BY <1>4, <1>5, ConEncola DEF Bueno
    <3>5. (libera \o <<"finKM">>) \o encola = libera \o k
      BY <1>4, <1>7, <1>8
    <3>6. libera \o finaliza(s) = (libera \o k) \o <<"postKM">>
      BY <1>4, <1>7, <1>8, <3>1
    <3> QED
      BY <3>2, <3>3, <3>4, <3>5, <3>6
  <2>2. CASE ~ s.km
    <3>1. finaliza(s) = <<"sacar", "exit">>
      BY <2>2 DEF finaliza
    <3> HIDE DEF Bueno
    <3> QED
      BY <1>4, <1>5, <1>10, <3>1
  <2> QED
    BY <2>1, <2>2
<1>14. CASE finalizo_quantum(c)
  <2>1. /\ UNCHANGED <<ready, SYS_CALL, sem_procesoListo>>
        /\ UNCHANGED disp \/ \E i : LiberarDeExec(i)
    BY <1>14 DEF finalizo_quantum, semaforos
  <2>2. \E p \in {libera, <<"sacar", "exit">> \o libera, encola \o libera} :
          Recibir(c, "finaliza_quantum", p, Recibido(c))
    BY <1>14 DEF finalizo_quantum
  <2>3. Bueno(libera) /\ Bueno(<<"sacar", "exit">> \o libera) /\ Bueno(encola \o libera)
    <3> HIDE DEF Bueno
    <3> QED
      BY <1>4, <1>5, <1>10, <1>11
  <2> QED
    BY <1>3, <2>1, <2>2, <2>3
<1>15. CASE finalizo_ejecucion(c)
  BY <1>3, <1>13, <1>15 DEF finalizo_ejecucion, colas, semaforos
<1>16. CASE ejecucion_erronea(c)
  BY <1>3, <1>13, <1>16 DEF ejecucion_erronea, colas, semaforos
<1>17. CASE interrumpir(c)
  <2> DEFINE m == Head(mensajes[c])
             p == <<"avisar", "avisar">> \o libera
  <2>1. /\ Recibir(c, "interrupcion", p, m.tcb) /\ SYS_CALL' = Append(SYS_CALL, m.tcb)
        /\ UNCHANGED <<ready, sem_procesoListo, disp>>
    BY <1>17 DEF interrumpir, semaforos
  <2>2. PasosBien(p) /\ Debe(p) = 2
    BY <1>4, ConAvisos
  <2> HIDE DEF p
  <2>3. TiposHilos' /\ Deuda' = Deuda + 2
    BY <1>2, <2>1, <2>2
  <2>4. TiposDisp' /\ Tomadas' = Tomadas
    BY <2>1, Resto
  <2>5. PICK S : SYS_CALL \in Seq(S)
    BY <1>1 DEF TiposColas, Secuencia
  <2>6. SYS_CALL \in Seq(S \cup {m.tcb})
    BY <2>5
  <2> HIDE DEF m
  <2>7. /\ SYS_CALL' \in Seq(S \cup {m.tcb}) /\ Len(SYS_CALL') = Len(SYS_CALL) + 1
        /\ SYS_CALL' # <<>>
    BY <2>1, <2>6
  <2>8. TiposColas' /\ HayLlamada'
    BY <1>1, <2>1, <2>7 DEF TiposColas, Secuencia, HayLlamada
  <2> QED
    BY <2>1, <2>3, <2>4, <2>7, <2>8, SeEncola
<1>18. CASE crear_hilo(c)
  <2>1. /\ \E s : Recibir(c, "creacion_hilo", <<"sumar", "responder">>, s)
        /\ UNCHANGED <<ready, SYS_CALL, sem_procesoListo, disp>>
    BY <1>18 DEF crear_hilo, colas, semaforos
  <2> QED
    BY <1>3, <1>4, <1>10, <2>1
<1>19. CASE planificar_hilo_creado(c)
  <2>1. Bueno(encola \o <<"contar">>)
    <3> HIDE DEF Bueno
    <3> QED
      BY <1>4, <1>11
  <2> QED
    BY <1>3, <1>19, <2>1 DEF planificar_hilo_creado, colas, semaforos
<1>20. CASE realizar_join(c)
  BY <1>3, <1>4, <1>10, <1>20 DEF realizar_join, semaforos
<1>21. CASE realizar_bloqueo(c)
  BY <1>3, <1>4, <1>10, <1>21 DEF realizar_bloqueo, semaforos
<1>22. CASE realizar_desbloqueo(c)
  <2>1. /\ \E p \in {encola, <<>>} : \E s : Recibir(c, "despertar", p, s)
        /\ UNCHANGED <<ready, SYS_CALL, sem_procesoListo, disp>>
    BY <1>22 DEF realizar_desbloqueo, semaforos
  <2> QED
    BY <1>3, <1>4, <1>10, <1>12, <2>1
<1>23. CASE producir_entrada_estandar(c)
  BY <1>3, <1>4, <1>10, <1>23 DEF producir_entrada_estandar, colas, semaforos
<1> QED
  BY <1>14, <1>15, <1>16, <1>17, <1>18, <1>19, <1>20, <1>21, <1>22, <1>23 DEF RecibirDe

LEMMA IniciaSecuencias == Init => Secuencias
<1>1. Secuencia(<<>>)
  <2>1. <<>> \in Seq({})
    OBVIOUS
  <2> QED
    BY <2>1 DEF Secuencia
<1> QED
  BY <1>1 DEF Init, Secuencias

\* What the steps do to the two queues.
LEMMA PasoSecuencias == Secuencias /\ [Next]_vars => Secuencias'
<1> SUFFICES ASSUME Secuencias, [Next]_vars PROVE Secuencias'
  OBVIOUS
<1>1. ASSUME UNCHANGED <<bloq, hilos_join>> PROVE Secuencias'
  BY <1>1 DEF Secuencias
<1>3. CASE SacarDeEjecucion
  <2> DEFINE t == hilo["planificador"].tcb.tid
             I == {j \in 1 .. Len(hilos_join) : hilos_join[j].tid = t}
             i == SelectInSeq(hilos_join, LAMBDA j : j.tid = t)
  <2>1. i = IF I # {} THEN Min(I) ELSE 0
    BY DEF SelectInSeq
  <2>2. UNCHANGED bloq /\ (hilos_join' = hilos_join \/ (I # {} /\ hilos_join' = RemoveAt(hilos_join, i)))
    BY <1>3 DEF SacarDeEjecucion, RemoveFirstMatch
  <2>3. I \in SUBSET (1 .. Len(hilos_join))
    OBVIOUS
  <2> HIDE DEF I, i
  <2> QED
    BY <2>1, <2>2, <2>3, Quitada DEF Secuencias
<1>4. CASE MatarJoin
  <2> DEFINE p == hilo["loader"].id
             I == {j \in 1 .. Len(hilos_join) : hilos_join[j].llamador.pid = p}
             i == SelectInSeq(hilos_join, LAMBDA j : j.llamador.pid = p)
  <2>1. i = IF I # {} THEN Min(I) ELSE 0
    BY DEF SelectInSeq
  <2>2. UNCHANGED bloq /\ (hilos_join' = hilos_join \/ (I # {} /\ hilos_join' = RemoveAt(hilos_join, i)))
    BY <1>4, <2>1 DEF MatarJoin
  <2>3. I \in SUBSET (1 .. Len(hilos_join))
    OBVIOUS
  <2> HIDE DEF I, i
  <2> QED
    BY <2>1, <2>2, <2>3, Quitada DEF Secuencias
<1>5. CASE FinKM
  <2> DEFINE t == hilo["planificador"].tcb.tid
             I == {j \in 1 .. Len(bloq) : bloq[j].tcb.tid = t}
             i == SelectInSeq(bloq, LAMBDA b : b.tcb.tid = t)
  <2>1. i = IF I # {} THEN Min(I) ELSE 0
    BY DEF SelectInSeq
  <2>2. UNCHANGED hilos_join /\ (bloq' = bloq \/ (I # {} /\ bloq' = RemoveAt(bloq, i)))
    BY <1>5, <2>1 DEF FinKM
  <2>3. I \in SUBSET (1 .. Len(bloq))
    OBVIOUS
  <2> HIDE DEF I, i
  <2> QED
    BY <2>1, <2>2, <2>3, Quitada DEF Secuencias
<1>6. CASE MatarBloq
  <2> DEFINE p == hilo["loader"].id
             I == {j \in 1 .. Len(bloq) : bloq[j].tcb.pid = p}
             i == SelectInSeq(bloq, LAMBDA b : b.tcb.pid = p)
  <2>1. i = IF I # {} THEN Min(I) ELSE 0
    BY DEF SelectInSeq
  <2>2. UNCHANGED hilos_join /\ (bloq' = bloq \/ (I # {} /\ bloq' = RemoveAt(bloq, i)))
    BY <1>6, <2>1 DEF MatarBloq
  <2>3. I \in SUBSET (1 .. Len(bloq))
    OBVIOUS
  <2> HIDE DEF I, i
  <2> QED
    BY <2>1, <2>2, <2>3, Quitada DEF Secuencias
<1>7. ASSUME NEW s, Secuencia(s), NEW e PROVE Secuencia(Append(s, e))
  <2>1. PICK S : s \in Seq(S)
    BY <1>7 DEF Secuencia
  <2>2. s \in Seq(S \cup {e})
    BY <2>1
  <2>3. Append(s, e) \in Seq(S \cup {e})
    BY <2>2
  <2> QED
    BY <2>3 DEF Secuencia
<1>8. ASSUME NEW c, interrumpir(c) PROVE Secuencias'
  BY <1>7, <1>8 DEF interrumpir, Secuencias
<1>9. ASSUME NEW c, realizar_join(c) PROVE Secuencias'
  BY <1>7, <1>9 DEF realizar_join, Secuencias
<1>10. CASE UNCHANGED vars
  BY <1>1, <1>10 DEF vars, colas
<1>11. CASE Boot
  BY <1>1, <1>11 DEF Boot, ConectarCPU, ConectarConsola, colas
<1>12. CASE Dispatcher
  BY <1>1, <1>12 DEF Dispatcher, EsperarProceso, EsperarCPU, SacarDeReady, ElegirSysCall,
                     AtenderSysCall, BuscarCPU, AgregarAExec, EnviarOrden, colas
<1>13. ASSUME NEW h, Comun(h) PROVE Secuencias'
  BY <1>1, <1>13 DEF Comun, SumarTID, MeterEnReady, Avisar, colas
<1>14. CASE Planificador
  BY <1>1, <1>3, <1>5, <1>13, <1>14 DEF Planificador, ResponderHilo, ContarHilo, Exit, PostKM,
                                        LiberarBit, LiberarExec, LiberarPost, colas
<1>15. CASE Loader
  BY <1>1, <1>4, <1>6, <1>13, <1>15 DEF Loader, RecibirPrograma, RecibirDesconexion, CrearPadre,
       ContarReady, EsperarListo, MatarReady, ContarBloq, ContarSysCall, ContarDic,
       se_produjo_entrada, colas
<1>16. ASSUME NEW c, RecibirDe(c) PROVE Secuencias'
  BY <1>1, <1>8, <1>9, <1>16 DEF RecibirDe, finalizo_quantum, finalizo_ejecucion,
       ejecucion_erronea, crear_hilo, planificar_hilo_creado, realizar_bloqueo,
       realizar_desbloqueo, producir_entrada_estandar, colas
<1>17. ASSUME NEW c, CPU(c) \/ IngresarDatos(c) PROVE Secuencias'
  BY <1>1, <1>17 DEF CPU, TerminarUsuario, LlamarKernel, PlanificarHilo, TerminarKM, Terminar,
                     IngresarDatos, colas
<1>18. ASSUME NEW p, CerrarConsola(p) PROVE Secuencias'
  BY <1>1, <1>18 DEF CerrarConsola, colas
<1> QED
  BY <1>10, <1>11, <1>12, <1>14, <1>15, <1>16, <1>17, <1>18 DEF Next

\* What the steps do to what is owed, taken and posted.
LEMMA Paso ==
  ASSUME IInv, Secuencias, [Next]_vars
  PROVE  IInv' /\ (Parejo \/ EsperarListo \/ MatarReady)
<1>1. CASE UNCHANGED vars
  <2>1. UNCHANGED <<ready, SYS_CALL, sem_procesoListo, hilo, disp>>
    BY <1>1 DEF vars, colas, semaforos
  <2>2. Conserva
    BY <2>1, Resto, Ajeno
  <2> QED
    BY <2>2 DEF Conserva
<1>2. CASE Loader
  BY <1>2, PasoLoader
<1>3. CASE Dispatcher \/ Planificador
  BY <1>3, PasoDispatcher, PasoPlanificador DEF Conserva
<1>4. ASSUME NEW c \in CPUs, RecibirDe(c) PROVE IInv' /\ Parejo
  BY <1>4, PasoRecibir DEF Conserva
<1>5. ASSUME \/ Boot \/ \E p \in PIDs : CerrarConsola(p)
             \/ \E c \in CPUs : CPU(c) \/ IngresarDatos(c)
      PROVE  IInv' /\ Parejo
  BY <1>5, PasoEntorno DEF Conserva
<1> QED
  BY <1>1, <1>2, <1>3, <1>4, <1>5, Zenon DEF Next

\* The same, as the property counts it.
LEMMA PasoSaldo ==
  ASSUME SaldoEs, SaldoEs', Parejo
  PROVE  SaldoListo' = SaldoListo
<1> DEFINE a == sem_procesoListo
           b == Deuda
           d == Tomadas
           n == Len(ready) + Len(SYS_CALL)
           a1 == sem_procesoListo'
           b1 == Deuda'
           d1 == Tomadas'
           n1 == Len(ready') + Len(SYS_CALL')
<1>1. a \in Nat /\ b \in Nat /\ d \in Nat /\ n \in Nat
  BY DEF SaldoEs
<1>2. a1 \in Nat /\ b1 \in Nat /\ d1 \in Nat /\ n1 \in Nat
  BY DEF SaldoEs
<1>3. a1 + b1 + d1 + 2 * n = a + b + d + 2 * n1
  BY DEF Parejo
<1>4. SaldoListo = a + b + d - 2 * n /\ SaldoListo' = a1 + b1 + d1 - 2 * n1
  BY DEF SaldoEs
<1> HIDE DEF a, b, d, n, a1, b1, d1, n1
<1> QED
  BY <1>1, <1>2, <1>3, <1>4

\* A wait of loader takes a token that is not for it.
LEMMA EsperaBaja ==
  ASSUME IInv, SaldoEs, SaldoEs', EsperarListo
  PROVE  SaldoListo' = SaldoListo - 1
<1>1. /\ EnPaso("loader", "esperar") /\ Sigue("loader", hilo["loader"])
      /\ sem_procesoListo' = sem_procesoListo - 1
      /\ UNCHANGED <<ready, SYS_CALL, disp>>
  BY DEF EsperarListo, colas
<1>2. "loader" \in Hilos /\ DOMAIN hilo["loader"] = Campos
  BY DEF IInv, Tipos, TiposHilos, Hilos
<1>3. Deuda' = Deuda /\ Tomadas' = Tomadas
  BY <1>1, <1>2, HiloSigue, Resto
<1> DEFINE a == sem_procesoListo
           b == Deuda
           d == Tomadas
           n == Len(ready) + Len(SYS_CALL)
<1>4. a \in Nat /\ b \in Nat /\ d \in Nat /\ n \in Nat
  BY DEF SaldoEs
<1>5. SaldoListo = a + b + d - 2 * n /\ SaldoListo' = (a - 1) + b + d - 2 * n
  BY <1>1, <1>3 DEF SaldoEs
<1> HIDE DEF a, b, d, n
<1> QED
  BY <1>4, <1>5

-------------------------------------------------------------------------------
(* The theorems *)

\* There are two tokens of sem_procesoListo for each thread in ready and each system call
\* that waits, counting those dispatcher has taken and those that planificador and loader
\* have still to post, and no step of theirs in any order parts the two, except the waits
\* and the removals with which loader takes a console's threads out of ready.
THEOREM FichasListoSiempre == Spec => FichasListo
<1>1. Init => IInv /\ Secuencias /\ SaldoListo = 0
  BY IniciaSecuencias, Inicio
<1>2. IInv /\ Secuencias /\ [Next]_vars => IInv' /\ Secuencias'
  BY Paso, PasoSecuencias
<1>3. IInv => SaldoEs
  BY Fichas
<1>4. IInv /\ Secuencias /\ SaldoEs /\ SaldoEs' /\ [Next]_vars
        => [SaldoListo' = SaldoListo \/ EsperarListo \/ MatarReady]_vars
  BY Paso, PasoSaldo
<1> QED
  BY <1>1, <1>2, <1>3, <1>4, PTL DEF Spec, FichasListo

\* dispatcher tests nothing between its two waits and the queue: there is a thread or a
\* call for it to take.
HayQueDespachar ==
  /\ disp.pc = "elegir" => ready # <<>> \/ SYS_CALL # <<>>
  /\ disp.pc = "km" => SYS_CALL # <<>>

\* With two tokens taken, queues that are empty leave tokens over.
LEMMA ColaOSobra ==
  ASSUME IInv, SaldoEs
  PROVE  HayQueDespachar \/ SaldoListo > 0
<1>1. ASSUME disp.pc = "elegir", ready = <<>>, SYS_CALL = <<>> PROVE SaldoListo > 0
  <2>1. Tomadas = 2 /\ Len(ready) = 0 /\ Len(SYS_CALL) = 0
    BY <1>1 DEF Tomadas
  <2>2. SaldoListo = sem_procesoListo + Deuda + 2 - 2 * (0 + 0)
    BY <2>1 DEF SaldoEs
  <2> QED
    BY <2>2 DEF SaldoEs
<1> QED
  BY <1>1 DEF IInv, HayLlamada, HayQueDespachar

\* In every behaviour, dispatcher takes a TCB out of a queue that is empty, and the Kernel
\* falls, only when there are more tokens than threads and calls.
THEOREM SiempreHayQueDespachar == Spec => [](HayQueDespachar \/ SaldoListo > 0)
<1>1. Init => IInv /\ Secuencias
  BY IniciaSecuencias, Inicio
<1>2. IInv /\ Secuencias /\ [Next]_vars => IInv' /\ Secuencias'
  BY Paso, PasoSecuencias
<1>3. IInv => HayQueDespachar \/ SaldoListo > 0
  BY Fichas, ColaOSobra
<1> QED
  BY <1>1, <1>2, <1>3, PTL DEF Spec

\* There are no tokens over.
NoSobran == IInv /\ Secuencias /\ SaldoEs /\ SaldoListo <= 0

\* And only the removal of a ready thread by loader leaves tokens over: however many
\* consoles leave, and whatever tokens loader takes, dispatcher never takes from an empty
\* queue before loader has taken a thread from it.
THEOREM HayQueDespacharHastaMatar == Spec /\ [][~ MatarReady]_vars => []HayQueDespachar
<1>1. Init => NoSobran
  <2>1. Init => IInv /\ Secuencias /\ SaldoListo = 0
    BY IniciaSecuencias, Inicio
  <2> QED
    BY <2>1, Fichas DEF NoSobran
<1>2. NoSobran /\ SaldoEs' /\ [Next]_vars /\ [~ MatarReady]_vars => NoSobran'
  <2> SUFFICES ASSUME NoSobran, SaldoEs', [Next]_vars, [~ MatarReady]_vars PROVE NoSobran'
    OBVIOUS
  <2>1. IInv' /\ Secuencias' /\ (Parejo \/ EsperarListo \/ MatarReady)
    BY Paso, PasoSecuencias DEF NoSobran
  <2>2. SaldoListo \in Int
    BY DEF NoSobran, SaldoEs
  <2>3. ASSUME Parejo PROVE SaldoListo' <= 0
    BY <2>3, PasoSaldo DEF NoSobran
  <2>4. ASSUME EsperarListo PROVE SaldoListo' <= 0
    <3>1. SaldoListo' = SaldoListo - 1
      BY <2>4, EsperaBaja DEF NoSobran
    <3> QED
      BY <2>2, <3>1 DEF NoSobran
  <2>5. ASSUME MatarReady PROVE Parejo
    <3>1. UNCHANGED vars
      BY <2>5
    <3>2. UNCHANGED <<ready, SYS_CALL, sem_procesoListo, hilo, disp>>
      BY <3>1 DEF vars, colas, semaforos
    <3>3. Conserva
      BY <3>2, Resto, Ajeno DEF NoSobran
    <3> QED
      BY <3>3 DEF Conserva
  <2> QED
    BY <2>1, <2>3, <2>4, <2>5 DEF NoSobran
<1>3. IInv => SaldoEs
  BY Fichas
<1>4. /\ NoSobran => IInv /\ Secuencias
      /\ IInv /\ Secuencias /\ [Next]_vars => IInv'
  BY Paso DEF NoSobran
<1>5. NoSobran => HayQueDespachar
  <2> SUFFICES ASSUME NoSobran PROVE HayQueDespachar
    OBVIOUS
  <2>1. HayQueDespachar \/ SaldoListo > 0
    BY ColaOSobra DEF NoSobran
  <2>2. SaldoListo \in Int
    BY DEF NoSobran, SaldoEs
  <2> QED
    BY <2>1, <2>2 DEF NoSobran
<1> QED
  BY <1>1, <1>2, <1>3, <1>4, <1>5, PTL DEF Spec

====================================================================================
