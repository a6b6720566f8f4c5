------------------------------ MODULE VidaHilos -------------------------------
(*****************************************************************************)
(* What the Kernel promises of a thread: it is ready, runs on one of the     *)
(* CPUs, waits for a system call, has it executed by the only kernel thread, *)
(* and ends once.  Queues, semaphores and messages are not seen.             *)
(*****************************************************************************)
EXTENDS Integers, FiniteSets

CONSTANTS
  Hilos,   \* threads
  NumCPU   \* CPUs

VARIABLE vida

Vidas == {"ausente", "listo", "corre", "llama", "sistema", "fin"}

En(v) == {t \in Hilos : vida[t] = v}

Pasa(t, de, a) == t \in En(de) /\ vida' = [vida EXCEPT ![t] = a]

HayCPU == Cardinality(En("corre") \cup En("sistema")) < NumCPU

Nace(t)     == Pasa(t, "ausente", "listo")
Despacha(t) == HayCPU /\ Pasa(t, "listo", "corre")
Quantum(t)  == Pasa(t, "corre", "listo")
Llama(t)    == Pasa(t, "corre", "llama")
Atiende(t)  == HayCPU /\ En("sistema") = {} /\ Pasa(t, "llama", "sistema")
Vuelve(t)   == Pasa(t, "sistema", "listo")
Termina(t)  == Pasa(t, "corre", "fin")
Aborta(t)   == Pasa(t, "listo", "fin")

Init == vida = [t \in Hilos |-> "ausente"]

Next ==
  \E t \in Hilos :
    \/ Nace(t) \/ Despacha(t) \/ Quantum(t) \/ Llama(t) \/ Atiende(t)
    \/ Vuelve(t) \/ Termina(t) \/ Aborta(t)

Spec == Init /\ [][Next]_vida

===============================================================================
