----------------------------- MODULE KernelRefina -----------------------------
(*****************************************************************************)
(* The Kernel implements VidaHilos: where the life of a thread is in its     *)
(* queues, hands and messages.  A turn changes the life when the CPU ends it *)
(* and not when the Kernel hears of it.                                      *)
(*****************************************************************************)
EXTENDS Kernel

EnTurno(t, km) ==
  \E c \in CPUs : \E i \in DOMAIN turno[c] : turno[c][i].tid = t /\ turno[c][i].km = km

\* A message of the thread t that ends a turn, with one of the operations ops.
Aviso(t, ops) ==
  \E c \in CPUs : \E i \in DOMAIN mensajes[c] :
    LET m == mensajes[c][i] IN m.op \in ops /\ m.tcb.tid = t /\ ~ m.tcb.km

EnCola(s, t) == \E i \in DOMAIN s : s[i].tid = t

VidaDe(t) ==
  CASE EnTurno(t, FALSE) -> "corre"
    [] EnTurno(t, TRUE)  -> "sistema"
    [] \/ EnCola(SYS_CALL, t) \/ Aviso(t, {"interrupcion"})
       \/ Despacha /\ disp.tcb.km /\ disp.tcb.tid = t -> "llama"
    [] \/ Aviso(t, {"finaliza_ejecucion", "ejecucion_erronea"})
       \/ Falta("planificador", "exit") /\ hilo["planificador"].tcb.tid = t -> "fin"
    [] Vivos(LAMBDA s : s.tid = t) > 0 -> "listo"
    [] OTHER -> IF EnCola(e_exit, t) THEN "fin" ELSE "ausente"

VH == INSTANCE VidaHilos WITH Hilos <- TIDs, vida <- [t \in TIDs |-> VidaDe(t)]

\* The Kernel runs on a CPU what is ready, serves one system call at a time and gives
\* back its thread, and ends a thread once.
ImplementaVida == VH!Spec

===============================================================================
