-------------------------------- MODULE CPURefina --------------------------------
(*****************************************************************************)
(* The CPU, with its TCBs, implements MaquinaESO.                            *)
(*****************************************************************************)
EXTENDS CPU

Visible(r) == [x \in {"A", "B", "C", "D", "E", "S"} |-> r[x]]

\* An activation that goes on at P in the code of process p.
Marco(p, r) == [espacio |-> p, pc |-> r["P"], r |-> Visible(r)]
Rutina(s, dir) == Marco(PIDkm, [s.r EXCEPT !["P"] = dir])

\* The activations of a thread whose last message is m.
Enviados(t, m) ==
  CASE m.op = "finaliza_quantum" -> <<Marco(m.tcb.pid, m.tcb.r)>>
    [] m.op = "interrupcion"     -> <<Rutina(m.tcb, m.dir), Marco(m.tcb.pid, m.tcb.r)>>
    [] m.tcb.km -> LET s == hilos[t].tcb IN
                   <<Marco(s.pid, ConRegistrosDe(s.r, m.tcb.r, Programacion))>>
    [] OTHER -> <<>>

\* Where thread t is: in the CPU, in a message, or in the Kernel.
Marcos(t) ==
  LET s == hilos[t].tcb
      suyos == SelectSeq(mensajes, LAMBDA m : m.tcb.tid = t /\ m.op # "desconexion")
  IN
  IF cpu.estado # "espera" /\ cpu.tid = t
  THEN IF cpu.km THEN <<Marco(PIDkm, cpu.r), Marco(s.pid, s.r)>> ELSE <<Marco(cpu.pid, cpu.r)>>
  ELSE IF suyos # <<>> THEN Enviados(t, Head(suyos))
  ELSE CASE hilos[t].estado = "listo"   -> <<Marco(s.pid, s.r)>>
         [] hilos[t].estado = "llamada" -> <<Rutina(s, hilos[t].dir), Marco(s.pid, s.r)>>
         [] OTHER -> <<>>

Maquina == INSTANCE MaquinaESO WITH
  hilo   <- [t \in DOMAIN hilos |-> Marcos(t)],
  parada <- cpu.estado = "caida"

\* Whatever the turns, each thread executes its program as if it were alone: preemption,
\* TCBs and the kernel thread it borrows lose none of its registers, and each access goes
\* to the memory of the process it should.
ImplementaMaquina == Maquina!Spec
================================================================================
