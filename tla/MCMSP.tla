--------------------------------- MODULE MCMSP ---------------------------------
(*****************************************************************************)
(* Constants of MSP for TLC.                                                 *)
(*****************************************************************************)
EXTENDS MSPRefina, TLC

CONSTANTS h1, h2

Simetria == Permutations({h1, h2})

\* Two-byte pages: three bytes over two pages, or one byte; process 1 writes
\* ones and process 2 twos.  The reads span the two pages.
LecturasMC ==
  {[pid |-> p, sid |-> s, pag |-> 0, desp |-> 1, tamanio |-> 2] :
     p \in PIDs, s \in SIDs}

EscriturasMC ==
  {[pid |-> p, sid |-> s, pag |-> 0, desp |-> 0, bytes |-> <<p, p, p>>] :
     p \in PIDs, s \in SIDs}
  \cup
  {[pid |-> p, sid |-> s, pag |-> 0, desp |-> 1, bytes |-> <<p>>] :
     p \in PIDs, s \in SIDs}

\* With one more write, of one byte in the second page.
EscriturasTambienPag1 ==
  EscriturasMC
  \cup
  {[pid |-> p, sid |-> s, pag |-> 1, desp |-> 0, bytes |-> <<p>>] :
     p \in PIDs, s \in SIDs}

\* One-byte pages: page 10 of segment 0 of process 1 and page 0 of segment 1 of
\* process 10 have the same swap file, "1010".
Puntos ==
  {[pid |-> 1, sid |-> 0, pag |-> 10, desp |-> 0],
   [pid |-> 10, sid |-> 1, pag |-> 0, desp |-> 0],
   [pid |-> 10, sid |-> 0, pag |-> 0, desp |-> 0]}

LecturasChoque ==
  {[pid |-> d.pid, sid |-> d.sid, pag |-> d.pag, desp |-> d.desp, tamanio |-> 1] :
     d \in Puntos}

EscriturasChoque ==
  {[pid |-> d.pid, sid |-> d.sid, pag |-> d.pag, desp |-> d.desp, bytes |-> <<d.pid>>] :
     d \in Puntos}
=================================================================================
