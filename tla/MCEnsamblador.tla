------------------------------ MODULE MCEnsamblador ------------------------------
(* Sources of one file, and of two that go on at the same addresses. *)
EXTENDS Ensamblador

Etiq(nombre)  == [tipo |-> "etiqueta", nombre |-> nombre, nota |-> FALSE]
Ins(op, ps)   == [tipo |-> "instruccion", op |-> op, parametros |-> ps]
Ref(nombre)   == [t |-> "ref", nombre |-> nombre]
Reg(r)        == [t |-> "reg", r |-> r]
Num(n)        == [t |-> "num", n |-> n]

Corrientes == {
  Etiq("L"), Etiq("K"), [tipo |-> "data"],
  Ins("LOAD", <<Reg("A"), Ref("L")>>), Ins("JMPZ", <<Ref("L")>>), Ins("XXXX", <<>>) }

Raras == {
  [tipo |-> "etiqueta", nombre |-> "L", nota |-> TRUE], [tipo |-> "comentario"],
  [tipo |-> "vacia"], [tipo |-> "texto", largo |-> 3], [tipo |-> "numero", n |-> 7],
  Ins("LOAD", <<Reg("A")>>), Ins("MOVR", <<Reg("F"), Num(3)>>), Ins("PIPO", <<>>),
  Ins("SETM", <<Ref("K"), Reg("B"), Reg("F")>>), Ins("INTE", <<Ref("K")>>),
  Ins("INTE", <<[t |-> "llamada", n |-> 28]>>), Ins("JPNZ", <<[t |-> "llamada", n |-> 28]>>),
  Ins("SHIF", <<Reg("B"), Reg("A")>>) }

Hasta(n, lineas) == UNION {[1 .. k -> lineas] : k \in 1 .. n}

MCFuentes ==
  {<<f>> : f \in [1 .. 5 -> Corrientes \ {[tipo |-> "data"]}] \cup Hasta(3, Corrientes \cup Raras)}
  \cup {<<f, g>> : f \in Hasta(2, Corrientes \cup {[tipo |-> "comentario"]}), g \in Hasta(2, Corrientes)}
================================================================================
