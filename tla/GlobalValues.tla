---------------------------- MODULE GlobalValues ----------------------------
(***************************************************************************)
(* The values a request's rules keep under a name (CMRDataList, Runner/    *)
(* MRDTLIST.cpp): SETVAL, ADDVAL, INCVAL, PUSHVAL and CLRVAL change them,  *)
(* GETVAL, FINDVAL and ROWS read them. A store maps each name in m_pGVList *)
(* to its type and the list of its values' contents.                       *)
(*                                                                         *)
(* A change yields the set of the stores it may leave: one, or none where  *)
(* the code throws.                                                        *)
(***************************************************************************)
EXTENDS RuleValues

NoGlobals == [name \in {} |-> [vType |-> "LONG", vals |-> <<>>]]

\* addGblValNode: a new name has the one value, whatever index was asked for.
addGblValNode(store, name, x) == store @@ (name :> [vType |-> x.t, vals |-> <<x.v>>])

Known(store, name) == name \in DOMAIN store
Replaced(store, name, i, v) == [store EXCEPT ![name].vals[i] = v]

\* An index below one stands for the first value.
Position(idx) == IF idx < 1 THEN 1 ELSE idx

setGblVal(store, name, x, idx) ==
  CASE ~Known(store, name) -> {addGblValNode(store, name, x)}
    [] Known(store, name) /\ (store[name].vType # x.t \/ idx > Len(store[name].vals)) -> {}
    [] OTHER -> {Replaced(store, name, Position(idx), x.v)}

\* The first value goes up; a LONG takes the integer part of a DOUBLE.
addGblVal(store, name, x) ==
  LET g == store[name]
      first == [t |-> g.vType, v |-> g.vals[1]]
      Sum == IF g.vType = "LONG" /\ x.t = "DOUBLE" THEN CALC_PLUS(first, Long(Truncate(x)))
                                                  ELSE CALC_PLUS(first, x)
  IN  CASE ~Known(store, name) -> {addGblValNode(store, name, x)}
        [] Known(store, name) /\ g.vType \notin {"LONG", "DOUBLE"} -> {}
        [] OTHER -> {Replaced(store, name, 1, Sum.v)}

incGblVal(store, name) ==
  CASE ~Known(store, name) -> {addGblValNode(store, name, Long(1))}
    [] Known(store, name) /\ store[name].vType # "LONG" -> {}
    [] OTHER -> {Replaced(store, name, 1, <<store[name].vals[1][1] + 1>>)}

pushGblVal(store, name, x) ==
  CASE ~Known(store, name) -> {addGblValNode(store, name, x)}
    [] Known(store, name) /\ store[name].vType # x.t -> {}
    [] OTHER -> {[store EXCEPT ![name].vals = Append(@, x.v)]}

clearGbl(store, name) == [n \in DOMAIN store \ {name} |-> store[n]]

-----------------------------------------------------------------------------
\* A name that is not there, or an index beyond its values, is an error.
getGblVal(store, name, idx) ==
  IF ~Known(store, name) THEN Error
  ELSE IF idx > Len(store[name].vals) THEN Error
  ELSE [t |-> store[name].vType, v |-> store[name].vals[Position(idx)]]

getGblRows(store, name) == IF Known(store, name) THEN Len(store[name].vals) ELSE 0

\* Only texts are looked for, and only among texts; blanks count.
findGblVal(store, name, x) ==
  CASE ~Known(store, name) -> Bool(FALSE)
    [] Known(store, name) /\ {x.t, store[name].vType} \ {"STRING", "LSTRING"} # {} -> Error
    [] OTHER -> Bool(x.v \in ToSet(store[name].vals))
=============================================================================
