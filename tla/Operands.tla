------------------------------ MODULE Operands ------------------------------
(***************************************************************************)
(* What stands for values outside an expression: the results of other      *)
(* rules and the items of the request (CMRDataList, Runner/MRDTLIST.cpp).  *)
(*                                                                         *)
(* A rule as operand is [t |-> "RULE", v |-> <<n, row, col>>], where n     *)
(* numbers the result it has left; an item is [t |-> "GLOBAL", v |-> <<n,  *)
(* row>>]. Rows and columns count from 1, 0 stands for the first one, or   *)
(* for all where a whole list is wanted; a negative row is no row.         *)
(***************************************************************************)
EXTENDS RuleValues

CONSTANTS
  RuleResults,   \* each [types |-> columns, rows |-> rows, parms |-> called with arguments]
  Items          \* each [itemCode, itemType, vals]; vals has itemOcc values

\* setInitValue
Initial(type) ==
  CASE type = "DOUBLE" -> Double(0, 1)
    [] type \in {"LONG", "BOOL"} -> [t |-> type, v |-> <<0>>]
    [] OTHER -> [t |-> type, v |-> <<>>]

OrFirst(n) == IF n = 0 THEN 1 ELSE n

\* With no rows at all the operand stays what it is.
GetRuleValue(x) ==
  LET r == RuleResults[x.v[1]]
      row == OrFirst(x.v[2])
      col == OrFirst(x.v[3])
  IN  CASE x.t # "RULE" -> x
        [] x.t = "RULE" /\ x.v[2] < 0 -> Initial(r.types[col])
        [] x.t = "RULE" /\ x.v[2] >= 0 /\ r.rows = <<>> -> x
        [] OTHER -> IF row > Len(r.rows) THEN Error ELSE r.rows[row][col]

\* An item no value was passed for is an error, whatever row is asked for.
getItemValue(x) ==
  LET item == Items[x.v[1]]
      row == OrFirst(x.v[2])
  IN  CASE item.vals = <<>> -> Error
        [] item.vals # <<>> /\ x.v[2] < 0 -> Initial(item.itemType)
        [] OTHER -> IF row > Len(item.vals) THEN Error ELSE item.vals[row]

Fetched(x) == IF x.t = "GLOBAL" THEN getItemValue(x) ELSE GetRuleValue(x)

\* The operand for an item in a rule's text, with the index that stands there.
getGlobalItemValue(code, row) ==
  LET n == SelectInSeq(Items, LAMBDA item : item.itemCode = code)
  IN  IF n = 0 THEN Error ELSE [t |-> "GLOBAL", v |-> <<n, row>>]

-----------------------------------------------------------------------------
\* The column a list function is applied to.
ColumnOf(x) ==
  LET col == OrFirst(x.v[3])
  IN  [i \in DOMAIN RuleResults[x.v[1]].rows |-> RuleResults[x.v[1]].rows[i][col]]

ColumnType(x) == IF x.t = "RULE" THEN RuleResults[x.v[1]].types[OrFirst(x.v[3])]
                                 ELSE Items[x.v[1]].itemType

Listed(x) == IF x.t = "RULE" THEN ColumnOf(x) ELSE Items[x.v[1]].vals

getRuleResultCount(x) == Len(RuleResults[x.v[1]].rows)
getItemValueCount(x) == Len(Items[x.v[1]].vals)

IndexOrNone(i) == IF i = 0 THEN -1 ELSE i
SameText(s, r) == Trim(s) = Trim(r)

\* The type of what is looked for decides how; only texts and LONGs are found.
\* (The code cuts the blanks of the values it passes in place.)
getRuleValueIndex(x, y) ==
  CASE y.t = "STRING" -> IndexOrNone(SelectInSeq(ColumnOf(x), LAMBDA z : SameText(z.v, y.v)))
    [] y.t = "LONG"   -> IndexOrNone(SelectInSeq(ColumnOf(x), LAMBDA z : z.v = y.v))
    [] OTHER -> -1

\* Here it is the type of the item.
getItemValueIndex(x, y) ==
  LET item == Items[x.v[1]]
  IN  CASE item.itemType = "STRING" ->
             IndexOrNone(SelectInSeq(item.vals, LAMBDA z : SameText(z.v, y.v)))
        [] item.itemType = "LONG" -> IndexOrNone(SelectInSeq(item.vals, LAMBDA z : z.v = y.v))
        [] OTHER -> -1

\* getRuleResult: the result of the rule by its number alone, which is found only
\* if it was not called with arguments.
getRuleResult(x) ==
  IF RuleResults[x.v[1]].parms THEN <<>> ELSE RuleResults[x.v[1]].rows

-----------------------------------------------------------------------------
\* The eight bytes of the union, read as a number, are not all zero.
AnyBit(x) == IF x.t \in {"LONG", "BOOL", "DOUBLE"} THEN x.v[1] # 0
             ELSE x.t = "RULE" \/ x.v # <<>>

\* The text "%lf" of a DOUBLE shows six decimals, that of a BOOL is a word.
FixedText(x) ==
  CASE x.t = "DOUBLE" -> <<4000 + x.v[1], 4000 + x.v[2]>>
    [] x.t = "BOOL"   -> <<5000 + x.v[1]>>
    [] OTHER          -> Text(x)

\* The value of an item as a result of this type.
ItemToReturnType(x, type) ==
  CASE x.t = type -> x
    [] type = "DOUBLE" -> IF x.t \in {"LONG", "BOOL"} THEN Double(x.v[1], 1) ELSE Initial(type)
    [] type = "LONG" -> CASE x.t = "DOUBLE" -> Long(Truncate(x))
                          [] x.t = "BOOL"   -> Long(x.v[1])
                          [] OTHER          -> Initial(type)
    [] type = "STRING" -> [t |-> type, v |-> IF x.t # "LSTRING" THEN FixedText(x)
                                             ELSE SubSeq(x.v, 1, Least(Len(x.v), STR_VALUE_SIZE))]
    [] type = "LSTRING" -> [t |-> type, v |-> FixedText(x)]
    [] type = "BOOL" -> Bool(AnyBit(x))

\* A statement that is an item alone returns all its values, or the one picked
\* out, each as a row.
getAllItemValues(x, type) ==
  LET item == Items[x.v[1]]
      row == x.v[2]
      Row(y) == <<ItemToReturnType(y, type)>>
  IN  CASE row = 0 -> [i \in DOMAIN item.vals |-> Row(item.vals[i])]
        [] row < 0 -> <<<<Initial(type)>>>>
        [] OTHER -> IF row > Len(item.vals) THEN <<<<Error>>>> ELSE <<Row(item.vals[row])>>
=============================================================================
