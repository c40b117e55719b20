------------------------------ MODULE RuleWire ------------------------------
(***************************************************************************)
(* A request to run a program, and its answer, byte by byte: what the Java *)
(* client writes (CFAPI5J, MTObjectOut), what the agent makes of it        *)
(* (CBRMObj, CCSThread::MainProcess, CMRDataList), what it writes, and     *)
(* what the client reads (MTObjectIn).                                     *)
(*                                                                         *)
(* A byte is an integer. A text goes behind two bytes with its length to   *)
(* the base BYTE (256 in the code); the digits of a number are one byte    *)
(* here, see RuleValues!Text. A buffer [m_Buffer, m_length] keeps what     *)
(* earlier requests and answers have left beyond m_length.                 *)
(***************************************************************************)
EXTENDS Operands

CONSTANTS
  BYTE,             \* the values of a byte
  MaxItems,         \* 100: the items of a request
  MaxOcc,           \* 2000: the values of an item
  OBJ_MAX_LENGTH,   \* the bytes of a buffer
  PgmNodes          \* the programs: name |-> [ParmGbn, pParm]

ASSUME WireAssumption == BYTE \in Nat \ {0, 1} /\ {MaxItems, MaxOcc, OBJ_MAX_LENGTH} \subseteq Nat

HEADER == 50
DATA_TYPE == [DOUBLE |-> 1, STRING |-> 2, LONG |-> 3, LSTRING |-> 4, BOOL |-> 5]
TypeOf(code) ==
  IF code \in 1 .. 5 THEN CHOOSE type \in DOMAIN DATA_TYPE : DATA_TYPE[type] = code ELSE "NONE"

MRC_INPUT_ERR == 3
MRC_RULE_ERR == 4
UERR == [PGMNFOUND |-> 1, STARTRULENOTRUN |-> 2, ITEMVALOUTOFINDEX |-> 1003,
         MAXITEMCOUNT |-> 1005, UNMATCH_PARMTP |-> 1006]

\* atof; atoi is RuleValues!Number.
Atof(s) == IF Len(s) = 2 /\ s[1] > 3500 THEN Double(s[1] - 4000, s[2] - 4000)
                                        ELSE Double(Number(s), 1)

-----------------------------------------------------------------------------
\* The client writes (MTObjectOut): a sequence of bytes.

\* Slip: one byte for the length.
WriteString_Short(s) == <<0, Len(s) % BYTE>> \o s

WriteString(s) == <<(Len(s) \div BYTE) % BYTE, Len(s) % BYTE>> \o s
WriteInt(n) == WriteString(Text(Long(n)))
WriteByte(c) == <<c % BYTE>>
WriteByteFile(s) == WriteInt(Len(s)) \o s

\* AddInt, AddString, AddFraction.
WriteValue(x) ==
  IF x.t \in {"LONG", "BOOL"} THEN WriteInt(x.v[1]) ELSE WriteString(FixedText(x))

\* AddIntArray, AddStringArray, AddFractionArray: no value is one initial value.
AddArray(vals, type) ==
  LET sent == IF vals = <<>> THEN <<Initial(type)>> ELSE vals
  IN  WriteInt(Len(sent)) \o FlattenSeq([i \in DOMAIN sent |-> WriteValue(sent[i])])

\* AddItemCount, then AddItemInt, AddItemString or AddItemFraction for each.
AddItemCount(vals) ==
  WriteInt(Len(vals)) \o FlattenSeq([i \in DOMAIN vals |-> WriteValue(vals[i])])

\* Initialize: with the items' codes and types, or for a program that has them.
Initialize(ruleId, items) ==
  WriteString(ruleId) \o WriteInt(0) \o WriteByte(Len(items))
    \o FlattenSeq([i \in DOMAIN items |->
                     WriteInt(items[i].itemCode) \o WriteByte(DATA_TYPE[items[i].itemType])])
InitializeNoInfo(ruleId) == WriteString(ruleId) \o WriteInt(0)

-----------------------------------------------------------------------------
\* The agent's buffer. Memory never written is taken to hold zeros.
At(b, i) == IF i < Len(b.m_Buffer) THEN b.m_Buffer[i + 1] ELSE 0
Bytes(b, from, n) == [i \in 1 .. n |-> At(b, from + i - 1)]

Put(b, s) ==
  LET end == b.m_length + Len(s)
  IN  [m_Buffer |-> Bytes(b, 0, b.m_length) \o s
                      \o Bytes(b, end, IF Len(b.m_Buffer) > end THEN Len(b.m_Buffer) - end ELSE 0),
       m_length |-> end]

NewBuffer == [m_Buffer |-> <<>>, m_length |-> 0]
Clear1(b) == [b EXCEPT !.m_length = HEADER]

\* SocRead into the buffer and setLength; without a body nothing is read, and the
\* former answer stands there.
Receive(b, body) == IF body = <<>> THEN b ELSE Put([b EXCEPT !.m_length = 0], body)

BufSizeCheck(b, leng) == b.m_length + leng <= OBJ_MAX_LENGTH

\* A text that does not fit is left out; the callers do not notice.
PutString(b, s) ==
  CASE s = <<>> -> Put(b, <<0, 0>>)
    [] s # <<>> /\ BufSizeCheck(b, Len(s)) ->
         Put(b, <<(Len(s) \div BYTE) % BYTE, Len(s) % BYTE>> \o s)
    [] OTHER -> b
PutLong(b, n) == PutString(b, Text(Long(n)))
PutByte(b, c) == IF BufSizeCheck(b, 1) THEN Put(b, <<c % BYTE>>) ELSE b

\* WriteLongString: the length as a text.
PutLongString(b, s) ==
  LET size == Text(Long(Len(s)))
  IN  CASE s = <<>> -> Put(b, <<0, 0>>)
        [] s # <<>> /\ BufSizeCheck(b, Len(size)) /\ BufSizeCheck(b, Len(s)) ->
             Put(b, <<Len(size) \div BYTE, Len(size) % BYTE>> \o size \o s)
        [] OTHER -> b

\* What a reader is left with: m_readPtr, the text, the value, and whether there
\* was one.
Reader(at, str) == [at |-> at, str |-> str, val |-> Error, ok |-> TRUE]

\* LastReadCheck does not count the two bytes of the length. A text that is not
\* there leaves the one read before it.
ReadString(b, r) ==
  LET leng == At(b, r.at) * BYTE + At(b, r.at + 1)
  IN  IF r.at + leng > b.m_length
        THEN [r EXCEPT !.ok = FALSE]
        ELSE [r EXCEPT !.ok = TRUE, !.at = @ + 2 + leng, !.str = Bytes(b, r.at + 2, leng)]

\* Read through m_tempstr: a number that is not there is 0, and no failure.
ReadNumber(b, r, type) ==
  LET Parse(s) == IF type = "DOUBLE" THEN Atof(s) ELSE [t |-> type, v |-> <<Number(s)>>]
      Taken(q) == [r EXCEPT !.at = q.at,
                     !.val = Parse(IF q.ok /\ q.str # <<>> THEN q.str ELSE Text(Long(0)))]
  IN  Taken(ReadString(b, r))

ReadLong(b, r) == ReadNumber(b, r, "LONG")

ReadByte(b, r) ==
  IF r.at + 1 > b.m_length THEN [r EXCEPT !.val = Long(0)]
                           ELSE [r EXCEPT !.val = Long(At(b, r.at)), !.at = @ + 1]

\* ReadByteFile: as many bytes as the number before them says.
ReadByteFile(b, r) ==
  LET Text1(q, leng) == IF q.at + leng > b.m_length THEN [q EXCEPT !.ok = FALSE]
                        ELSE [q EXCEPT !.str = Bytes(b, q.at, leng), !.at = @ + leng]
      q == ReadLong(b, r)
  IN  Text1(q, q.val.v[1])

-----------------------------------------------------------------------------
\* The items of a request (CMRDataList): [rc 0, code 0, items], or the codes of an
\* exception and no items.
Accepted(items) == [rc |-> 0, code |-> 0, items |-> items]
Refused(rc, code) == [rc |-> rc, code |-> code, items |-> <<>>]

ReadValue(b, r, type) ==
  LET Trimmed(q) == [q EXCEPT !.str = Trim(@)]
      Cut1(s) == IF type = "STRING" THEN SubSeq(s, 1, Least(Len(s), STR_VALUE_SIZE)) ELSE s
      Valued(q) == [q EXCEPT !.val = [t |-> type, v |-> Cut1(q.str)]]
  IN  CASE type \in {"DOUBLE", "LONG", "BOOL"} -> [ReadNumber(b, r, type) EXCEPT !.ok = TRUE]
        [] type = "NONE" -> [r EXCEPT !.val = Error, !.ok = TRUE]
        [] OTHER -> Valued(Trimmed(ReadString(b, r)))

\* The values of one item: acc is [r, vals, ok].
ReadValues(b, r, type, n) ==
  FoldLeft(LAMBDA acc, i : LET q == ReadValue(b, acc.r, type)
                           IN  [r |-> q, vals |-> Append(acc.vals, q.val), ok |-> acc.ok /\ q.ok],
           [r |-> r, vals |-> <<>>, ok |-> TRUE], [i \in 1 .. n |-> i])

\* The values of all items, in order. A list without item information ends at a
\* negative number of values, and must have all its texts.
ReadItems(b, r, list, noInfo) ==
  LET With(acc, item, p, vals) ==
        [acc EXCEPT !.r = p, !.items = Append(@, item @@ [vals |-> vals])]
      Failing(acc, code) == [acc EXCEPT !.code = code]
      Values(acc, item, got) == IF noInfo /\ ~got.ok THEN Failing(acc, UERR.ITEMVALOUTOFINDEX)
                                ELSE With(acc, item, got.r, got.vals)
      Occurring(acc, item, q, occ) ==
        CASE noInfo /\ occ < 0 -> [With(acc, item, acc.r, <<>>) EXCEPT !.over = TRUE]
          [] occ = 0 -> With(acc, item, q, <<>>)
          [] (~noInfo /\ occ < 0) \/ occ > MaxOcc ->
               Failing(acc, IF noInfo THEN UERR.ITEMVALOUTOFINDEX ELSE UERR.MAXITEMCOUNT)
          [] OTHER -> Values(acc, item, ReadValues(b, q, item.itemType, occ))
      Counted1(acc, item, q) == Occurring(acc, item, q, q.val.v[1])
      Item1(acc, item) ==
        CASE acc.code # 0 -> acc
          [] acc.code = 0 /\ acc.over -> With(acc, item, acc.r, <<>>)
          [] OTHER -> Counted1(acc, item, ReadLong(b, acc.r))
      Ended(all) == IF all.code # 0 THEN Refused(MRC_RULE_ERR, all.code) ELSE Accepted(all.items)
  IN  Ended(FoldLeft(Item1, [r |-> r, items |-> <<>>, code |-> 0, over |-> FALSE], list))

\* Codes and types first: acc is [r, list].
ReadItemInfo(b, r, cnt) ==
  FoldLeft(LAMBDA acc, i :
             LET c == ReadLong(b, acc.r)
                 k == ReadByte(b, c)
             IN  [r |-> k, list |-> Append(acc.list, [itemCode |-> c.val.v[1],
                                                      itemType |-> TypeOf(k.val.v[1])])],
           [r |-> r, list |-> <<>>], [i \in 1 .. cnt |-> i])

\* The page's number, the number of items, the items, their values.
BuildPgmParms(b, r) ==
  LET Items1(n) == LET info == ReadItemInfo(b, n, n.val.v[1])
                   IN  ReadItems(b, info.r, info.list, FALSE)
      Checked(n) == IF n.val.v[1] > MaxItems THEN Refused(MRC_RULE_ERR, UERR.MAXITEMCOUNT)
                    ELSE Items1(n)
  IN  Checked(ReadByte(b, ReadLong(b, r)))

\* The items are those of the program.
BuildPgmParmsNoInfo(b, r, pParm) == ReadItems(b, ReadLong(b, r), pParm, TRUE)

-----------------------------------------------------------------------------
\* The stream of a program of kind '2': fields of L1 bytes at fixed places, by a
\* tree of [itemCode, itemType, L1, L2, MaxOcc, ValidOcc_Icd, child].

\* L2 digits of a DOUBLE stand behind its point.
FieldValue(s, p) ==
  LET whole == SubSeq(s, 1, p.L1 - p.L2)
      digits == SubSeq(s, p.L1 - p.L2 + 1, p.L1)
      value == FoldLeft(LAMBDA n, c : 10 * n + (c - 1000), Number(whole), digits)
  IN  CASE p.itemType = "DOUBLE" -> Double(value, 10 ^ Len(digits))
        [] p.itemType = "LONG" -> Long(Number(Trim(s)))
        [] p.itemType = "STRING" ->
             String(Trim(SubSeq(s, 1, Least(p.L1, STR_VALUE_SIZE))))

\* ParseItemStreamOcc
ParseItemStreamOcc(b, off, p, rows) ==
  [i \in 1 .. rows |-> FieldValue(Bytes(b, off + (i - 1) * p.L1, p.L1), p)]

getItemColumn(items, code) == SelectInSeq(items, LAMBDA x : x.itemCode = code)

\* The children of a group, row by row: all of them write to the first one's
\* value, where the last stays; the others keep what is in their memory (Error).
ParseChildItemStream(b, off, children, rows) ==
  LET width == FoldLeft(LAMBDA n, p : n + p.L1, 0, children)
      Before(k) == FoldLeft(LAMBDA n, p : n + p.L1, 0, SubSeq(children, 1, k - 1))
      last == SelectLastInSeq(children, LAMBDA p : p.itemCode > 0)
      Row(i) == FieldValue(Bytes(b, off + (i - 1) * width + Before(last), children[last].L1),
                           children[last])
  IN  [k \in DOMAIN children |->
         [itemCode |-> children[k].itemCode, itemType |-> children[k].itemType,
          vals |-> [i \in 1 .. rows |-> IF k = 1 /\ last # 0 THEN Row(i) ELSE Error]]]

\* A group occurs as often as the item ValidOcc_Icd, which came before, says.
RECURSIVE ParseItemStream(_, _, _, _)
ParseItemStream(b, pParm, off, items) ==
  IF pParm = <<>> THEN items ELSE
  LET p == pParm[1]
      counted == p.MaxOcc > 1 /\ p.ValidOcc_Icd > 0
      rows == IF counted THEN items[getItemColumn(items, p.ValidOcc_Icd)].vals[1].v[1] ELSE 1
      inner == IF counted THEN items \o ParseChildItemStream(b, off, p.child, rows)
                          ELSE ParseItemStream(b, p.child, off, items)
      own == [itemCode |-> p.itemCode, itemType |-> p.itemType,
              vals |-> ParseItemStreamOcc(b, off, p, rows)]
  IN  ParseItemStream(b, Tail(pParm), off + p.L1 * p.MaxOcc,
                      IF p.itemCode > 0 THEN Append(inner, own) ELSE inner)

BuildCBLPgmParms(b, off, pParm) == Accepted(ParseItemStream(b, pParm, off, <<>>))

-----------------------------------------------------------------------------
\* MainProcess up to the run. The first text is compared with the commands for
\* files, none of which it is here; then the program's name is read, after it.
PgmName(b, parm) ==
  LET first == ReadString(b, Reader(0, <<>>))
      name == ReadString(b, [first EXCEPT !.str = <<>>])
  IN  CASE parm \in {0, 2} -> [name EXCEPT !.str = SubSeq(@, 1, Least(Len(@), 10))]
        [] parm = 1 -> Reader(10, Trim(Bytes(b, 0, 10)))
        [] OTHER -> Reader(first.at, <<>>)

\* The texts of the items go through tempStr, which holds left at first.
MainProcess(b, parm, left) ==
  LET pgm == PgmName(b, parm)
      node == PgmNodes[pgm.str]
      r == Reader(pgm.at, left)
  IN  CASE pgm.str \notin DOMAIN PgmNodes -> Refused(MRC_INPUT_ERR, UERR.PGMNFOUND)
        [] pgm.str \in DOMAIN PgmNodes /\ parm = 1 /\ node.ParmGbn # 2 ->
             Refused(MRC_RULE_ERR, UERR.UNMATCH_PARMTP)
        [] OTHER -> CASE parm = 0 -> BuildPgmParms(b, r)
                      [] parm = 1 -> BuildCBLPgmParms(b, 10, node.pParm)
                      [] OTHER -> BuildPgmParmsNoInfo(b, r, node.pParm)

\* A header with Gbn # 0 or a size beyond the largest is answered at once.
ProcessRequest(b, header, body, left) ==
  IF header.Gbn # 0 \/ Len(body) >= header.m_MaxPramSize
    THEN Refused(1, -1)
    ELSE MainProcess(Receive(b, body), header.m_parmMode, left)

-----------------------------------------------------------------------------
\* The answers.
PutError(b, rc, code, msg) ==
  PutString(PutLong(PutLong(Clear1(b), rc), code), msg)

\* A column's value, as its type in the rule says; a BOOL goes as a LONG.
PutValue(b, x, type) ==
  CASE type \in {"LONG", "BOOL"} -> PutLong(b, x.v[1])
    [] type = "DOUBLE" -> PutString(b, FixedText(x))
    [] OTHER -> PutString(b, x.v)

BuildPgmReturn(b, rows, retType) ==
  LET sent == [i \in DOMAIN retType |-> IF retType[i] = "BOOL" THEN "LONG" ELSE retType[i]]
      head == PutString(PutByte(PutLong(PutLong(PutLong(Clear1(b), 0), Len(rows)),
                                        Len(retType)), 1), <<>>)
      types == FoldLeft(LAMBDA c, type : PutByte(c, DATA_TYPE[type]), head, sent)
      Columns1(c, row) == FoldLeft(LAMBDA d, i : PutValue(d, row[i], retType[i]),
                                   c, [i \in DOMAIN retType |-> i])
  IN  FoldLeft(Columns1, types, rows)

\* What the client gets behind the header, whose length the agent fills in.
Sent(b) == SubSeq(b.m_Buffer, HEADER + 1, b.m_length)

-----------------------------------------------------------------------------
\* The client reads (MTObjectIn) from the bytes in: a state [at, val, ok], ok FALSE
\* when the method throws. Bytes missing at the end of a text are zeros.
InByte(in, r) ==
  IF r.at > Len(in) THEN [r EXCEPT !.val = 0, !.ok = FALSE]
                    ELSE [r EXCEPT !.val = in[r.at], !.at = @ + 1, !.ok = TRUE]

InBytes(in, r, n) ==
  [r EXCEPT !.at = @ + Least(n, Len(in) + 1 - r.at),
            !.val = [i \in 1 .. n |-> IF r.at + i - 1 <= Len(in) THEN in[r.at + i - 1] ELSE 0]]

InString(in, r) ==
  LET Text1(hi, lo) == IF hi.ok /\ lo.ok THEN InBytes(in, lo, hi.val * BYTE + lo.val)
                                          ELSE [lo EXCEPT !.val = <<>>, !.ok = FALSE]
      hi == InByte(in, r)
  IN  Text1(hi, InByte(in, hi))

\* What is no number is 0, and no failure.
InInt(in, r) ==
  LET Parsed(q) == IF q.ok /\ Len(q.val) = 1 THEN Number(q.val) ELSE 0
      OfText(q) == [q EXCEPT !.val = Parsed(q), !.ok = TRUE]
  IN  OfText(InString(in, r))

InDouble(in, r) == [InString(in, r) EXCEPT !.val = Atof(Trim(@))]

\* ReadLongString: a length that is no number throws.
InLongString(in, r) ==
  LET q == InString(in, r)
  IN  IF ~q.ok \/ Trim(q.val) = <<>> THEN [q EXCEPT !.ok = FALSE]
                                     ELSE InBytes(in, q, Number(Trim(q.val)))

\* BuildResult: 0, or the code of the error.
ClientBuildResult(in) ==
  LET rc == InInt(in, [at |-> 1, val |-> 0, ok |-> TRUE])
  IN  IF rc.val # 0 THEN InInt(in, rc) ELSE rc
=============================================================================
