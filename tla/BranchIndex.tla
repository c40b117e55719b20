---------------------------- MODULE BranchIndex ----------------------------
(***************************************************************************)
(* The index of rule names (CMRSearch, src_c/Runner/MRSEARCH.cpp): an      *)
(* array of names with a pointer each, and in every indexed rule its       *)
(* position.  The array is a sequence, so that the code's position i is    *)
(* element i + 1 here.  Names are numbers, ordered as strcmp orders them.  *)
(*                                                                         *)
(* An insertion bisects the array, but it appends the first two names      *)
(* without looking, and it stops when its upper end is 0, without looking  *)
(* at position 0.  So the array need not be sorted, and a name can be in   *)
(* it twice; SearchByName, which bisected it too once, now scans it.       *)
(***************************************************************************)
EXTENDS Integers, Sequences

CONSTANT
  m_MaxSize    (* elements of the array: 200 in the debugger               *)

(* The position for Name that the loop of AddRuleNodeSearch ends with, or  *)
(* -1 when it meets the name.  nFirst and nLast are the code's.            *)
Duplicate == -1

InsertPosition(m_NameList, Name) ==
  LET m_LastIdx == Len(m_NameList) - 1
      bisect[range \in (0 .. m_LastIdx + 1) \X (-1 .. m_LastIdx)] ==
        LET nFirst == range[1]
            nLast  == range[2]
            nPos   == (nFirst + nLast) \div 2
            met    == m_NameList[nPos + 1].rule_name
        IN  IF Name = met THEN Duplicate
            ELSE IF Name < met
            THEN IF nPos - 1 = 0 \/ nFirst > nPos - 1 THEN nPos ELSE bisect[<<nFirst, nPos - 1>>]
            ELSE IF nPos + 1 > nLast THEN nPos + 1 ELSE bisect[<<nPos + 1, nLast>>]
  IN  IF m_LastIdx <= 0 THEN Len(m_NameList) ELSE bisect[<<0, m_LastIdx>>]

(* AddRuleNodeSearch throws when the array is full or the name is met.     *)
Refused(m_NameList, Name) ==
  Len(m_NameList) > 1 /\ \/ Len(m_NameList) >= m_MaxSize
                         \/ InsertPosition(m_NameList, Name) = Duplicate

(* Otherwise it shifts the elements from the position on and fills the gap.*)
AddRuleNodeSearch(m_NameList, Name, ptr) ==
  LET at == InsertPosition(m_NameList, Name)
  IN  SubSeq(m_NameList, 1, at) \o <<[rule_name |-> Name, ptr |-> ptr]>>
        \o SubSeq(m_NameList, at + 1, Len(m_NameList))

(* The rules keep up with their positions: ptr gets the new one, and those *)
(* the shift moves the next one each.                                      *)
Reindex_NotMoved(branchIdx, m_NameList, Name, ptr) ==
  [p \in DOMAIN branchIdx \cup {ptr} |->
     IF p = ptr THEN InsertPosition(m_NameList, Name) ELSE branchIdx[p]]

Reindex(branchIdx, m_NameList, Name, ptr) ==
  LET at == InsertPosition(m_NameList, Name)
      moved(p) == \E i \in at + 1 .. Len(m_NameList) : m_NameList[i].ptr = p
  IN  [p \in DOMAIN branchIdx \cup {ptr} |->
         IF p = ptr THEN at ELSE IF moved(p) THEN branchIdx[p] + 1 ELSE branchIdx[p]]

SearchByName(m_NameList, Name) == \E i \in 1 .. Len(m_NameList) : m_NameList[i].rule_name = Name
=============================================================================
