------------------------------- MODULE KeyList -------------------------------
(***************************************************************************)
(* What RTPKeyHashTable promises: a list of distinct keys in the order     *)
(* they were added, and a cursor that stands on one of them or nowhere.    *)
(* It is lost when the table is emptied.                                   *)
(***************************************************************************)
EXTENDS Naturals, Sequences, SequencesExt

CONSTANTS Keys, LOST

VARIABLES
  list,
  cursor,   \* position in list, 0 for nowhere, or LOST
  answer    \* of the last call

vars == <<list, cursor, answer>>

Position(k) == IF k \in ToSet(list) THEN CHOOSE i \in DOMAIN list : list[i] = k ELSE 0

Init == list = <<>> /\ cursor = LOST /\ answer = TRUE

Add(k) ==
  /\ list' = IF Position(k) = 0 THEN Append(list, k) ELSE list
  /\ answer' = (Position(k) = 0)
  /\ UNCHANGED cursor

Goto(k) ==
  /\ cursor' = Position(k)
  /\ answer' = (Position(k) # 0)
  /\ UNCHANGED list

Has(k) == answer' = (Position(k) # 0) /\ UNCHANGED <<list, cursor>>

GotoFirst == cursor' = (IF list = <<>> THEN 0 ELSE 1) /\ UNCHANGED <<list, answer>>
GotoLast == cursor' = Len(list) /\ UNCHANGED <<list, answer>>

GotoNext ==
  /\ cursor # LOST
  /\ cursor' = IF cursor \in {0, Len(list)} THEN 0 ELSE cursor + 1
  /\ UNCHANGED <<list, answer>>

GotoPrevious ==
  /\ cursor # LOST
  /\ cursor' = IF cursor = 0 THEN 0 ELSE cursor - 1
  /\ UNCHANGED <<list, answer>>

\* The cursor moves to what came after.
RemoveCurrent(i) ==
  /\ answer' = (i # 0)
  /\ list' = IF i = 0 THEN list ELSE RemoveAt(list, i)
  /\ cursor' = IF i = Len(list) THEN 0 ELSE i

DeleteCurrent == cursor # LOST /\ RemoveCurrent(cursor)
Delete(k) == RemoveCurrent(Position(k))

\* The cursor is not reset.
Clear == list' = <<>> /\ cursor' \in {0, LOST} /\ UNCHANGED answer

Next ==
  \/ \E k \in Keys : Add(k) \/ Goto(k) \/ Has(k) \/ Delete(k)
  \/ GotoFirst \/ GotoLast \/ GotoNext \/ GotoPrevious \/ DeleteCurrent \/ Clear

Spec == Init /\ [][Next]_vars
=============================================================================
