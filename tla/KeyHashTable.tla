----------------------------- MODULE KeyHashTable -----------------------------
(***************************************************************************)
(* RTPKeyHashTable (rtpkeyhashtable.h): the hash table with a list through *)
(* its elements and a cursor that holds a session's sources.  RTPHashTable *)
(* (rtphashtable.h), which holds the destinations of the transmitter, is   *)
(* the same with elements for keys.                                        *)
(*                                                                         *)
(* Elements are numbered; 0 is the null pointer.  An element that was      *)
(* deleted is gone from elements, and its number is used again.  Memory    *)
(* does not run out.  The callers hold sourcesmutex or mainmutex.  They    *)
(* ask for the current element only after a call that sets the cursor: it  *)
(* has no value at first, and the one that Clear leaves is dangling.       *)
(***************************************************************************)
EXTENDS Naturals, FiniteSets, Sequences

CONSTANTS
  Keys,
  Hash,       \* GetIndex, by key
  LOST

ASSUME HashAssumption == IsFiniteSet(Keys) /\ LOST \notin Nat

VARIABLES
  elements,   \* HashElement by number
  table,      \* first element of each bucket
  firsthashelem, lasthashelem, curhashelem,
  found       \* of the last call: whether it found its element, or a free key

hashVars == <<elements, table, firsthashelem, lasthashelem, curhashelem, found>>

Numbers == 1 .. Cardinality(Keys)
Buckets == {Hash[k] : k \in Keys}

HashInit ==
  /\ elements = <<>> /\ table = [b \in Buckets |-> 0]
  /\ firsthashelem = 0 /\ lasthashelem = 0
  /\ curhashelem = LOST /\ found = TRUE

\* The element with this key in a chain, or 0.
Find(k) ==
  LET chain[e \in {0} \cup DOMAIN elements] ==
        IF e = 0 THEN 0 ELSE IF elements[e].key = k THEN e ELSE chain[elements[e].hashnext]
  IN chain[table[Hash[k]]]

\* Writes a link of an element, unless there is none.
SetLink(links, e, name, to) ==
  IF e = 0 THEN links ELSE [links EXCEPT ![e] = [@ EXCEPT ![name] = to]]

Free == CHOOSE n \in Numbers : n \notin DOMAIN elements /\ \A m \in 1 .. (n - 1) : m \in DOMAIN elements

HashElement(k) ==
  [key |-> k, hashprev |-> 0, hashnext |-> table[Hash[k]], listprev |-> lasthashelem, listnext |-> 0]

Added(n, k) == [m \in DOMAIN elements \cup {n} |-> IF m = n THEN HashElement(k) ELSE elements[m]]

AddElement(k) ==
  /\ found' = (Find(k) = 0)
  /\ IF Find(k) # 0
     THEN UNCHANGED <<elements, table, firsthashelem, lasthashelem>>
     ELSE LET n == Free
              linked == SetLink(Added(n, k), table[Hash[k]], "hashprev", n)
          IN /\ elements' = SetLink(linked, lasthashelem, "listnext", n)
             /\ table' = [table EXCEPT ![Hash[k]] = n]
             /\ firsthashelem' = IF firsthashelem = 0 THEN n ELSE firsthashelem
             /\ lasthashelem' = n
  /\ UNCHANGED curhashelem

GotoElement(k) ==
  /\ curhashelem' = Find(k) /\ found' = (Find(k) # 0)
  /\ UNCHANGED <<elements, table, firsthashelem, lasthashelem>>

HasElement(k) ==
  /\ found' = (Find(k) # 0)
  /\ UNCHANGED <<elements, table, firsthashelem, lasthashelem, curhashelem>>

GotoTo(e) ==
  /\ curhashelem' = e
  /\ UNCHANGED <<elements, table, firsthashelem, lasthashelem, found>>

GotoFirstElement == GotoTo(firsthashelem)
GotoLastElement == GotoTo(lasthashelem)
GotoNextElement ==
  /\ curhashelem # LOST
  /\ GotoTo(IF curhashelem = 0 THEN 0 ELSE elements[curhashelem].listnext)
GotoPreviousElement ==
  /\ curhashelem # LOST
  /\ GotoTo(IF curhashelem = 0 THEN 0 ELSE elements[curhashelem].listprev)

\* Mutated form: the element after the deleted one keeps its back pointer into the list.
UnlinkForward(e) ==
  LET gone == elements[e]
      bucket == SetLink(SetLink(elements, gone.hashprev, "hashnext", gone.hashnext),
                        gone.hashnext, "hashprev", gone.hashprev)
  IN SetLink(bucket, gone.listprev, "listnext", gone.listnext)

\* What the neighbours of a deleted element look like.
Unlink(e) ==
  LET gone == elements[e]
      bucket == SetLink(SetLink(elements, gone.hashprev, "hashnext", gone.hashnext),
                        gone.hashnext, "hashprev", gone.hashprev)
      onward == SetLink(bucket, gone.listprev, "listnext", gone.listnext)
  IN SetLink(onward, gone.listnext, "listprev", gone.listprev)

Delete(e) ==
  /\ found' = (e # 0)
  /\ IF e = 0
     THEN curhashelem' = 0 /\ UNCHANGED <<elements, table, firsthashelem, lasthashelem>>
     ELSE LET gone == elements[e]
              left == Unlink(e)
          IN /\ elements' = [m \in DOMAIN elements \ {e} |-> left[m]]
             /\ table' = IF gone.hashprev = 0 THEN [table EXCEPT ![Hash[gone.key]] = gone.hashnext] ELSE table
             /\ firsthashelem' = IF gone.listprev = 0 THEN gone.listnext ELSE firsthashelem
             /\ lasthashelem' = IF gone.listnext = 0 THEN gone.listprev ELSE lasthashelem
             /\ curhashelem' = gone.listnext

DeleteCurrentElement == curhashelem # LOST /\ Delete(curhashelem)
DeleteElement(k) == Delete(Find(k))

Clear ==
  /\ elements' = <<>> /\ table' = [b \in Buckets |-> 0]
  /\ firsthashelem' = 0 /\ lasthashelem' = 0
  /\ curhashelem' = IF curhashelem \in {0, LOST} THEN curhashelem ELSE LOST
  /\ UNCHANGED found

HashNext ==
  \/ \E k \in Keys : AddElement(k) \/ GotoElement(k) \/ HasElement(k) \/ DeleteElement(k)
  \/ GotoFirstElement \/ GotoLastElement \/ GotoNextElement \/ GotoPreviousElement
  \/ DeleteCurrentElement \/ Clear

HashSpec == HashInit /\ [][HashNext]_hashVars
-----------------------------------------------------------------------------
(* The list of keys from firsthashelem on, and the place of curhashelem,   *)
(* which is lost when it is not on an element.                             *)

Walk ==
  LET from[e \in {0} \cup Numbers] ==
        IF e \notin DOMAIN elements THEN <<>> ELSE <<e>> \o from[elements[e].listnext]
  IN from[firsthashelem]

Keylist == [i \in DOMAIN Walk |-> elements[Walk[i]].key]

Cursor ==
  IF curhashelem = 0 THEN 0
  ELSE IF curhashelem \notin DOMAIN elements THEN LOST
  ELSE CHOOSE i \in DOMAIN Walk : Walk[i] = curhashelem

List == INSTANCE KeyList WITH list <- Keylist, cursor <- Cursor, answer <- found

\* Bucket chains and list always hold the same elements, in whatever order
\* they are added and deleted, and what a call answers is what the list says:
\* nothing is lost, found twice or reached after it was deleted.
ImplementsKeyList == List!Spec
=============================================================================
