-------------------------- MODULE SourceDescription --------------------------
(***************************************************************************)
(* What a source says of itself: the SDES information that a session keeps *)
(* of another participant (RTCPSDESInfo in rtcpsdesinfo.h and              *)
(* rtcpsdesinfo.cpp, set by RTPInternalSourceData::ProcessSDESItem and     *)
(* ProcessPrivateSDESItem in rtpinternalsourcedata.cpp).  A value is       *)
(* {} when it was never set or is empty.                                   *)
(***************************************************************************)
EXTENDS Naturals, Sequences, SequencesExt

CONSTANTS
  Fixed,           \* items that are set once: CNAME, NAME, EMAIL, TOOL
  Changing,        \* PHONE, LOC, NOTE
  Values,          \* of an item, each a set
  PrivPrefixes,    \* of private items
  MaxPrivItems     \* RTP_MAXPRIVITEMS

VARIABLES
  info,            \* the items that are not private
  privitems,       \* prefix and value, the newest first
  validated,
  said             \* history: the values that a participant said of an item, in order

vars == <<info, privitems, validated, said>>

Init ==
  /\ info = [item \in Fixed \cup Changing |-> {}]
  /\ privitems = <<>>
  /\ validated = FALSE
  /\ said = [item \in Fixed \cup Changing \cup PrivPrefixes |-> <<>>]
-----------------------------------------------------------------------------
\* History: what matters is the first value that is not empty, and the last one.
Says(item, value) ==
  said' = [said EXCEPT ![item] = IF @ = <<>> THEN <<value>>
                                 ELSE IF Head(@) = {} THEN <<value>>
                                 ELSE <<Head(@), value>>]

\* Mutated form: an item is always set.
SetInfoAlways(item, value) == info' = [info EXCEPT ![item] = value]

\* An item of the first kind is only set while it is not.
SetInfo(item, value) ==
  info' = [info EXCEPT ![item] = IF item \in Changing \/ @ = {} THEN value ELSE @]

\* ProcessSDESItem.  A CNAME validates the source, even an empty one.
ProcessSDESItem(item, value) ==
  /\ SetInfo(item, value)
  /\ validated' = (validated \/ (item = "CNAME" /\ info["CNAME"] = {}))
  /\ Says(item, value)
  /\ UNCHANGED privitems

\* Another CNAME than the one it has is a collision.
CNAMECollides(value) == info["CNAME"] # {} /\ info["CNAME"] # value

Has(prefix) == \E i \in DOMAIN privitems : privitems[i][1] = prefix
Entry(prefix) == CHOOSE i \in DOMAIN privitems : privitems[i][1] = prefix

\* SetPrivateValue: what does not fit any more is ignored.
SetPrivateValue(prefix, value) ==
  privitems' =
    IF Has(prefix) THEN [privitems EXCEPT ![Entry(prefix)] = <<prefix, value>>]
    ELSE IF Len(privitems) >= MaxPrivItems THEN privitems
    ELSE <<<<prefix, value>>>> \o privitems

ProcessPrivateSDESItem(prefix, value) ==
  /\ SetPrivateValue(prefix, value)
  /\ Says(prefix, value)
  /\ UNCHANGED <<info, validated>>

\* DeletePrivatePrefix, for the own information
DeletePrivatePrefix(prefix) ==
  /\ Has(prefix)
  /\ privitems' = RemoveAt(privitems, Entry(prefix))
  /\ said' = [said EXCEPT ![prefix] = <<>>]
  /\ UNCHANGED <<info, validated>>

\* GetPrivateValue
PrivateValue(prefix) == IF Has(prefix) THEN privitems[Entry(prefix)][2] ELSE {}

Next ==
  \/ \E item \in Fixed \cup Changing, value \in Values : ProcessSDESItem(item, value)
  \/ \E prefix \in PrivPrefixes, value \in Values : ProcessPrivateSDESItem(prefix, value)
  \/ \E prefix \in PrivPrefixes : DeletePrivatePrefix(prefix)
-----------------------------------------------------------------------------
(* Properties.                                                             *)

\* In whatever order items come, and are repeated or changed: what names a
\* participant stays what it first said, the rest is what it said last, and a
\* private item is never there twice, with two values.
DescribesItself ==
  /\ \A item \in Fixed : said[item] # <<>> => info[item] = Head(said[item])
  /\ \A item \in Changing : said[item] # <<>> => info[item] = Last(said[item])
  /\ \A prefix \in PrivPrefixes :
       Has(prefix) => said[prefix] # <<>> /\ PrivateValue(prefix) = Last(said[prefix])
  /\ \A i, j \in DOMAIN privitems : privitems[i][1] = privitems[j][1] => i = j
  /\ \A value \in Values : CNAMECollides(value) => validated
=============================================================================
