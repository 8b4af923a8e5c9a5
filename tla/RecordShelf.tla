----------------------------- MODULE RecordShelf -----------------------------
(***************************************************************************)
(* What directories of immutable records promise: at most Limit records in  *)
(* each, every one added, dropped or exchanged for another of its directory *)
(* in a single step, and never changed while it is there.  A crash, an      *)
(* error or a restart changes nothing of them.                              *)
(***************************************************************************)
EXTENDS FiniteSets, Naturals

CONSTANTS Keys, Values, None, Limit,
          Place   \* Place[k]: the directory the record of k belongs to

VARIABLE records   \* the record of each key, or None

\* The keys of the records beside that of k.
Beside(k) == {q \in Keys : records[q] # None /\ Place[q] = Place[k]}

RInit == /\ records \in [Keys -> Values \cup {None}]
         /\ \A k \in Keys : Cardinality(Beside(k)) <= Limit

Put(k, v) ==
  /\ records[k] = None
  /\ Cardinality(Beside(k)) < Limit
  /\ records' = [records EXCEPT ![k] = v]

Drop(k) ==
  /\ records[k] # None
  /\ records' = [records EXCEPT ![k] = None]

Exchange(old, new, v) ==
  /\ records[old] # None /\ records[new] = None
  /\ Place[old] = Place[new]
  /\ records' = [records EXCEPT ![old] = None, ![new] = v]

RNext ==
  \E k \in Keys :
    \/ Drop(k)
    \/ \E v \in Values : Put(k, v) \/ \E old \in Keys : Exchange(old, k, v)

RSpec == RInit /\ [][RNext]_records
=============================================================================
