-------------------------------- MODULE Bottom --------------------------------
(***************************************************************************)
(* The list operations of src/common/queue/Bottom.cc, and the order of     *)
(* src/common/list/Entry.cc they sort by.  An entry is a record with its   *)
(* arrival time and gid, the number its constructor gives it.              *)
(***************************************************************************)
EXTENDS Integers, Sequences, FiniteSets

\* Entry::operator<
Before(e, f) == \/ e.arrival < f.arrival
                \/ e.arrival = f.arrival /\ e.gid < f.gid

Entries(list) == {list[i] : i \in DOMAIN list}

\* Mutant: the walk stops at an entry that is strictly earlier.
InsertUnstable(list, e) ==
    LET k == Cardinality({i \in DOMAIN list : list[i].arrival < e.arrival})
    IN  SubSeq(list, 1, k) \o <<e>> \o SubSeq(list, k + 1, Len(list))

\* Mutant: an entry earlier than the whole list is put at its back.
InsertFrontAtBack(list, e) ==
    LET k == Cardinality({i \in DOMAIN list : list[i].arrival <= e.arrival})
    IN  IF k = 0 THEN Append(list, e)
        ELSE SubSeq(list, 1, k) \o <<e>> \o SubSeq(list, k + 1, Len(list))

\* push(Entry*) walks from the back to the first entry that is not later than
\* e and inserts e behind it, or at the front when there is none.
Insert(list, e) ==
    LET NotLater == {i \in DOMAIN list : list[i].arrival <= e.arrival}
        k == CHOOSE i \in NotLater \cup {0} : \A j \in NotLater : j <= i
    IN  [i \in 1 .. Len(list) + 1 |->
           IF i <= k THEN list[i] ELSE IF i = k + 1 THEN e ELSE list[i - 1]]

\* push(EntryList*) sorts the list and merges it into m_list.  The queue calls
\* it only when m_list is empty: what is left is the sorted list.
SortList(S) ==
    [i \in 1 .. Cardinality(S) |->
       CHOOSE e \in S : Cardinality({f \in S : Before(f, e)}) = i - 1]

Sorted(list) == \A i, j \in DOMAIN list : i < j => Before(list[i], list[j])
===============================================================================
