-------------------------------- MODULE Rows --------------------------------
(***************************************************************************)
(* What the operations of src/list.h promise: a list is a row of entries,  *)
(* an entry stands in one row at most, and every operation changes the     *)
(* rows it names and no other.  A head that lost its list without being    *)
(* initialized again (list_splice, list_replace) has no row.               *)
(***************************************************************************)
EXTENDS Naturals, SequencesExt

CONSTANTS
  Heads,     \* the list heads
  Entries,   \* the list_head members of the structures that are listed
  NoRow      \* of a head that must be initialized before it is used

VARIABLES
  rows,      \* rows[h]: the entries on the list of head h, in order
  call       \* the last operation and its arguments

vars == <<rows, call>>

Used   == {h \in Heads : rows[h] # NoRow}
Listed == UNION {ToSet(rows[h]) : h \in Used}
Idle   == Entries \ Listed

\* A row without its entries i to j, and one that begins behind its k-th entry.
Without(row, i, j) == SubSeq(row, 1, i - 1) \o SubSeq(row, j + 1, Len(row))
Turned(row, k)     == SubSeq(row, k + 1, Len(row)) \o SubSeq(row, 1, k)

Called(names, args) == \E name \in names : call' = <<name>> \o args
-----------------------------------------------------------------------------
Init == /\ rows = [h \in Heads |-> NoRow]
        /\ call = <<>>

InitHead(h) == /\ Called({"init"}, <<h>>)
               /\ h \in Used => rows[h] = <<>>
               /\ rows' = [rows EXCEPT ![h] = <<>>]

Add(e, h) == /\ Called({"add"}, <<e, h>>)
             /\ e \in Idle /\ h \in Used
             /\ rows' = [rows EXCEPT ![h] = <<e>> \o @]

AddTail(e, h) == /\ Called({"add_tail"}, <<e, h>>)
                 /\ e \in Idle /\ h \in Used
                 /\ rows' = [rows EXCEPT ![h] = @ \o <<e>>]

Del(e) ==
  /\ Called({"del", "del_init", "del_clearprev"}, <<e>>)
  /\ \E h \in Used : \E i \in DOMAIN rows[h] :
       rows[h][i] = e /\ rows' = [rows EXCEPT ![h] = Without(@, i, i)]

Replace(old, new) ==
  /\ Called({"replace", "replace_init"}, <<old, new>>)
  /\ new \in Idle
  /\ \E h \in Used : \E i \in DOMAIN rows[h] :
       rows[h][i] = old /\ rows' = [rows EXCEPT ![h][i] = new]

\* The list of one head goes over to another.
ReplaceHead(old, new, init) ==
  /\ Called({IF init THEN "replace_init" ELSE "replace"}, <<old, new>>)
  /\ old \in Used /\ new \notin Used
  /\ rows' = [rows EXCEPT ![new] = rows[old], ![old] = IF init THEN <<>> ELSE NoRow]

Swap(d, e) ==
  /\ Called({"swap"}, <<d, e>>)
  /\ d # e
  /\ \E g, h \in Used : \E i \in DOMAIN rows[g], j \in DOMAIN rows[h] :
       /\ rows[g][i] = d /\ rows[h][j] = e
       /\ rows' = [[rows EXCEPT ![g][i] = e] EXCEPT ![h][j] = d]

Move(e, h) ==
  /\ Called({"move"}, <<e, h>>)
  /\ h \in Used
  /\ \E g \in Used : \E i \in DOMAIN rows[g] :
       /\ rows[g][i] = e
       /\ rows' = [[rows EXCEPT ![g] = Without(@, i, i)] EXCEPT ![h] = <<e>> \o @]

MoveTail(e, h) ==
  /\ Called({"move_tail"}, <<e, h>>)
  /\ h \in Used
  /\ \E g \in Used : \E i \in DOMAIN rows[g] :
       /\ rows[g][i] = e
       /\ rows' = [[rows EXCEPT ![g] = Without(@, i, i)] EXCEPT ![h] = @ \o <<e>>]

BulkMoveTail(h, d, e) ==
  /\ Called({"bulk_move_tail"}, <<h, d, e>>)
  /\ h \in Used
  /\ \E i, j \in DOMAIN rows[h] :
       /\ i <= j /\ rows[h][i] = d /\ rows[h][j] = e
       /\ rows' = [rows EXCEPT ![h] = Without(@, i, j) \o SubSeq(@, i, j)]

RotateLeft(h) ==
  /\ Called({"rotate_left"}, <<h>>)
  /\ h \in Used
  /\ rows' = IF rows[h] = <<>> THEN rows ELSE [rows EXCEPT ![h] = Turned(@, 1)]

RotateToFront(e, h) ==
  /\ Called({"rotate_to_front"}, <<e, h>>)
  /\ h \in Used
  /\ \E i \in DOMAIN rows[h] :
       rows[h][i] = e /\ rows' = [rows EXCEPT ![h] = Turned(@, i - 1)]

\* The first k entries of h go over to g, whose row is not wanted any more.
Cut(g, h, k) == rows' = [rows EXCEPT ![g] = SubSeq(rows[h], 1, k),
                                     ![h] = SubSeq(rows[h], k + 1, Len(rows[h]))]

Unwanted(g, h) == g # h /\ h \in Used /\ (g \in Used => rows[g] = <<>>)

\* Up to e.  Nothing happens where e can be seen not to be on the list.
CutPosition(g, h, e) ==
  /\ Called({"cut_position"}, <<g, h, e>>)
  /\ Unwanted(g, h)
  /\ \/ \E i \in DOMAIN rows[h] : rows[h][i] = e /\ Cut(g, h, i)
     \/ e = h /\ rows[h] # <<>> /\ Cut(g, h, 0)
     \/ rows[h] = <<>> /\ UNCHANGED rows
     \/ Len(rows[h]) = 1 /\ e \notin {h, rows[h][1]} /\ UNCHANGED rows

\* Up to but without e, or everything.
CutBefore(g, h, e) ==
  /\ Called({"cut_before"}, <<g, h, e>>)
  /\ Unwanted(g, h)
  /\ \/ \E i \in DOMAIN rows[h] : rows[h][i] = e /\ Cut(g, h, i - 1)
     \/ e = h /\ Cut(g, h, Len(rows[h]))

\* The row of g goes over to h.  Without _init its head keeps dead links.
Splice(g, h, tail, init) ==
  /\ Called({CASE ~tail /\ ~init -> "splice"      [] tail /\ ~init -> "splice_tail"
               [] ~tail /\ init  -> "splice_init" [] tail /\ init  -> "splice_tail_init"},
            <<g, h>>)
  /\ g # h /\ {g, h} \subseteq Used
  /\ rows' = [rows EXCEPT
       ![h] = IF tail THEN @ \o rows[g] ELSE rows[g] \o @,
       ![g] = IF init \/ rows[g] = <<>> THEN <<>> ELSE NoRow]

Next ==
  \/ \E h \in Heads : InitHead(h) \/ RotateLeft(h)
  \/ \E e \in Entries, h \in Heads :
       Add(e, h) \/ AddTail(e, h) \/ Move(e, h) \/ MoveTail(e, h) \/ RotateToFront(e, h)
  \/ \E e \in Entries : Del(e)
  \/ \E d, e \in Entries : Replace(d, e) \/ Swap(d, e)
  \/ \E h \in Heads, d, e \in Entries : BulkMoveTail(h, d, e)
  \/ \E g, h \in Heads, init \in BOOLEAN : ReplaceHead(g, h, init)
  \/ \E g, h \in Heads, tail, init \in BOOLEAN : Splice(g, h, tail, init)
  \/ \E g, h \in Heads : \E e \in Entries \cup {h} : CutPosition(g, h, e) \/ CutBefore(g, h, e)

Spec == Init /\ [][Next]_vars

=============================================================================
