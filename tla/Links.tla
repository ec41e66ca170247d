-------------------------------- MODULE Links --------------------------------
(***************************************************************************)
(* The circular doubly linked list of src/list.h, one action per function, *)
(* on the links themselves; and a loop that is safe against the removal of *)
(* the entry it is at, as transform_close() runs it.                       *)
(*                                                                         *)
(* The caller keeps to what the comments of list.h ask for: an entry is    *)
(* added when it is on no list, deleted when it is on one, and a head is   *)
(* initialized before it is used.  Wild is every link that must not be     *)
(* followed: LIST_POISON1, LIST_POISON2, NULL, what malloc() left behind,  *)
(* and what an entry or a head keeps that a function took off its list     *)
(* without initializing it.                                                *)
(***************************************************************************)
EXTENDS Naturals, FiniteSets, SequencesExt

CONSTANTS Heads, Entries, Wild, NoRow, NoLoop

ASSUME NodesAssumption == /\ Heads \cap Entries = {}
                          /\ Wild \notin Heads \cup Entries
                          /\ IsFiniteSet(Heads \cup Entries)
                          /\ NoRow \notin Seq(Entries)

VARIABLES
  links,     \* the fields next and prev of every list_head
  linked,    \* the heads that are initialized and the entries on a list
  call,      \* the last operation and its arguments
  walk       \* the loop that is under way, if any

vars == <<links, linked, call, walk>>

Nodes == Heads \cup Entries
Dirs  == {"next", "prev"}
-----------------------------------------------------------------------------
(* p->next = q; q->prev = p: every function of list.h is made of this.     *)

Join(l, p, q) == [next |-> [l.next EXCEPT ![p] = q], prev |-> [l.prev EXCEPT ![q] = p]]

Unset(l, n) == [next |-> [l.next EXCEPT ![n] = Wild], prev |-> [l.prev EXCEPT ![n] = Wild]]

INIT_LIST_HEAD(l, n) == Join(l, n, n)

Insert(l, new, p, n) == Join(Join(l, new, n), p, new)

list_add(l, new, head)      == Insert(l, new, head, l.next[head])
list_add_tail(l, new, head) == Insert(l, new, l.prev[head], head)

Unlink(l, e) == Join(l, l.prev[e], l.next[e])

\* A mutation: both links of old are read before they are written.
ReplaceOfOldLinks(l, old, new) ==
  Join(Join(l, new, l.next[old]), l.prev[old], new)

list_replace(l, old, new) ==
  LET m == Join(l, new, l.next[old]) IN Join(m, m.prev[old], new)

list_swap(l, d, e) ==
  LET m == list_replace(Unset(Unlink(l, e), e), d, e)
  IN  list_add(m, d, IF l.prev[e] = d THEN e ELSE l.prev[e])

list_move(l, e, head)      == list_add(Unlink(l, e), e, head)
list_move_tail(l, e, head) == list_add_tail(Unlink(l, e), e, head)

\* A mutation: the tail is read before the entries are taken out.
BulkMoveOldTail(l, head, first, last) ==
  Join(Join(Join(l, l.prev[first], l.next[last]), l.prev[head], first), last, head)

list_bulk_move_tail(l, head, first, last) ==
  LET m == Join(l, l.prev[first], l.next[last])
  IN  Join(Join(m, m.prev[head], first), last, head)

list_empty(l, head)       == l.next[head] = head
\* A mutation: an empty list counts as well.
SingularOrEmpty(l, head)  == l.next[head] = l.prev[head]
list_is_singular(l, head) == ~list_empty(l, head) /\ l.next[head] = l.prev[head]

\* __list_cut_position
CutAfter(l, list, head, e) ==
  Join(Join(Join(l, list, l.next[head]), e, list), head, l.next[e])

list_is_first(l, e, head) == l.prev[e] = head
list_is_last(l, e, head)  == l.next[e] = head

CannotCut(l, head, e) ==
  list_empty(l, head) \/ (list_is_singular(l, head) /\ e \notin {l.next[head], head})

list_cut_position(l, list, head, e) ==
  CASE CannotCut(l, head, e)                -> l
    [] ~CannotCut(l, head, e) /\ e = head   -> INIT_LIST_HEAD(l, list)
    [] OTHER                                -> CutAfter(l, list, head, e)

list_cut_before(l, list, head, e) ==
  LET m == Join(l, list, l.next[head])
  IN  IF l.next[head] = e THEN INIT_LIST_HEAD(l, list)
      ELSE Join(Join(m, m.prev[e], list), head, e)

\* __list_splice
Graft(l, list, p, n) == Join(Join(l, p, l.next[list]), l.prev[list], n)

list_splice(l, list, head, tail) ==
  CASE list_empty(l, list)              -> l
    [] ~list_empty(l, list) /\ tail     -> Graft(l, list, l.prev[head], head)
    [] OTHER                            -> Graft(l, list, head, l.next[head])
-----------------------------------------------------------------------------
(* The loops.  A loop over entries is the one over their list_heads.       *)

\* What a loop from pos visits on its way to head; Wild where it gets lost.
Visits(l, dir, pos, head) ==
  LET path[k \in Nat] ==
        IF k = 0 THEN <<pos>>
        ELSE LET s == path[k - 1]
             IN  IF Last(s) \in Nodes \ {head} THEN Append(s, l[dir][Last(s)]) ELSE s
      whole == path[Cardinality(Nodes)]
  IN  IF Last(whole) = head THEN Front(whole) ELSE <<Wild>>

ForEach(dir, head) == Visits(links, dir, links[dir][head], head)

\* Continuing behind an entry, and beginning with it.
Continue(dir, pos, head) == Visits(links, dir, links[dir][pos], head)
From(dir, pos, head)     == Visits(links, dir, pos, head)

\* The two cursors of a loop that is safe against removal.
Cursors(l, dir, pos) == [pos |-> pos, n |-> IF pos \in Nodes THEN l[dir][pos] ELSE Wild]

\* Mutations: the links of pos are read after the body (list_for_each); one
\* entry is left out; n is not read again.
AdvanceLate(l, dir, at)  == Cursors(l, dir, l[dir][at.pos])
AdvanceTwice(l, dir, at) == Cursors(l, dir, IF at.n \in Entries THEN l[dir][at.n] ELSE at.n)
AdvanceOnce(l, dir, at)  == [at EXCEPT !.pos = at.n]

Advance(l, dir, at) == Cursors(l, dir, at.n)
-----------------------------------------------------------------------------
Row(h) == IF h \in linked THEN ForEach("next", h) ELSE NoRow
OnList == linked \cap Entries

Init == /\ links  = [next |-> [n \in Nodes |-> Wild], prev |-> [n \in Nodes |-> Wild]]
        /\ linked = {}
        /\ call   = <<>>
        /\ walk   = NoLoop

Does(name, args, l, now) == /\ walk = NoLoop
                            /\ call'   = <<name>> \o args
                            /\ links'  = l
                            /\ linked' = now
                            /\ UNCHANGED walk

InitHead(h) ==
  /\ h \in linked => list_empty(links, h)
  /\ Does("init", <<h>>, INIT_LIST_HEAD(links, h), linked \cup {h})

Add(e, h) ==
  /\ e \notin linked /\ h \in linked
  /\ \/ Does("add", <<e, h>>, list_add(links, e, h), linked \cup {e})
     \/ Does("add_tail", <<e, h>>, list_add_tail(links, e, h), linked \cup {e})

Del(e) ==
  /\ e \in linked
  /\ LET u == Unlink(links, e)
     IN  \/ Does("del", <<e>>, Unset(u, e), linked \ {e})
         \/ Does("del_init", <<e>>, INIT_LIST_HEAD(u, e), linked \ {e})
         \/ Does("del_clearprev", <<e>>, Unset(u, e), linked \ {e})

\* An entry takes the place of another, or a head that of another.
Replace(old, new) ==
  /\ old \in linked /\ new \notin linked
  /\ LET m == list_replace(links, old, new)
     IN  \/ Does("replace", <<old, new>>, Unset(m, old), (linked \ {old}) \cup {new})
         \/ Does("replace_init", <<old, new>>, INIT_LIST_HEAD(m, old),
                 (linked \ ({old} \cap Entries)) \cup {new})

Swap(d, e) == /\ {d, e} \subseteq linked /\ d # e
              /\ Does("swap", <<d, e>>, list_swap(links, d, e), linked)

Move(e, h) ==
  /\ {e, h} \subseteq linked
  /\ \/ Does("move", <<e, h>>, list_move(links, e, h), linked)
     \/ Does("move_tail", <<e, h>>, list_move_tail(links, e, h), linked)

BulkMoveTail(h, first, last) ==
  /\ h \in linked
  /\ \E i, j \in DOMAIN Row(h) : i <= j /\ Row(h)[i] = first /\ Row(h)[j] = last
  /\ Does("bulk_move_tail", <<h, first, last>>,
          list_bulk_move_tail(links, h, first, last), linked)

RotateLeft(h) ==
  /\ h \in linked
  /\ Does("rotate_left", <<h>>,
          IF list_empty(links, h) THEN links ELSE list_move_tail(links, links.next[h], h),
          linked)

RotateToFront(e, h) ==
  /\ h \in linked /\ e \in ToSet(Row(h))
  /\ Does("rotate_to_front", <<e, h>>, list_move_tail(links, h, e), linked)

\* The cutters take a list that the caller does not care about; list_cut_position
\* also notices an entry that cannot be on head.
Cut(list, head, e) ==
  /\ list # head /\ head \in linked
  /\ list \in linked => list_empty(links, list)
  /\ LET on == e \in ToSet(Row(head)) \cup {head}
     IN  \/ /\ on \/ CannotCut(links, head, e)
            /\ Does("cut_position", <<list, head, e>>, list_cut_position(links, list, head, e),
                    IF CannotCut(links, head, e) THEN linked ELSE linked \cup {list})
         \/ /\ on
            /\ Does("cut_before", <<list, head, e>>, list_cut_before(links, list, head, e),
                    linked \cup {list})

Splice(list, head) ==
  /\ {list, head} \subseteq linked /\ list # head
  /\ \E tail \in BOOLEAN :
       LET m == list_splice(links, list, head, tail)
           full == ~list_empty(links, list)
       IN  \/ Does(IF tail THEN "splice_tail" ELSE "splice", <<list, head>>,
                   IF full THEN Unset(m, list) ELSE m,
                   IF full THEN linked \ {list} ELSE linked)
           \/ Does(IF tail THEN "splice_tail_init" ELSE "splice_init", <<list, head>>,
                   IF full THEN INIT_LIST_HEAD(m, list) ELSE m, linked)

\* A loop begins.  due is what it has yet to visit: all that stood in the list.
Loop(dir, h) ==
  /\ walk = NoLoop /\ h \in linked
  /\ walk' = [head |-> h, dir |-> dir, due |-> ForEach(dir, h),
              at |-> Cursors(links, dir, links[dir][h])]
  /\ UNCHANGED <<links, linked, call>>

\* The body is left with pos on the list, or deletes pos, which may then be freed.
Iterate ==
  /\ walk # NoLoop /\ walk.at.pos # walk.head
  /\ LET e == walk.at.pos
     IN  \/ UNCHANGED <<links, linked, call>>
         \/ /\ links' = Unset(Unlink(links, e), e)
            /\ linked' = linked \ {e}
            /\ call' = <<"del", e>>
  /\ walk' = [walk EXCEPT !.due = SubSeq(@, 2, Len(@)), !.at = Advance(links', walk.dir, @)]

EndLoop == /\ walk # NoLoop /\ walk.at.pos = walk.head
           /\ walk' = NoLoop
           /\ UNCHANGED <<links, linked, call>>

Walk == Iterate \/ EndLoop

Next ==
  \/ \E h \in Heads : InitHead(h) \/ RotateLeft(h)
  \/ \E e \in Entries, h \in Heads : Add(e, h) \/ Move(e, h) \/ RotateToFront(e, h)
  \/ \E e \in Entries : Del(e)
  \/ \E d, e \in Entries : Replace(d, e) \/ Swap(d, e)
  \/ \E h \in Heads, d, e \in Entries : BulkMoveTail(h, d, e)
  \/ \E g, h \in Heads : Replace(g, h) \/ Splice(g, h)
  \/ \E g, h \in Heads : \E e \in Entries \cup {h} : Cut(g, h, e)
  \/ \E h \in Heads, dir \in Dirs : Loop(dir, h)
  \/ Walk

Spec == Init /\ [][Next]_vars /\ WF_vars(Walk)
-----------------------------------------------------------------------------
TypeOK ==
  /\ links \in [next : [Nodes -> Nodes \cup {Wild}], prev : [Nodes -> Nodes \cup {Wild}]]
  /\ linked \subseteq Nodes
  /\ walk # NoLoop => /\ walk.head \in linked \cap Heads /\ walk.dir \in Dirs
                      /\ walk.due \in Seq(Entries)
                      /\ walk.at \in [pos : Nodes, n : Nodes]

\* Following next from whatever is linked stays among what is linked, and prev
\* undoes it: no operation leaves a one-sided link, or a link to an entry that
\* was deleted and may be freed (transform.c:101, transform.c:150).
LinksAgree ==
  \A n \in linked : /\ links.next[n] \in linked /\ links.prev[links.next[n]] = n
                    /\ links.prev[n] \in linked /\ links.next[links.prev[n]] = n

\* Every listed entry is on one list, and the backward loops, the loops that
\* go on from an entry and the queries of list.h tell of the same lists as the
\* forward loop does.
QueriesAgree ==
  /\ \A e \in OnList : Cardinality({h \in Heads \cap linked : e \in ToSet(Row(h))}) = 1
  /\ \A h \in Heads \cap linked :
       LET r == Row(h)
       IN  /\ ToSet(r) \subseteq OnList /\ IsInjective(r)
           /\ ForEach("prev", h) = Reverse(r)
           /\ list_empty(links, h) <=> r = <<>>
           /\ list_is_singular(links, h) <=> Len(r) = 1
           /\ \A i \in DOMAIN r :
                /\ list_is_first(links, r[i], h) <=> i = 1
                /\ list_is_last(links, r[i], h) <=> i = Len(r)
                /\ Continue("next", r[i], h) = SubSeq(r, i + 1, Len(r))
                /\ From("prev", r[i], h) = Reverse(SubSeq(r, 1, i))

\* A list_for_each_safe loop whose body deletes and frees the entry it is at,
\* as transformable_close() and transform_close() do, visits all that stood in
\* the list when it began: nothing is skipped, nothing deleted is read.
LoopSeesAll ==
  walk # NoLoop => Visits(links, walk.dir, walk.at.pos, walk.head) = walk.due

\* And it comes to its end.
LoopEnds == walk # NoLoop ~> walk = NoLoop

\* The lists as Rows has them: what a loop over each of them visits.
Shown == [h \in Heads |-> Row(h)]

R == INSTANCE Rows WITH rows <- Shown

\* Each function does to the lists what its comment in list.h says.
ImplementsRows == R!Spec

=============================================================================
