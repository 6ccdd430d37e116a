-------------------------------- MODULE Tailq --------------------------------
(***************************************************************************)
(* The TAILQ macros of <sys/queue.h> on which pool.c is built, at the      *)
(* level of their pointers.  The macros check nothing: TAILQ_REMOVE        *)
(* rewrites whatever the element's links name, also when the element is in *)
(* no queue or in another one, which is what this module is for.           *)
(*                                                                         *)
(* A pointer cell is the tqh_first of a head or the tqe_next of an entry,  *)
(* and is named by that head or entry.  The links are a record of          *)
(*   cell  what each cell points to (an entry or NULL),                    *)
(*   last  tqh_last of each head: the cell that ends its queue,            *)
(*   prev  tqe_prev of each entry: the cell that points to it.             *)
(***************************************************************************)
EXTENDS Naturals, Sequences

CONSTANTS Heads, Entries, NULL

Cells == Heads \cup Entries

Links == [cell : [Cells -> Entries \cup {NULL}],
          last : [Heads -> Cells],
          prev : [Entries -> Cells]]

TAILQ_FIRST(q, h) == q.cell[h]

TAILQ_INSERT_TAIL(q, h, e) ==
    [cell |-> [q.cell EXCEPT ![e] = NULL, ![q.last[h]] = e],
     last |-> [q.last EXCEPT ![h] = e],
     prev |-> [q.prev EXCEPT ![e] = q.last[h]]]

TAILQ_REMOVE(q, h, e) ==
    LET next == q.cell[e]
    IN  [cell |-> [q.cell EXCEPT ![q.prev[e]] = next],
         last |-> IF next = NULL THEN [q.last EXCEPT ![h] = q.prev[e]] ELSE q.last,
         prev |-> IF next = NULL THEN q.prev ELSE [q.prev EXCEPT ![next] = q.prev[e]]]

\* After TAILQ_INIT of every head and TAILQ_INSERT_TAIL of the entries of s,
\* which are all entries, into h.
Filled(h, s) ==
    LET n      == Len(s)
        pos(e) == CHOOSE k \in 1 .. n : s[k] = e
        at(k)  == IF k = 0 THEN h ELSE s[k]
        to(k)  == IF k = n THEN NULL ELSE s[k + 1]
    IN  [cell |-> [x \in Cells |-> IF x \in Entries THEN to(pos(x))
                                  ELSE IF x = h THEN to(0) ELSE NULL],
         last |-> [x \in Heads |-> IF x = h THEN at(n) ELSE x],
         prev |-> [e \in Entries |-> at(pos(e) - 1)]]

\* h's queue holds the entries of the sequence s, in that order, every link
\* of it included.
IsQueue(q, h, s) ==
    LET at(k) == IF k = 0 THEN h ELSE s[k]
    IN  /\ \A k \in 1 .. Len(s) : q.cell[at(k - 1)] = s[k] /\ q.prev[s[k]] = at(k - 1)
        /\ q.cell[at(Len(s))] = NULL
        /\ q.last[h] = at(Len(s))

\* The entries met when the queue is followed from its head, n steps at most.
Walk(q, h, n) ==
    LET f[k \in 0 .. n] == IF k = 0 THEN q.cell[h]
                           ELSE IF f[k - 1] = NULL THEN NULL
                           ELSE q.cell[f[k - 1]]
    IN  [k \in {j \in 1 .. n + 1 : f[j - 1] # NULL} |-> f[k - 1]]
=============================================================================
