-------------------------------- MODULE TopK --------------------------------
(***************************************************************************)
(* What an elite archive promises: each cell keeps the best Capacity       *)
(* fitnesses it was ever offered, best first, and nothing else.  A         *)
(* candidate is offered to one cell at most of each direction.             *)
(***************************************************************************)
EXTENDS Integers, Sequences

CONSTANTS Cells, Capacity, Fitnesses

VARIABLE kept   \* kept[c]: fitnesses in descending order

\* s with f in its place: after every fitness that is at least f.
Placed(s, f) ==
  LET n == CHOOSE k \in 0 .. Len(s) : (\A i \in 1 .. k : s[i] >= f) /\ (\A i \in k + 1 .. Len(s) : s[i] < f)
  IN  SubSeq(s, 1, n) \o <<f>> \o SubSeq(s, n + 1, Len(s))

Offered(s, f) == LET t == Placed(s, f) IN IF Len(t) > Capacity THEN SubSeq(t, 1, Capacity) ELSE t

TopKInit == kept = [c \in Cells |-> <<>>]

\* One candidate is offered; the cells it changes have it in its place.
Offer(f, to) == \A c \in to : kept'[c] = Offered(kept[c], f)

TopKNext ==
  LET to == {c \in Cells : kept'[c] # kept[c]}
  IN  /\ to # {} /\ \A c \in to, d \in to : c[1] = d[1] => c = d
      /\ DOMAIN kept' = Cells
      /\ \E f \in Fitnesses : Offer(f, to)

TopKSpec == TopKInit /\ [][TopKNext]_kept
=============================================================================
