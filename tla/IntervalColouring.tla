------------------------- MODULE IntervalColouring -------------------------
(***************************************************************************)
(* What register allocation promises, whatever algorithm performs it:      *)
(* every item (virtual register) is given one colour (physical register)   *)
(* for its whole interval, no two items whose intervals share a position   *)
(* have the same colour, and the attempt is abandoned only when the        *)
(* intervals that contain some position cannot all have different colours. *)
(*                                                                         *)
(* The abstract specification of RegAlloc; it has no pool, no active list  *)
(* and no order in which the items are coloured.                           *)
(***************************************************************************)
EXTENDS Integers

CONSTANTS
  Items,    \* what is coloured
  Colours   \* a finite set

VARIABLES
  ranges,   \* item measured so far -> its interval [birth, death]
  colour,   \* item coloured so far -> its colour
  status    \* "measuring", "colouring", "done" or "failed"

vars == <<ranges, colour, status>>

Intersect(r, s) == r.birth <= s.death /\ s.birth <= r.death

\* Every member of S can have a colour of its own.
Colourable(S) == \E f \in [S -> Colours] : \A v, w \in S : f[v] = f[w] => v = w

\* The items whose intervals contain the position p.
Covering(p) == {v \in DOMAIN ranges : ranges[v].birth <= p /\ p <= ranges[v].death}

-----------------------------------------------------------------------------
Init ==
  /\ ranges = [v \in {} |-> 0]
  /\ colour = [v \in {} |-> 0]
  /\ status = "measuring"

\* Intervals appear and grow; none is forgotten or shrinks.
Measure ==
  /\ status = "measuring"
  /\ DOMAIN ranges' \subseteq Items
  /\ \A v \in DOMAIN ranges :
       /\ v \in DOMAIN ranges'
       /\ ranges'[v].birth <= ranges[v].birth
       /\ ranges[v].death <= ranges'[v].death
  /\ UNCHANGED <<colour, status>>

Measured ==
  /\ status = "measuring"
  /\ status' = "colouring"
  /\ UNCHANGED <<ranges, colour>>

\* Any free item, any colour no intersecting interval has.
Paint(v, c) ==
  /\ status = "colouring"
  /\ v \in DOMAIN ranges \ DOMAIN colour
  /\ \A w \in DOMAIN colour : colour[w] = c => ~Intersect(ranges[v], ranges[w])
  /\ colour' = [w \in DOMAIN colour \cup {v} |-> IF w = v THEN c ELSE colour[w]]
  /\ UNCHANGED <<ranges, status>>

Finish ==
  /\ status = "colouring"
  /\ DOMAIN colour = DOMAIN ranges
  /\ status' = "done"
  /\ UNCHANGED <<ranges, colour>>

\* Giving up is allowed only when no colouring exists.
GiveUp ==
  /\ status = "colouring"
  /\ \E v \in DOMAIN ranges : ~Colourable(Covering(ranges[v].birth))
  /\ status' = "failed"
  /\ UNCHANGED <<ranges, colour>>

Next ==
  \/ Measure
  \/ Measured
  \/ \E v \in Items, c \in Colours : Paint(v, c)
  \/ Finish
  \/ GiveUp

Spec == Init /\ [][Next]_vars

=============================================================================
