---------------------------- MODULE FeedMirror ----------------------------
(***************************************************************************)
(* What a synchronizer of the convenience database promises, however its   *)
(* commits, crashes and retries fall: there is one read position in each   *)
(* feed of the node; the positions only move forward; every step stores    *)
(* rows only of the stretch of the feeds it moves over, in the same atomic *)
(* step; and what is stored stays.  Hence no entry is ever stored by two   *)
(* steps, and a restart from the positions repeats nothing.                *)
(***************************************************************************)
EXTENDS Naturals, Sequences

CONSTANTS Feeds, Source

VARIABLES
  stored,   \* the rows mirrored so far
  read      \* read[f]: how many entries of feed f are behind the reader

mirrorVars == <<stored, read>>

Stretch(lo, hi) == UNION {{Source[f][k] : k \in lo[f] + 1 .. hi[f]} : f \in Feeds}

Init ==
  /\ stored = {}
  /\ read = [f \in Feeds |-> 0]

Advance ==
  /\ read' \in [Feeds -> Nat]
  /\ \A f \in Feeds : read[f] <= read'[f] /\ read'[f] <= Len(Source[f])
  /\ stored \subseteq stored'
  /\ stored' \ stored \subseteq Stretch(read, read')

Next == Advance

Spec == Init /\ [][Next]_mirrorVars
===========================================================================
