------------------------- MODULE MCCanvasDocuments -------------------------
(* Canvas on two documents and boards of two or three notes.               *)
EXTENDS CanvasDocuments, TLC

CONSTANTS d1, d2, k1, k2, k3, ann, bot

MCNames == {"n1", "n2", "n3", "e1", "g1", "g2"}

Linked(notes, members) ==
  [nodes  |-> notes,
   edges  |-> {[id |-> "e1", from |-> "n1", to |-> "n2"]},
   groups |-> {[id |-> "g1", members |-> members]}]

\* A group of two notes and an edge between them, and a third note.
MCBoards == {Linked({"n1", "n2", "n3"}, {"n1", "n2"})}

\* Changes that fit, and ones that fit only at times: a note removed and added
\* again, an edge whose id a group may have, a member that may be gone.
MCEdits ==
  { [type |-> "note.add", id |-> "n1"],
    [type |-> "note.add", id |-> "g1"],
    [type |-> "note.remove", id |-> "n1"],
    [type |-> "edge.add", id |-> "g1", from |-> "n3", to |-> "n2"],
    [type |-> "group.create", id |-> "g2", members |-> {"n2", "n3"}],
    [type |-> "group.members", id |-> "g1", members |-> {"n1", "n3"}],
    [type |-> "group.remove", id |-> "g1"] }

Symmetric == Permutations(Keys) \cup Permutations(Actors) \cup Permutations(Ids)
=============================================================================
