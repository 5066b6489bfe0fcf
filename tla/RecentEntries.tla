--------------------------- MODULE RecentEntries ---------------------------
(***************************************************************************)
(* What a ring buffer of the hub promises: it remembers the newest         *)
(* Capacity entries, in the order in which they came, and nothing else.    *)
(***************************************************************************)
EXTENDS Naturals, Sequences

CONSTANTS Capacity, Entries

VARIABLE recent     \* the remembered entries, the newest first

Init == recent = <<>>

Push(e) ==
    recent' = [k \in 1 .. (IF Len(recent) < Capacity THEN Len(recent) + 1 ELSE Capacity) |->
                  IF k = 1 THEN e ELSE recent[k - 1]]

Next == \E e \in Entries : Push(e)

Spec == Init /\ [][Next]_recent
=============================================================================
