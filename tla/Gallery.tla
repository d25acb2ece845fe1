------------------------------- MODULE Gallery ------------------------------
(***************************************************************************)
(* What listings promise those who look at their photos, with nothing of   *)
(* the requests, the provider and what goes wrong between them: a wall of  *)
(* pictures.  A contributor stores pictures, each once, and hangs all of   *)
(* them together or none; a picture that hangs is never thrown away, and   *)
(* one that was taken down, or never hung, is never hung again.            *)
(***************************************************************************)
EXTENDS Naturals

CONSTANTS Contributor,
          Most,        \* pictures one may bring
          Place        \* where they may hang

VARIABLES stored,      \* pictures there are
          wall,        \* which of them hang, and where
          phase        \* contributor -> whether it is adding, clearing up, or over

gallery == <<stored, wall, phase>>

By(c) == {c} \X (1..Most)
Hanging == {h.image : h \in wall}

Init ==
    /\ stored = {} /\ wall = {}
    /\ phase = [c \in Contributor |-> "adding"]

\* A picture is stored that is not.
Store(c) ==
    /\ phase[c] = "adding"
    /\ \E a \in By(c) \ stored : stored' = stored \cup {a}
    /\ UNCHANGED <<wall, phase>>

\* A picture is stored after all that its contributor has given up for lost.
StoreInVain(c) ==
    /\ phase[c] = "adding"
    /\ \E a \in By(c) \ stored : stored' = stored \cup {a}
    /\ phase' = [phase EXCEPT ![c] = "clearing"]
    /\ UNCHANGED wall

\* All that a contributor has stored is hung in one place, for the first time.
Hang(c, l) ==
    /\ phase[c] = "adding"
    /\ By(c) \cap Hanging = {}
    /\ wall' = wall \cup {[image |-> a, place |-> l] : a \in stored \cap By(c)}
    /\ phase' = [phase EXCEPT ![c] = "over"]
    /\ UNCHANGED stored

\* It will hang none of it.
GiveUp(c) ==
    /\ phase[c] = "adding"
    /\ phase' = [phase EXCEPT ![c] = "clearing"]
    /\ UNCHANGED <<stored, wall>>

Finish(c) ==
    /\ phase[c] # "over"
    /\ phase' = [phase EXCEPT ![c] = "over"]
    /\ UNCHANGED <<stored, wall>>

\* Some of what hangs in a place is taken down.
TakeDown(l) ==
    /\ \E gone \in SUBSET {h \in wall : h.place = l} : wall' = wall \ gone
    /\ UNCHANGED <<stored, phase>>

\* A picture that does not hang, and will not be hung, is thrown away.
Discard(c) ==
    /\ phase[c] # "adding"
    /\ \E a \in (stored \cap By(c)) \ Hanging : stored' = stored \ {a}
    /\ UNCHANGED <<wall, phase>>

Next ==
    \/ \E c \in Contributor : \/ Store(c) \/ StoreInVain(c) \/ GiveUp(c)
                              \/ Finish(c) \/ Discard(c)
                              \/ \E l \in Place : Hang(c, l)
    \/ \E l \in Place : TakeDown(l)

Spec == Init /\ [][Next]_gallery
=============================================================================
