---------------------------- MODULE Conversation ----------------------------
(***************************************************************************)
(* What a thread promises its readers, with nothing of the requests, the   *)
(* sockets and the screens that bring it about: letters in the order they  *)
(* were begun, each said once and by whoever was let in; nobody but the    *)
(* system is let in once the conversation has ended; and bookmarks that    *)
(* only move forward, and never past the latest letter begun.              *)
(***************************************************************************)
EXTENDS Naturals

CONSTANTS
  Pens,     \* letters that may be under way at once
  Parties,  \* whose conversation it is
  System,   \* who writes at any time
  Ranks,    \* places in the order of letters
  Nobody    \* no author

VARIABLES
  open,      \* the parties may still write
  clock,     \* letters begun so far
  said,      \* rank -> who said the letter, Nobody while it is blank
  bookmark,  \* party -> the rank it has read to
  pen        \* letter under way -> its author and its rank, 0 until it is begun

conversation == <<open, clock, said, bookmark, pen>>

Authors == Parties \cup {System}
Down == [by |-> Nobody, at |-> 0]

Init ==
  /\ open = TRUE
  /\ clock = 0
  /\ said = [m \in Ranks |-> Nobody]
  /\ bookmark = [p \in Parties |-> 0]
  /\ pen = [w \in Pens |-> Down]

\* Somebody is let in to write; a party only while the conversation lasts.
TakeUp(w, a) ==
  /\ pen[w] = Down
  /\ open \/ a = System
  /\ pen' = [pen EXCEPT ![w] = [by |-> a, at |-> 0]]
  /\ UNCHANGED <<open, clock, said, bookmark>>

\* The letter gets the next rank, which nobody else has.
Begin(w) ==
  /\ pen[w] # Down /\ pen[w].at = 0
  /\ clock' = clock + 1
  /\ pen' = [pen EXCEPT ![w].at = clock + 1]
  /\ UNCHANGED <<open, said, bookmark>>

\* It is said, in a place that is blank.
Say(w) ==
  /\ pen[w].at # 0 /\ said[pen[w].at] = Nobody
  /\ said' = [said EXCEPT ![pen[w].at] = pen[w].by]
  /\ pen' = [pen EXCEPT ![w] = Down]
  /\ UNCHANGED <<open, clock, bookmark>>

\* It never will be: its place stays blank.
GiveUp(w) ==
  /\ pen' = [pen EXCEPT ![w] = Down]
  /\ UNCHANGED <<open, clock, said, bookmark>>

\* A party has read further.
Read(p, m) ==
  /\ bookmark[p] < m /\ m <= clock
  /\ bookmark' = [bookmark EXCEPT ![p] = m]
  /\ UNCHANGED <<open, clock, said, pen>>

End ==
  /\ open
  /\ open' = FALSE
  /\ UNCHANGED <<clock, said, bookmark, pen>>

Next ==
  \/ \E w \in Pens : GiveUp(w)
  \/ \E w \in Pens : Begin(w) \/ Say(w) \/ \E a \in Authors : TakeUp(w, a)
  \/ \E p \in Parties, m \in Ranks : Read(p, m)
  \/ End

Spec == Init /\ [][Next]_conversation
=============================================================================
