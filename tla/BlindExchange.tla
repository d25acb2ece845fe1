---------------------------- MODULE BlindExchange ---------------------------
(***************************************************************************)
(* What reviews promise the two parties of a booking, with nothing of the  *)
(* requests, the sweep and the checks that keep the promise: two sealed    *)
(* pages, opened together.  An author may word a page as long as it is      *)
(* sealed; the pages of a booking are opened all at once, and only when    *)
(* both are written or the time of one that is has run out; an open page   *)
(* is answered at most once, and nothing else ever happens to it.          *)
(***************************************************************************)
CONSTANTS
  Bookings, Parties,
  Texts,    \* what a page may say
  Answers,  \* what may be answered to one
  Nothing   \* a page nobody wrote, an answer nobody gave

VARIABLES
  text,     \* booking -> author -> what the page says
  open,     \* booking -> author -> it can be read
  overdue,  \* booking -> author -> its time has run out
  answer    \* booking -> author -> what was answered to it

pages == <<text, open, overdue, answer>>

Everywhere(x) == [b \in Bookings |-> [p \in Parties |-> x]]

Init ==
  /\ text = Everywhere(Nothing)
  /\ open = Everywhere(FALSE)
  /\ overdue = Everywhere(FALSE)
  /\ answer = Everywhere(Nothing)

\* An author words a page that is sealed, for the first time or again.
Word(b, p, t) ==
  /\ ~open[b][p]
  /\ text' = [text EXCEPT ![b][p] = t]
  /\ UNCHANGED <<open, overdue, answer>>

\* The time of a written page runs out.
Expire(b, p) ==
  /\ text[b][p] # Nothing
  /\ overdue' = [overdue EXCEPT ![b][p] = TRUE]
  /\ UNCHANGED <<text, open, answer>>

\* Every written page of a booking is opened.
Open(b) ==
  /\ \/ \A p \in Parties : text[b][p] # Nothing
     \/ \E p \in Parties : overdue[b][p]
  /\ open' = [open EXCEPT ![b] = [p \in Parties |-> text[b][p] # Nothing]]
  /\ UNCHANGED <<text, overdue, answer>>

\* An open page is answered.
Reply(b, p, a) ==
  /\ open[b][p] /\ answer[b][p] = Nothing
  /\ answer' = [answer EXCEPT ![b][p] = a]
  /\ UNCHANGED <<text, open, overdue>>

Next ==
  \E b \in Bookings :
     \/ Open(b)
     \/ \E p \in Parties : \/ Expire(b, p)
                           \/ \E t \in Texts : Word(b, p, t)
                           \/ \E a \in Answers : Reply(b, p, a)

Spec == Init /\ [][Next]_pages
=============================================================================
