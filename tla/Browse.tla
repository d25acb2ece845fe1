------------------------------- MODULE Browse -------------------------------
(***************************************************************************)
(* Looking for something to rent: the filters live in the URL              *)
(* (HomePage.jsx, SearchBox.jsx), every change of it asks the server for   *)
(* one page of the shelf (browseListings), and the pager works on what the *)
(* last answer said.  Listings are numbered in the order they were made.   *)
(* The filters kept here are the place and the highest price; the others   *)
(* (words, category, unit, dates) narrow the shelf the same way.           *)
(***************************************************************************)
EXTENDS Integers, Sequences, FiniteSets

CONSTANTS
  City,         \* the place of each listing, 1..Len(City)
  Rate,         \* its price for the unit shown, or Unset when it has none
  Mine,         \* listings of the visitor, who is signed in
  Prices,       \* highest prices a visitor may type
  Unset,          \* a filter that is not set
  PageSize,     \* listings on a page
  MaxAsked,     \* bound: questions on their way at once
  MaxChanges    \* bound: listings put on the shelf or taken off it

VARIABLES
  shelf,        \* listings published by owners whose account is active
  url,          \* the filters and the offset in the address
  box,          \* the text of the price field, which is the browser's own
  view,         \* what the page shows, and the address it answers
  asked,        \* questions on their way, current or not, answered or not
  changes,      \* how often the shelf changed
  strayed       \* why the offset may lie past the last match

vars == <<shelf, url, box, view, asked, changes, strayed>>

Listings == 1..Len(City)
Cities == {City[l] : l \in Listings}
Url == [city : Cities \cup {Unset}, max : Prices \cup {Unset}, offset : {k * PageSize : k \in 0..Len(City)}]
NoFilters == [city |-> Unset, max |-> Unset, offset |-> 0]

\* buildBrowseWhere: own listings are left out, a price excludes what has none.
Matching(u) ==
  {l \in shelf \ Mine :
     /\ u.city # Unset => City[l] = u.city
     /\ u.max # Unset => Rate[l] # Unset /\ Rate[l] <= u.max}

\* The newest first: before each stand those that are newer.
Newer(set, l) == {m \in set : m > l}
Ordered(set) == [i \in 1..Cardinality(set) |-> CHOOSE l \in set : Cardinality(Newer(set, l)) = i - 1]

\* The rows of the page, and the count their own statement makes: no row, no count.
FindPublishedListings(u) ==
  LET all == Ordered(Matching(u))
      rows == SubSeq(all, u.offset + 1, IF u.offset + PageSize > Len(all) THEN Len(all) ELSE u.offset + PageSize)
  IN [rows |-> rows, total |-> IF rows = <<>> THEN 0 ELSE Len(all), matches |-> Len(all)]

NoAnswer == [rows |-> <<>>, total |-> 0, matches |-> 0]
View(status, u, answer) == [status |-> status, url |-> u, answer |-> answer]
Question(u) == [url |-> u, active |-> TRUE, answered |-> FALSE, answer |-> NoAnswer]

\* A new address: the effect's clean-up disowns the question before.
Ask(u) ==
  /\ Cardinality(asked) < MaxAsked
  /\ url' = u
  /\ asked' = {[a EXCEPT !.active = FALSE] : a \in asked} \cup {Question(u)}

Init ==
  /\ shelf \in SUBSET Listings
  /\ url \in {NoFilters, [NoFilters EXCEPT !.offset = PageSize]}
  /\ box = url.max
  /\ view = View("loading", url, NoAnswer)
  /\ asked = {Question(url)}
  /\ changes = 0
  /\ strayed = IF url.offset = 0 THEN {} ELSE {"link"}

\* A filter changes, on the page, by a chip or in the header: back to the first page.
Narrowed(u) == [u EXCEPT !.offset = 0]
Apply(u) ==
  /\ Narrowed(u) # url /\ Ask(Narrowed(u))
  /\ strayed' = {}
  /\ UNCHANGED <<shelf, view, changes>>

ChangeCity(c) == c # url.city /\ Apply([url EXCEPT !.city = c]) /\ UNCHANGED box

\* Committed when the field is left, whatever it was left with.
LeavePriceField(p) == box' = p /\ Apply([url EXCEPT !.max = p])

\* Neither "Clear filters" nor the price's own chip reaches the field.
ClearFilters == url # NoFilters /\ Apply(NoFilters) /\ UNCHANGED box

LastOffset == LET last == ((view.answer.total - 1) \div PageSize) * PageSize
              IN IF last < 0 THEN 0 ELSE last

\* The results are of other filters, or the shelf is no longer what it was.
Outdated ==
  \/ view.url # [url EXCEPT !.offset = view.url.offset]
  \/ view.answer # FindPublishedListings(view.url)

\* The pager is there when the last answer had more than a page.
ChangePage(offset) ==
  /\ view.answer.total > PageSize
  /\ Ask([url EXCEPT !.offset = offset])
  /\ strayed' = IF Outdated THEN strayed \cup {"outdated"} ELSE strayed
  /\ UNCHANGED <<shelf, box, view, changes>>

Previous == url.offset > 0 /\ ChangePage(IF url.offset < PageSize THEN 0 ELSE url.offset - PageSize)
NextPage == url.offset < LastOffset /\ ChangePage(url.offset + PageSize)

BrowseListings(a) ==
  /\ ~a.answered
  /\ asked' = (asked \ {a}) \cup {[a EXCEPT !.answered = TRUE, !.answer = FindPublishedListings(a.url)]}
  /\ UNCHANGED <<shelf, url, box, view, changes, strayed>>

\* Mutant: every answer is shown, of whatever question.
ShownRegardless(a, status, answer) == View(status, a.url, answer)
Shown(a, status, answer) == IF a.active THEN View(status, a.url, answer) ELSE view

Answered(a) ==
  /\ a.answered
  /\ view' = Shown(a, "ready", a.answer)
  /\ asked' = asked \ {a}
  /\ UNCHANGED <<shelf, url, box, changes, strayed>>

Failed(a) ==
  /\ view' = Shown(a, "failed", NoAnswer)
  /\ asked' = asked \ {a}
  /\ UNCHANGED <<shelf, url, box, changes, strayed>>

\* Published, hidden, or gone with its owner's account.
ShelfChanges(l) ==
  /\ changes < MaxChanges
  /\ changes' = changes + 1
  /\ shelf' = (shelf \ {l}) \cup ({l} \ shelf)
  /\ strayed' = strayed \cup {"shelf"}
  /\ UNCHANGED <<url, box, view, asked>>

Next ==
  \/ \E c \in Cities \cup {Unset} : ChangeCity(c)
  \/ \E p \in Prices \cup {Unset} : LeavePriceField(p)
  \/ ClearFilters \/ Previous \/ NextPage
  \/ \E a \in asked : BrowseListings(a) \/ Answered(a) \/ Failed(a)
  \/ \E l \in Listings : ShelfChanges(l)

Spec == Init /\ [][Next]_vars
-----------------------------------------------------------------------------
Answer == [rows : Seq(Listings), total : 0..Len(City), matches : 0..Len(City)]
TypeOK ==
  /\ shelf \subseteq Listings /\ url \in Url
  /\ box \in Prices \cup {Unset}
  /\ view \in [status : {"loading", "ready", "failed"}, url : Url, answer : Answer]
  /\ asked \subseteq [url : Url, active : BOOLEAN, answered : BOOLEAN, answer : Answer]
  /\ changes \in 0..MaxChanges /\ strayed \subseteq {"link", "shelf", "outdated"}

\* The results on the page answer its filters and its page, or the question
\* that does is on its way: an answer that comes late or out of order is never
\* shown under other filters (the `active` guard of HomePage's results effect).
ResultsAnswerTheUrl == view.url = url \/ \E a \in asked : a.active /\ a.url = url

\* "Nothing matches that" is said of a search that matches something only to
\* one who followed a link past the end, turned the page on results of other
\* filters or of an older shelf, or whose shelf shrank under the page (apply's
\* reset of the offset, the pager's bounds).
EmptyIsExplained ==
  view.status = "ready" /\ view.url = url /\ view.answer.rows = <<>> =>
    view.answer.matches = 0 \/ strayed # {}

\* What the page says of the shelf is true of the address it says it of.
ResultsTellTheTruth == ResultsAnswerTheUrl /\ EmptyIsExplained

\* "Zero rows means zero matches" (findPublishedListings): not past the end.
ZeroRowsZeroMatches == view.answer.rows = <<>> => view.answer.matches = 0

\* "Nothing is mirrored, so nothing can fall out of sync" (HomePage.jsx): the
\* price field is, and keeps its text when the filter is cleared.
NothingOutOfSync == box = url.max
=============================================================================
