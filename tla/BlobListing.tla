----------------------------- MODULE BlobListing -----------------------------
(***************************************************************************)
(* Lists that clients fetch page by page: ListBlobs and ListContainers of  *)
(* internal/stores/blobstore/fsstore.  Between two pages other clients put *)
(* and delete what is listed; the marker is all that is remembered.        *)
(*                                                                         *)
(* Names are numbers in their order.  A name that holds the delimiter is   *)
(* listed as its virtual directory, which comes before the names in it and *)
(* after all that comes before the first of them; the directory has that   *)
(* name's number.  Without any this is a list of containers, or of blobs   *)
(* without a delimiter.                                                    *)
(***************************************************************************)
EXTENDS Integers, SequencesExt

CONSTANTS
  MaxName,     \* how many names there can be that have the list's prefix
  MaxResults,  \* the page sizes clients ask for
  MaxPage,     \* Azure's cap
  MaxChange    \* bound: how many names are put and deleted

VARIABLES
  virtual,     \* the names that hold the delimiter
  dir,         \* what each name is listed as
  present,     \* the names there are
  marker,      \* what the client resumes after; NoMarker
  listed,      \* the pages the client has got, joined
  over,        \* the last page had no marker
  changes,
  \* History, of the list since its first page.
  throughout,  \* names that were there all the time
  sometime     \* names that were there at one

listVars == <<virtual, dir, present, marker, listed, over, changes, throughout, sometime>>

Entry == 1..MaxName
NoMarker == 0

\* A directory's names are together, for they share a prefix and nothing else has
\* it.
Layout ==
  /\ virtual \in SUBSET Entry
  /\ dir \in [Entry -> Entry]
  /\ \A n \in Entry : /\ dir[n] <= n
                      /\ \A m \in Entry : m <= n => dir[m] <= dir[n]
                      /\ IF n \in virtual THEN dir[n] \in virtual /\ dir[dir[n]] = dir[n]
                                           ELSE dir[n] = n

Init ==
  /\ Layout
  /\ present \in SUBSET Entry
  /\ marker = NoMarker
  /\ listed = <<>>
  /\ over = FALSE
  /\ changes = 0
  /\ throughout = present
  /\ sometime = present

-----------------------------------------------------------------------------
Clamp(max) == IF max <= 0 \/ max > MaxPage THEN MaxPage ELSE max

\* The loop's state: resumeAfter, the page, prefixSet, and nextMarker, which is
\* set when the loop has ended early.
Start(after) == [after |-> after, page |-> <<>>, seen |-> {}, next |-> NoMarker]

Seen(loop, n) ==
  IF n \in virtual THEN [loop EXCEPT !.seen = @ \cup {dir[n]}] ELSE loop

MutVisitFromMarker(loop, n, max) ==
  LET key == dir[n] IN
  IF loop.next # NoMarker \/ (n \in virtual /\ key \in loop.seen) THEN loop
  ELSE IF loop.after # NoMarker /\ key < loop.after THEN loop
  ELSE IF Len(loop.page) >= max THEN [loop EXCEPT !.next = loop.after]
  ELSE [Seen(loop, n) EXCEPT !.page = Append(@, key), !.after = key]

(* ListBlobs' loop at one name.                                            *)
Visit(loop, n, max) ==
  LET key == dir[n] IN
  IF loop.next # NoMarker \/ (n \in virtual /\ key \in loop.seen) THEN loop
  ELSE IF loop.after # NoMarker /\ key <= loop.after THEN Seen(loop, n)
  ELSE IF Len(loop.page) >= max THEN [loop EXCEPT !.next = loop.after]
  ELSE [Seen(loop, n) EXCEPT !.page = Append(@, key), !.after = key]

(* The names are visited in their order.                                   *)
ListBlobs(max) ==
  LET loop[n \in 0..MaxName] ==
        IF n = 0 THEN Start(marker)
        ELSE IF n \in present THEN Visit(loop[n - 1], n, Clamp(max)) ELSE loop[n - 1]
  IN  loop[MaxName]

(* ListContainers' loop at one name: resumeAfter stays, and the marker is  *)
(* the last name of the page.                                              *)
VisitContainer(loop, n, max) ==
  IF loop.next # NoMarker \/ (loop.after # NoMarker /\ n <= loop.after) THEN loop
  ELSE IF Len(loop.page) = max THEN [loop EXCEPT !.next = loop.page[max]]
  ELSE [loop EXCEPT !.page = Append(@, n)]

ListContainers(max) ==
  LET loop[n \in 0..MaxName] ==
        IF n = 0 THEN Start(marker)
        ELSE IF n \in present THEN VisitContainer(loop[n - 1], n, Clamp(max)) ELSE loop[n - 1]
  IN  loop[MaxName]

(* The client asks for the next page.                                      *)
Fetch(answer) ==
  /\ ~over
  /\ listed' = listed \o answer.page
  /\ marker' = answer.next
  /\ over' = (answer.next = NoMarker)
  /\ UNCHANGED <<virtual, dir, present, changes, throughout, sometime>>

Change ==
  /\ ~over /\ changes < MaxChange
  /\ changes' = changes + 1
  /\ \E n \in Entry :
       \/ /\ n \notin present
          /\ present' = present \cup {n}
          /\ sometime' = sometime \cup {n}
          /\ UNCHANGED throughout
       \/ /\ n \in present
          /\ present' = present \ {n}
          /\ throughout' = throughout \ {n}
          /\ UNCHANGED sometime
  /\ UNCHANGED <<virtual, dir, marker, listed, over>>

Next ==
  \/ \E max \in MaxResults : \/ Fetch(ListBlobs(max))
                             \/ virtual = {} /\ Fetch(ListContainers(max))
  \/ Change

Spec == Init /\ [][Next]_listVars

-----------------------------------------------------------------------------
(* Properties.                                                             *)

(* Pages are of names, and the marker is one that was listed.              *)
TypeOK ==
  /\ listed \in Seq(Entry)
  /\ marker \in {NoMarker} \cup ToSet(listed)

(* The pages joined are in order and name nothing twice, though a          *)
(* directory's names may fall on both sides of a page's end (prefixSet is  *)
(* made anew for each page).                                               *)
NothingTwice == \A i, j \in DOMAIN listed : i < j => listed[i] < listed[j]

(* The list is complete in spite of what comes and goes between its pages: *)
(* what was there throughout is listed, and nothing that never was.        *)
Complete ==
  /\ over => {dir[n] : n \in throughout} \subseteq ToSet(listed)
  /\ ToSet(listed) \subseteq {dir[n] : n \in sometime}

(* A marker promises a page that is not empty if nothing changes: names of *)
(* directories already listed do not count (the page is declared full only *)
(* at a name that is still to be listed).                                  *)
NoEmptyPage ==
  changes = 0 /\ marker # NoMarker => \E max \in MaxResults : ListBlobs(max).page # <<>>
=============================================================================
