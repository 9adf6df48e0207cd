------------------------------- MODULE Notebook -------------------------------
(***************************************************************************)
(* A tab as its user understands it: a book of goals, tasks or journal     *)
(* entries.  While the book is open the page shows exactly what is in it,  *)
(* and keeping or discarding an entry changes both at once.                *)
(***************************************************************************)
CONSTANT Entries
VARIABLES book,   \* the entries kept
          open,   \* the page is on the screen
          page    \* the entries it shows

Init == book = {} /\ open = FALSE /\ page = {}

Open == ~open /\ open' = TRUE /\ page' = book /\ UNCHANGED book
Close == open /\ open' = FALSE /\ page' = {} /\ UNCHANGED book

Keep ==
  \E entry \in Entries \ book :
    open /\ book' = book \cup {entry} /\ page' = book' /\ UNCHANGED open

Discard ==
  \E entry \in page :
    open /\ book' = book \ {entry} /\ page' = book' /\ UNCHANGED open

\* The book is edited elsewhere while it is closed here.
EditElsewhere ==
  /\ ~open /\ UNCHANGED <<open, page>>
  /\ \E entry \in Entries : book' = book \cup {entry} \/ book' = book \ {entry}

Next == Open \/ Close \/ Keep \/ Discard \/ EditElsewhere
Spec == Init /\ [][Next]_<<book, open, page>>

=============================================================================
