--------------------------- MODULE MCBookCatalog ---------------------------
(***************************************************************************)
(* Two cards for BookCatalog.  Either the first one stays in its slot, the *)
(* settings change and Reader is opened, or cards are exchanged.           *)
(***************************************************************************)
EXTENDS BookCatalog, TLC

CONSTANTS first, second, novel, comic, atlas

\* One card, with a TXT book and an EPUB book.
OneShelf == first :> {novel, comic}

\* Two cards without a book in common.
TwoShelves == first :> {novel, comic} @@ second :> {atlas}

\* A behaviour that begins with the first card in its slot keeps it there.
Stays == cards[1] = first

\* The cards that are exchanged carry no catalog yet.
EitherInit ==
    /\ Init
    /\ \A c \in Cards : disk[c].catalog # None => Stays /\ c = first

EitherSpec == EitherInit /\ [][Next]_vars

\* While cards are exchanged, all a user does is to open Books (an action constraint).
Either ==
    IF Stays THEN media'.generation = media.generation
    ELSE /\ app' = app \/ app'.foreground = "books"
         /\ ~ books'.dialog /\ books'.launch = None
=============================================================================
