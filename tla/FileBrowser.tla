----------------------------- MODULE FileBrowser -----------------------------
(***************************************************************************)
(* The file explorer (src/app/file/file_app.cpp): the listings it asks the *)
(* storage service for, the pages it shows them on, the row selected with  *)
(* the buttons, and the place it returns to from the Reader.  Of the       *)
(* storage service it sees the state, the generation, the statuses and the *)
(* listings; the popup of an unsupported file and the drawing are left     *)
(* out, and a result that the explorer does not take is simply gone.       *)
(***************************************************************************)
EXTENDS Integers, Sequences

CONSTANTS
    RowCount,        \* FILE_VIEW_ROW_COUNT
    Contents,        \* the entries of each folder of the card of a generation
    StatusSlots,     \* length of the status queue
    MaxMedia,        \* bound: the generations explored
    MaxVisitsToFile  \* bound: openings of the explorer and listings asked for

Root == "root"
Folder == "folder"        \* the one folder of the root
NoFolder == "none"
Paths == {Root, Folder}
EntryKinds == {"folder", "book", "other"}

ASSUME FileAssumption ==
    /\ RowCount \in Nat \ {0} /\ StatusSlots \in Nat \ {0}
    /\ MaxMedia \in Nat \ {0}
    /\ \A g \in 1 .. MaxMedia : Root \in DOMAIN Contents[g] /\ DOMAIN Contents[g] \subseteq Paths
    /\ \A g \in 1 .. MaxMedia : \A p \in DOMAIN Contents[g] : Contents[g][p] \in Seq(EntryKinds)

VARIABLES
    fileMedium,      \* the service: its state, the generation, and whether the monitor
                 \* has raised the generation but not yet published the state
    fileStatuses,\* its status queue
    listings,    \* requests and results on their way, in order
    where,       \* the explorer is closed, open, or covered by the Reader
    browser,     \* current_path_, page_index_, restore_page_index_, selection_,
                 \* return_from_reader_, status_, requested_generation_, and
                 \* session_id_ and request_id_ as one number
    held,        \* directory_handle_: the folder listed and its generation
    wanted,      \* the folder request_directory is about to ask for
    left         \* history: the place left for the Reader

fileVars == <<fileMedium, fileStatuses, listings, where, browser, held, wanted, left>>

NoListing == [path |-> NoFolder, generation |-> 0]
NoPlace == [path |-> NoFolder, page |-> 0, generation |-> 0]

FileTypeOK ==
    /\ fileMedium.state \in {"ready", "no_card", "mounting", "error"}
    /\ fileMedium.generation \in 1 .. MaxMedia /\ where \in {"closed", "open", "reader"}
    /\ Len(fileStatuses) <= StatusSlots /\ wanted \in Paths \cup {NoFolder}
    /\ browser.path \in Paths /\ browser.page \in Nat /\ browser.selection \in Nat \cup {-1}
    /\ browser.status \in {"no_card", "mounting", "loading", "ready", "error",
                           "directory_error"}

FileInit ==
    /\ fileMedium = [state |-> "ready", generation |-> 1, changing |-> FALSE]
    /\ fileStatuses = <<>> /\ listings = <<>> /\ where = "closed" /\ held = NoListing
    /\ browser = [path |-> Root, page |-> 0, restore |-> 0, selection |-> -1,
                  back |-> FALSE, status |-> "no_card", request |-> 0, asked |-> 0]
    /\ wanted = NoFolder /\ left = NoPlace

\* The entries of a listing; row 0 of its first page is the parent.
Listed(listing) == IF listing = NoListing THEN <<>>
                   ELSE Contents[listing.generation][listing.path]
PageCount(listing) == (Len(Listed(listing)) + RowCount) \div RowCount

-----------------------------------------------------------------------------
(* The storage service.                                                    *)

explorerOnly == <<where, browser, held, wanted, left>>

\* handle_card_change raises the generation first ...
CardChanges ==
    /\ ~ fileMedium.changing /\ fileMedium.state # "mounting" /\ fileMedium.generation < MaxMedia
    /\ fileMedium' = [fileMedium EXCEPT !.generation = @ + 1, !.changing = TRUE]
    /\ UNCHANGED <<fileStatuses, listings, explorerOnly>>

\* ... then publish_status stores a state and queues it, over the oldest one.
PublishStatus ==
    /\ fileMedium.changing \/ fileMedium.state = "mounting"
    /\ \E s \in CASE fileMedium.state = "mounting" -> {"ready", "error"}
                  [] fileMedium.state = "no_card" -> {"mounting"}
                  [] OTHER -> {"no_card"} :
          /\ fileMedium' = [fileMedium EXCEPT !.state = s, !.changing = FALSE]
          /\ fileStatuses' =
                Append(IF Len(fileStatuses) = StatusSlots THEN Tail(fileStatuses)
                       ELSE fileStatuses,
                       [state |-> s, generation |-> fileMedium.generation])
    /\ UNCHANGED <<listings, explorerOnly>>

\* scan_directory: the worker serves the oldest request.
Serve ==
    \E i \in DOMAIN listings :
       /\ listings[i].code = "asked"
       /\ \A j \in 1 .. i - 1 : listings[j].code # "asked"
       /\ LET there == fileMedium.state = "ready" /\ listings[i].generation = fileMedium.generation
              found == there /\ listings[i].path \in DOMAIN Contents[fileMedium.generation]
          IN  \E code \in IF found THEN {"ok", "io_error"} ELSE IF there THEN {"io_error"}
                          ELSE {"no_card", "io_error"} :
                 listings' = [listings EXCEPT ![i].code = code]
       /\ UNCHANGED <<fileMedium, fileStatuses, explorerOnly>>

-----------------------------------------------------------------------------
(* file_app, in the main loop.                                             *)

Idle == wanted = NoFolder
Open == where = "open" /\ Idle
serviceOnly == <<fileMedium, fileStatuses, listings>>

\* request_directory: the folder on show stays current_path_ until the answer.
Ask(b, path) ==
    /\ browser' = [b EXCEPT !.selection = -1, !.request = @ + 1, !.page = 0,
                            !.asked = fileMedium.generation, !.status = "loading"]
    /\ held' = NoListing /\ wanted' = path

\* storage_service_list_directory reads the state and the generation for itself.
SendListing ==
    /\ ~ Idle /\ wanted' = NoFolder
    /\ IF fileMedium.state = "ready"
       THEN /\ listings' = Append(listings,
                   [path |-> wanted, request |-> browser.request,
                    generation |-> fileMedium.generation, code |-> "asked"])
            /\ UNCHANGED browser
       ELSE /\ browser' = [browser EXCEPT !.status = "no_card"] /\ UNCHANGED listings
    /\ UNCHANGED <<fileMedium, fileStatuses, where, held, left>>

\* view_status
ViewStatus(state) == IF state = "ready" THEN "loading" ELSE state

\* Faulty variant: the page to return to is forgotten when the explorer opens.
ReopenedAtTop(b) ==
    [b EXCEPT !.path = IF b.back THEN @ ELSE Root, !.restore = 0,
              !.request = @ + 1, !.selection = -1, !.page = 0,
              !.status = ViewStatus(fileMedium.state)]

\* on_open keeps the folder and the page only for a return from the Reader.
Reopened(b) ==
    [b EXCEPT !.path = IF b.back THEN @ ELSE Root, !.restore = IF b.back THEN @ ELSE 0,
              !.request = @ + 1, !.selection = -1, !.page = 0,
              !.status = ViewStatus(fileMedium.state)]

\* The explorer is opened, from the launcher or by the Reader that was left.
OpenFile ==
    /\ where \in {"closed", "reader"} /\ Idle /\ where' = "open"
    /\ browser.request < MaxVisitsToFile
    /\ IF fileMedium.state = "ready" THEN Ask(Reopened(browser), Reopened(browser).path)
       ELSE /\ browser' = Reopened(browser) /\ held' = NoListing /\ UNCHANGED wanted
    /\ UNCHANGED <<left, serviceOnly>>

\* on_close
Closed(b) == [b EXCEPT !.request = @ + 1, !.path = IF b.back THEN @ ELSE Root,
                       !.selection = -1, !.page = 0, !.status = "no_card"]

LeaveFile ==
    /\ Open /\ where' = "closed" /\ browser' = Closed(browser) /\ held' = NoListing
    /\ left' = NoPlace
    /\ UNCHANGED <<wanted, serviceOnly>>

\* The page buttons.
TurnFilePage ==
    /\ Open
    /\ \E page \in {browser.page - 1, browser.page + 1} \cap 0 .. PageCount(held) - 1 :
          browser' = [browser EXCEPT !.page = page, !.selection = -1]
    /\ left' = NoPlace
    /\ UNCHANGED <<where, held, wanted, serviceOnly>>

\* selectable_range, and the move of the selection, which turns to its page.
MoveRow ==
    /\ Open /\ browser.status = "ready"
    /\ LET first == IF browser.path = Root THEN 1 ELSE 0
           last == Len(Listed(held))
           at == browser.selection
       IN  /\ first <= last
           /\ \E row \in {IF at \in first + 1 .. last THEN at - 1 ELSE last,
                          IF at \in first .. last - 1 THEN at + 1 ELSE first} :
                 browser' = [browser EXCEPT !.selection = row, !.page = row \div RowCount]
    /\ left' = NoPlace
    /\ UNCHANGED <<where, held, wanted, serviceOnly>>

\* activate_row on a listing of another card, or on none.
Stale == \/ browser.status # "ready" \/ held = NoListing
         \/ held.generation # fileMedium.generation \/ fileMedium.state # "ready"

\* A click on a row of the page, or Confirm on the selected one if it is on it.
ActivateRow(item) ==
    /\ Open /\ item \div RowCount = browser.page /\ left' = NoPlace
    /\ IF Stale
       THEN /\ browser' = [browser EXCEPT !.status = "directory_error"]
            /\ UNCHANGED <<held, wanted>>
       ELSE /\ browser.request < MaxVisitsToFile
            /\ IF item = 0 THEN browser.path = Folder /\ Ask(browser, Root)
               ELSE /\ item <= Len(Listed(held)) /\ Listed(held)[item] = "folder"
                    /\ Ask(browser, Folder)
    /\ UNCHANGED <<where, serviceOnly>>

ActivateAnyRow == \E item \in 0 .. RowCount * (browser.page + 1) - 1 : ActivateRow(item)

\* A book is launched: the Reader covers the explorer, whose on_close runs.
LaunchBook ==
    /\ Open /\ ~ Stale
    /\ \E item \in 1 .. Len(Listed(held)) :
          item \div RowCount = browser.page /\ Listed(held)[item] = "book"
    /\ where' = "reader" /\ held' = NoListing
    /\ browser' = Closed([browser EXCEPT !.restore = browser.page, !.back = TRUE])
    /\ left' = [path |-> browser.path, page |-> browser.page, generation |-> fileMedium.generation]
    /\ UNCHANGED <<wanted, serviceOnly>>

Current(status) ==
    status.state = fileMedium.state /\ status.generation = fileMedium.generation

\* handle_storage_status, if the status is still the service's.
TakeStatus ==
    /\ fileStatuses # <<>> /\ Idle /\ fileStatuses' = Tail(fileStatuses)
    /\ LET status == Head(fileStatuses)
           start == [browser EXCEPT !.back = FALSE, !.selection = -1, !.restore = 0,
                                    !.asked = status.generation, !.path = Root,
                                    !.page = 0, !.status = ViewStatus(status.state)]
       IN  IF where = "open" /\ Current(status)
           THEN /\ left' = NoPlace
                /\ IF status.state = "ready" THEN Ask(start, Root)
                   ELSE /\ browser' = start /\ held' = NoListing /\ UNCHANGED wanted
           ELSE UNCHANGED <<browser, held, wanted, left>>
    /\ UNCHANGED <<fileMedium, listings, where>>

Takes(result) ==
    /\ result.request = browser.request /\ result.generation = browser.asked
    /\ result.generation = fileMedium.generation

\* handle_directory_result: a card that is gone is left to the status to come.
TakeListing ==
    /\ listings # <<>> /\ Head(listings).code # "asked" /\ Idle /\ fileStatuses = <<>>
    /\ listings' = Tail(listings)
    /\ LET result == Head(listings)
           listing == IF result.code = "ok"
                      THEN [path |-> result.path, generation |-> result.generation]
                      ELSE NoListing
           page == IF browser.restore < PageCount(listing) THEN browser.restore
                   ELSE PageCount(listing) - 1
       IN  IF where = "open" /\ Takes(result)
           THEN /\ held' = listing
                /\ browser' = IF result.code = "no_card" THEN browser
                     ELSE [browser EXCEPT !.path = IF result.code = "ok" THEN result.path
                                                   ELSE @,
                              !.status = IF result.code = "ok" THEN "ready"
                                         ELSE "directory_error",
                              !.selection = -1, !.page = page, !.restore = 0,
                              !.back = FALSE]
           ELSE UNCHANGED <<browser, held>>
    /\ UNCHANGED <<fileMedium, fileStatuses, where, wanted, left>>

FileNext ==
    \/ CardChanges \/ PublishStatus \/ Serve \/ SendListing \/ OpenFile \/ LeaveFile
    \/ TurnFilePage \/ MoveRow \/ ActivateAnyRow \/ LaunchBook \/ TakeStatus \/ TakeListing

FileSpec == FileInit /\ [][FileNext]_fileVars
-----------------------------------------------------------------------------
\* Docs/txt_reader.md:13 promises that returning from Reader restores the directory
\* and the list page.  What the explorer shows is the folder listed, of the card
\* asked for, its selected row is on the page shown, and an explorer the Reader
\* returns to shows the folder and the page it was left at, unless the card was
\* changed (activate_row, on_open, on_close, handle_directory_result).
ReturnsToPlace ==
    where = "open" /\ browser.status = "ready" =>
        /\ held.path = browser.path /\ held.generation = browser.asked
        /\ browser.page < PageCount(held)
        /\ browser.selection # -1 => browser.selection \div RowCount = browser.page
        /\ left # NoPlace /\ held.generation = left.generation =>
              browser.path = left.path /\ browser.page = left.page
=============================================================================
