----------------------------- MODULE RefreshDebt -----------------------------
(***************************************************************************)
(* The ghosting a partial refresh leaves on the panel, as the renderer     *)
(* task accounts for it (src/ui/paper_mono/ui_renderer.cpp): counts of the *)
(* fast waveforms per region, which escalate a refresh to the next cleaner *)
(* mode, and of the status bar's own refreshes.  A quality refresh redraws *)
(* the whole panel and clears every count.                                 *)
(***************************************************************************)
EXTENDS Naturals

CONSTANTS
    FastestLimit,   \* FASTEST_REFRESHES_BEFORE_FAST
    FastLimit,      \* FAST_REFRESHES_BEFORE_QUALITY
    TextLimit,      \* FILE_TEXT_REFRESHES_BEFORE_QUALITY
    StatusLimit     \* STATUS_BAR_GHOST_DEBT_LIMIT

ASSUME DebtAssumption ==
    {FastestLimit, FastLimit, TextLimit, StatusLimit} \subseteq Nat \ {0}

\* Two of the regions that have a count of their own.
DebtRegions == {"control", "content"}
Modes == {"fastest", "fast", "text", "quality"}

VARIABLES
    debt,      \* ghost_debt: the counts of each region
    bar,       \* its status_bar and status_cleanup_pending
    cleaned,   \* quality_refreshed: in this turn of the renderer
    ghosts     \* per region, fastest refreshes since the panel was cleaned,
               \* other than the ones that only show a control pressed

debtVars == <<debt, bar, cleaned, ghosts>>

NoDebt == [r \in DebtRegions |-> [fastest |-> 0, fast |-> 0, text |-> 0]]
NoGhosts == [r \in DebtRegions |-> 0]

DebtTypeOK ==
    /\ debt \in [DebtRegions -> [fastest : 0 .. FastestLimit, fast : 0 .. FastLimit,
                                 text : Nat]]
    /\ bar \in [count : Nat, due : BOOLEAN]
    /\ cleaned \in BOOLEAN /\ ghosts \in [DebtRegions -> Nat]

DebtInit ==
    /\ debt = NoDebt /\ bar = [count |-> 0, due |-> FALSE]
    /\ cleaned = FALSE /\ ghosts = NoGhosts

\* resolve_mode, for a refresh that allows a cleanup
Cleaner(region, mode) ==
    LET owed == debt[region]
        worn == owed.fast + 1 >= FastLimit
    IN  CASE mode = "fastest" /\ owed.fastest + 1 >= FastestLimit ->
                 IF worn THEN "quality" ELSE "fast"
          [] mode = "fast" /\ worn -> "quality"
          [] mode = "text" /\ owed.text + 1 >= TextLimit -> "quality"
          [] OTHER -> mode

\* Faulty variant: a fast refresh clears the count of the fastest ones without
\* being counted itself.
RecordedFree(owed, mode) ==
    CASE mode = "fastest" -> IF owed.fastest < FastestLimit
                             THEN [owed EXCEPT !.fastest = @ + 1] ELSE owed
      [] mode = "fast" -> [owed EXCEPT !.fastest = 0]
      [] OTHER -> [owed EXCEPT !.text = @ + 1]

\* record_refresh: what a region owes after a refresh that is not quality.
Recorded(owed, mode) ==
    CASE mode = "fastest" -> IF owed.fastest < FastestLimit
                             THEN [owed EXCEPT !.fastest = @ + 1] ELSE owed
      [] mode = "fast" -> [owed EXCEPT !.fastest = 0,
                                       !.fast = IF @ < FastLimit THEN @ + 1 ELSE @]
      [] OTHER -> [owed EXCEPT !.text = @ + 1]

\* commit_refresh: the panel may upgrade the mode; a refresh that fails is not
\* recorded.
Refresh(region, mode, counted) ==
    \/ UNCHANGED debtVars
    \/ \E actual \in {mode, "quality"} :
          IF actual = "quality"
          THEN /\ debt' = NoDebt /\ bar' = [count |-> 0, due |-> FALSE]
               /\ ghosts' = NoGhosts /\ cleaned' = TRUE
          ELSE /\ debt' = [debt EXCEPT ![region] = Recorded(@, actual)]
               /\ ghosts' = IF counted /\ actual = "fastest"
                            THEN [ghosts EXCEPT ![region] = @ + 1] ELSE ghosts
               /\ UNCHANGED <<bar, cleaned>>

\* A frame; the status bar's own cleanup makes it a quality one.
RefreshFrame ==
    \E region \in DebtRegions, asked \in Modes :
        Refresh(region, Cleaner(region, IF bar.due THEN "quality" ELSE asked), TRUE)

\* process_control_request: a pressed control is shown at once, its release may
\* clean up.
ShowPressed == Refresh("control", "fastest", FALSE)

ShowReleased == Refresh("control", Cleaner("control", "fastest"), TRUE)

\* The status bar alone, unless this turn has made a quality refresh; the panel may
\* upgrade it, too.  Its count matters up to the limit only.
RefreshBar ==
    /\ ~ cleaned /\ UNCHANGED cleaned
    /\ \/ /\ bar' = [count |-> IF bar.due THEN bar.count ELSE bar.count + 1,
                     due |-> bar.due \/ bar.count + 1 >= StatusLimit]
          /\ UNCHANGED <<debt, ghosts>>
       \/ debt' = NoDebt /\ bar' = [count |-> 0, due |-> FALSE] /\ ghosts' = NoGhosts

\* The renderer task starts its next turn.
NextTurn == cleaned /\ cleaned' = FALSE /\ UNCHANGED <<debt, bar, ghosts>>

DebtNext == RefreshFrame \/ ShowPressed \/ ShowReleased \/ RefreshBar \/ NextTurn

DebtSpec == DebtInit /\ [][DebtNext]_debtVars
-----------------------------------------------------------------------------
\* However frames, presses, releases and upgrades alternate, a region takes
\* fewer than FastestLimit * FastLimit fastest refreshes, and fewer than
\* TextLimit text ones, before the panel is cleaned (resolve_mode,
\* record_refresh: a press may exhaust a count but never starts it again).
GhostingBounded ==
    \A r \in DebtRegions :
        /\ ghosts[r] <= (FastestLimit - 1) * FastLimit
        /\ debt[r].fast < FastLimit /\ debt[r].text < TextLimit
=============================================================================
