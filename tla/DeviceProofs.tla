---------------------------- MODULE DeviceProofs ----------------------------
(***************************************************************************)
(* The runtime and what hangs on it: the apps and their return history,    *)
(* the touches, the buttons, the file explorer, the clock and the battery; *)
(* the EPUB cache and the calendar.  The parts share nothing but the       *)
(* module.                                                                 *)
(***************************************************************************)
EXTENDS AppRuntime, TouchInput, Buttons, FileBrowser, RtcClock, Battery, EpubCache,
        Calendar, SequenceTheorems, NaturalsInduction, WellFoundedInduction, TLAPS

-----------------------------------------------------------------------------
(* AppRuntime implements AppStack, and who follows the card knows its      *)
(* state.  Both rest on PathInv: the return history and the app on top of  *)
(* it are a path through the menus.  No path is longer than two, so no     *)
(* history forgets an entry, no app is asked to open itself and no target  *)
(* refuses its launch.                                                     *)

\* The app that is or will be on top.
Top == IF pending # NoApp THEN pending ELSE foreground

FromLauncher == {"books", "file", "menu"}
FromMenu == {"test", "rtc_setting", "battery", "gray4_test"}

PathInv ==
    /\ returns \in Seq(Apps) /\ foreground \in Apps \cup {NoApp} /\ launch \in BOOLEAN
    /\ foreground = NoApp => returns = <<>> /\ pending = "launcher" /\ ~ launch
    /\ foreground # NoApp =>
         /\ Len(returns) <= 2
         /\ Len(returns) = 0 => Top = "launcher"
         /\ Len(returns) >= 1 => returns[1] = "launcher"
         /\ Len(returns) = 1 => Top \in FromLauncher
         /\ Len(returns) = 2 => /\ returns[2] \in FromLauncher
                                /\ returns[2] = "menu" => Top \in FromMenu
                                /\ returns[2] # "menu" => Top = "reader"
         /\ pending # NoApp => pending # foreground /\ (launch <=> pending = "reader")

\* The newest status is last in the queue, or known to the app that follows the card.
StatusInv ==
    /\ medium \in Nat /\ statuses \in Seq(Nat)
    /\ statuses # <<>> => statuses[Len(statuses)] = medium
    /\ StatusKnown

RuntimeInv == PathInv /\ StatusInv

\* What the launcher and the menu offer.
LEMMA EntryFacts ==
    /\ \A i \in DOMAIN Entries["launcher"] : Entries["launcher"][i] \in FromLauncher
    /\ \A i \in DOMAIN Entries["menu"] : Entries["menu"][i] \in FromMenu
    /\ Apps = {"launcher", "menu", "reader"} \cup FromLauncher \cup FromMenu
    /\ NoApp \notin Apps
<1>1. Entries["launcher"] = <<"books", "file", "menu">>
      /\ Entries["menu"] = <<"test", "rtc_setting", "battery", "gray4_test">>
  BY DEF Entries
<1>2. /\ DOMAIN <<"books", "file", "menu">> = {1, 2, 3}
      /\ DOMAIN <<"test", "rtc_setting", "battery", "gray4_test">> = {1, 2, 3, 4}
  OBVIOUS
<1>3. Range(Entries["launcher"]) = FromLauncher
  BY <1>1, <1>2 DEF Range, FromLauncher
<1>4. Range(Entries["menu"]) = FromMenu
  BY <1>1, <1>2 DEF Range, FromMenu
<1>5. Apps = {"launcher", "menu", "reader"} \cup FromLauncher \cup FromMenu
  BY <1>3, <1>4 DEF Apps
<1>6. NoApp \notin Apps
  BY <1>5 DEF FromLauncher, FromMenu, NoApp
<1> QED
  BY <1>1, <1>2, <1>5, <1>6 DEF FromLauncher, FromMenu

\* Numbers, apart from sequences.
LEMMA Numbers ==
    /\ \A n \in Nat : n <= 2 => n \in {0, 1, 2}
    /\ \A h \in Nat, n \in {0, 1} : h >= 2 => n # h
    /\ \A n \in Nat : (IF 1 <= n THEN n - 1 + 1 ELSE 0) = n
  OBVIOUS

\* Where the foreground app is, if nothing is pending, how long the history is.
LEMMA Depths ==
    ASSUME PathInv, pending = NoApp
    PROVE  /\ foreground \in Apps
           /\ foreground = "launcher" <=> Len(returns) = 0
           /\ foreground \in FromLauncher <=> Len(returns) = 1
           /\ Len(returns) \in {0, 1, 2}
<1>1. Top = foreground /\ foreground # NoApp /\ foreground \in Apps
  BY DEF PathInv, Top, NoApp
<1>2. Len(returns) \in Nat
  BY DEF PathInv
<1>3. Len(returns) \in {0, 1, 2}
  <2>1. Len(returns) <= 2
    BY <1>1 DEF PathInv
  <2> QED
    BY <1>2, <2>1, Numbers
<1>4. CASE Len(returns) = 0
  BY <1>1, <1>4 DEF PathInv, FromLauncher
<1>5. CASE Len(returns) = 1
  BY <1>1, <1>5 DEF PathInv, FromLauncher
<1>6. CASE Len(returns) = 2
  BY <1>1, <1>6 DEF PathInv, FromLauncher, FromMenu
<1> QED
  BY <1>1, <1>3, <1>4, <1>5, <1>6

\* A switch to something the foreground app offers.
LEMMA SwitchPath ==
    ASSUME PathInv, pending = NoApp, NEW target, NEW withBook \in BOOLEAN,
           RequestSwitch(target, withBook), UNCHANGED foreground,
           withBook <=> target = "reader",
           \/ foreground = "launcher" /\ target \in FromLauncher
           \/ foreground = "menu" /\ target \in FromMenu
           \/ foreground \in Launchers /\ target = "reader"
    PROVE  PathInv' /\ returns' = Append(returns, foreground) /\ pending' = target
<1>1. /\ foreground # target /\ target # "launcher" /\ foreground # NoApp
      /\ target \in Apps \ {NoApp}
  BY EntryFacts DEF FromLauncher, FromMenu, Launchers, NoApp
<1>0. HistorySize \in Nat /\ HistorySize >= 2
  BY RuntimeAssumption DEF RuntimeAssumption
<1>2. Len(returns) \in {0, 1} /\ Len(returns) # HistorySize
  <2>1. Len(returns) \in {0, 1}
    BY Depths DEF FromLauncher, Launchers
  <2> QED
    BY <1>0, <2>1, Numbers
<1>3. /\ returns' = Append(returns, foreground) /\ pending' = target
      /\ launch' = withBook
  BY <1>1, <1>2 DEF RequestSwitch, Remembered
<1>4. returns \in Seq(Apps) /\ foreground \in Apps
  BY Depths DEF PathInv
<1>5. /\ returns' \in Seq(Apps) /\ Len(returns') = Len(returns) + 1
      /\ \A i \in 1 .. Len(returns) : returns'[i] = returns[i]
      /\ returns'[Len(returns) + 1] = foreground
  BY <1>3, <1>4
<1>6. CASE foreground = "launcher"
  <2>1. Len(returns) = 0
    BY <1>6, Depths
  <2> QED
    BY <1>1, <1>3, <1>4, <1>5, <1>6, <2>1
       DEF PathInv, Top, FromLauncher, Launchers
<1>7. CASE foreground # "launcher"
  <2>1. Len(returns) = 1 /\ returns[1] = "launcher"
    BY <1>2, <1>7, Depths DEF PathInv
  <2> QED
    BY <1>1, <1>3, <1>4, <1>5, <1>7, <2>1
       DEF PathInv, Top, FromLauncher, FromMenu, Launchers
<1> QED
  BY <1>3, <1>6, <1>7

\* Going back pops the history.
LEMMA BackPath ==
    ASSUME PathInv, GoBack
    PROVE  /\ PathInv' /\ returns # <<>>
           /\ returns' = Front(returns) /\ pending' = Last(returns)
           /\ pending' \in Apps /\ pending' # NoApp
<1>1. pending = NoApp /\ foreground # "launcher" /\ UNCHANGED foreground
  BY DEF GoBack, Reaches
<1>2. Len(returns) \in {1, 2} /\ returns \in Seq(Apps) /\ returns # <<>>
  BY <1>1, Depths DEF PathInv
<1>3. /\ returns' = Front(returns) /\ pending' = Last(returns) /\ ~ launch'
      /\ launch' \in BOOLEAN
  BY <1>2 DEF GoBack, RequestBack
<1>4. /\ returns' \in Seq(Apps) /\ Len(returns') = Len(returns) - 1
      /\ \A i \in 1 .. Len(returns) - 1 : returns'[i] = returns[i]
  <2> DEFINE n == Len(returns) - 1
  <2>1. n \in Nat /\ \A i \in 1 .. n : returns[i] \in Apps
    BY <1>2
  <2>2. returns' = SubSeq(returns, 1, n)
    BY <1>3 DEF Front
  <2> HIDE DEF n
  <2>3. Len(returns') = n /\ returns' \in Seq(Apps)
    BY <2>1, <2>2, Numbers, SubSeqProperties
  <2>4. ASSUME NEW i \in 1 .. n
        PROVE  returns'[i] = returns[i]
    <3>1. i \in 1 .. n - 1 + 1 /\ 1 + i - 1 = i
      BY <2>1
    <3> QED
      BY <2>1, <2>2, <3>1, SubSeqProperties
  <2> QED
    BY <2>3, <2>4 DEF n
<1>5. pending' = returns[Len(returns)] /\ pending' \in Apps
  BY <1>2, <1>3 DEF Last
<1>6. CASE Len(returns) = 1
  BY <1>1, <1>2, <1>3, <1>4, <1>5, <1>6, EntryFacts
     DEF PathInv, Top, FromLauncher, NoApp
<1>7. CASE Len(returns) = 2
  BY <1>1, <1>2, <1>3, <1>4, <1>5, <1>7, EntryFacts
     DEF PathInv, Top, FromLauncher, FromMenu, NoApp
<1> QED
  BY <1>2, <1>3, <1>5, <1>6, <1>7, EntryFacts

\* A switch that is applied opens its target: it is another app, and takes its book.
LEMMA AppliedPath ==
    ASSUME PathInv, ApplySwitch
    PROVE  /\ PathInv'
           /\ \/ pending = NoApp /\ UNCHANGED <<foreground, returns, known>>
              \/ pending # NoApp /\ foreground' = pending /\ UNCHANGED returns
                    /\ OnOpen(pending)
           /\ pending' = NoApp
<1>1. pending' = NoApp /\ launch' = FALSE
  BY DEF ApplySwitch
<1>2. CASE pending = NoApp
  BY <1>1, <1>2 DEF ApplySwitch, PathInv, Top
<1>3. CASE pending # NoApp
  <2>1. pending # foreground /\ Prepares(pending, launch)
    BY <1>3 DEF PathInv, Prepares, NoApp
  <2>2. foreground' = pending /\ UNCHANGED returns /\ OnOpen(pending)
    BY <1>3, <2>1 DEF ApplySwitch
  <2>3. pending \in Apps
    <3>1. CASE foreground = NoApp
      BY <3>1, EntryFacts DEF PathInv
    <3>2. CASE foreground # NoApp
      <4>1. Top = pending /\ Len(returns) <= 2 /\ returns \in Seq(Apps)
        BY <1>3, <3>2 DEF PathInv, Top
      <4>2. Len(returns) \in Nat
        BY <4>1
      <4>3. Len(returns) \in {0, 1, 2}
        BY <4>1, <4>2, Numbers
      <4> QED
        BY <3>2, <4>1, <4>3, EntryFacts DEF PathInv
    <3> QED
      BY <3>1, <3>2
  <2>4. pending # NoApp /\ Top' = Top /\ foreground' # NoApp /\ foreground' \in Apps
    BY <1>1, <1>3, <2>2, <2>3 DEF Top
  <2>5. CASE foreground = NoApp
    <3>1. returns' = <<>> /\ Top' = "launcher"
      BY <2>2, <2>4, <2>5 DEF PathInv, Top
    <3>2. Len(returns') = 0 /\ returns' \in Seq(Apps) /\ Top' = "launcher"
      BY <3>1
    <3>3. /\ Len(returns') <= 2 /\ ~ Len(returns') >= 1
          /\ Len(returns') # 1 /\ Len(returns') # 2
      BY <3>2
    <3>4. /\ foreground' \in Apps \cup {NoApp} /\ launch' \in BOOLEAN
          /\ pending' = NoApp /\ foreground' # NoApp
      BY <1>1, <2>4
    <3>5. PathInv'
      BY <3>2, <3>3, <3>4, Zenon DEF PathInv
    <3> QED
      BY <1>1, <1>3, <2>2, <3>5, Zenon
  <2>6. CASE foreground # NoApp
    BY <1>1, <2>2, <2>4, <2>6 DEF PathInv
  <2> QED
    BY <1>1, <1>3, <2>2, <2>5, <2>6
<1> QED
  BY <1>1, <1>2, <1>3

\* Every step keeps to the paths.
LEMMA PathStep == PathInv /\ [RuntimeNext]_runtimeVars => PathInv'
<1> SUFFICES ASSUME PathInv, [RuntimeNext]_runtimeVars PROVE PathInv'
  OBVIOUS
<1>1. CASE GoBack
  BY <1>1, BackPath
<1>2. CASE ClickEntry \/ Confirm
  <2>1. PICK i \in DOMAIN Entries[foreground] :
            /\ Reaches({"launcher", "menu"})
            /\ RequestSwitch(Entries[foreground][i], FALSE) /\ UNCHANGED foreground
    BY <1>2 DEF ClickEntry, Confirm, Activate
  <2> QED
    BY <2>1, SwitchPath, EntryFacts DEF Reaches, FromLauncher, FromMenu
<1>3. CASE LaunchFromFile \/ LaunchFromBooks
  BY <1>3, SwitchPath DEF LaunchFromFile, LaunchFromBooks, Reaches, Launchers
<1>4. CASE ApplySwitch
  BY <1>4, AppliedPath
<1>5. CASE UNCHANGED <<foreground, returns, pending, launch>>
  BY <1>5 DEF PathInv, Top
<1> QED
  BY <1>1, <1>2, <1>3, <1>4, <1>5
     DEF RuntimeNext, MoveSelection, StatusEvent, StatusChanges, EventsDone, AppsRun,
         runtimeVars

\* A queue that loses its first entry, and perhaps gets a last one.
LEMMA QueueFacts ==
    ASSUME NEW q \in Seq(Nat), NEW m \in Nat
    PROVE  /\ q # <<>> => /\ Tail(q) \in Seq(Nat) /\ Head(q) = q[1]
                          /\ Tail(q) # <<>> => Tail(q)[Len(Tail(q))] = q[Len(q)]
                          /\ Tail(q) = <<>> => Len(q) = 1
           /\ Append(q, m) \in Seq(Nat) /\ Append(q, m) # <<>>
           /\ Append(q, m)[Len(Append(q, m))] = m
<1>1. ASSUME q # <<>>
      PROVE  /\ Tail(q) \in Seq(Nat) /\ Head(q) = q[1]
             /\ Tail(q) # <<>> => Tail(q)[Len(Tail(q))] = q[Len(q)]
             /\ Tail(q) = <<>> => Len(q) = 1
  <2>1. /\ Tail(q) \in Seq(Nat) /\ Len(Tail(q)) = Len(q) - 1
        /\ \A i \in 1 .. Len(Tail(q)) : Tail(q)[i] = q[i + 1]
    BY <1>1, HeadTailProperties
  <2>2. Head(q) = q[1]
    BY <1>1
  <2>3. Tail(q) # <<>> => Tail(q)[Len(Tail(q))] = q[Len(q)]
    BY <2>1
  <2>4. Tail(q) = <<>> => Len(q) = 1
    <3>1. Tail(q) = <<>> => Len(Tail(q)) = 0
      BY <2>1, EmptySeq, LenProperties
    <3>2. Len(q) \in Nat
      OBVIOUS
    <3> QED
      BY <2>1, <3>1, <3>2
  <2> QED
    BY <2>1, <2>2, <2>3, <2>4
<1>2. /\ Append(q, m) \in Seq(Nat) /\ Append(q, m) # <<>>
      /\ Append(q, m)[Len(Append(q, m))] = m
  OBVIOUS
<1> QED
  BY <1>1, <1>2

\* Whoever follows the card learns its last status, or is told by on_open.
LEMMA StatusStep == PathInv /\ StatusInv /\ [RuntimeNext]_runtimeVars => StatusInv'
<1> SUFFICES ASSUME PathInv, StatusInv, [RuntimeNext]_runtimeVars PROVE StatusInv'
  OBVIOUS
<1> USE DEF StatusInv, StatusKnown
<1>1. CASE GoBack
  <2>1. pending' # NoApp /\ UNCHANGED <<medium, statuses>>
    BY <1>1, BackPath DEF GoBack
  <2> QED
    BY <2>1
<1>2. CASE ClickEntry \/ Confirm
  <2>1. PICK i \in DOMAIN Entries[foreground] :
            /\ Reaches({"launcher", "menu"})
            /\ RequestSwitch(Entries[foreground][i], FALSE)
            /\ UNCHANGED <<foreground, medium, statuses>>
    BY <1>2 DEF ClickEntry, Confirm, Activate
  <2>2. pending' # NoApp
    BY <2>1, EntryFacts DEF Reaches, RequestSwitch, FromLauncher, FromMenu, NoApp
  <2> QED
    BY <2>1, <2>2
<1>3. CASE LaunchFromFile \/ LaunchFromBooks
  BY <1>3 DEF LaunchFromFile, LaunchFromBooks, RequestSwitch, NoApp
<1>4. CASE ApplySwitch
  <2>1. UNCHANGED <<medium, statuses>>
    BY <1>4 DEF ApplySwitch
  <2> QED
    BY <1>4, <2>1, AppliedPath DEF OnOpen
<1>5. CASE StatusEvent
  <2>1. /\ statuses # <<>> /\ statuses' = Tail(statuses)
        /\ UNCHANGED <<foreground, pending, medium>>
        /\ pending = NoApp /\ foreground \in Launchers /\ Head(statuses) = medium
              => known' = medium
    BY <1>5 DEF StatusEvent
  <2>2. statuses' = <<>> => Head(statuses) = medium
    BY <2>1, QueueFacts
  <2> QED
    BY <2>1, <2>2, QueueFacts
<1>6. CASE StatusChanges
  <2>1. /\ medium' = medium + 1
        /\ statuses' \in {Append(statuses, medium + 1), Append(Tail(statuses), medium + 1)}
        /\ Len(statuses) # StatusLength => statuses' = Append(statuses, medium + 1)
    BY <1>6 DEF StatusChanges
  <2>2. statuses = <<>> => Len(statuses) # StatusLength
    BY RuntimeAssumption DEF RuntimeAssumption
  <2>3. /\ statuses' \in Seq(Nat) /\ statuses' # <<>>
        /\ statuses'[Len(statuses')] = medium + 1
    <3>1. medium + 1 \in Nat /\ statuses \in Seq(Nat)
      OBVIOUS
    <3>2. CASE statuses' = Append(statuses, medium + 1)
      BY <3>1, <3>2, QueueFacts
    <3>3. CASE statuses' # Append(statuses, medium + 1)
      <4>1. statuses # <<>> /\ statuses' = Append(Tail(statuses), medium + 1)
        BY <2>1, <2>2, <3>3
      <4>2. Tail(statuses) \in Seq(Nat)
        BY <3>1, <4>1, QueueFacts
      <4> QED
        BY <3>1, <4>1, <4>2, QueueFacts
    <3> QED
      BY <3>2, <3>3
  <2> QED
    BY <2>1, <2>3
<1>7. CASE UNCHANGED <<foreground, pending, medium, statuses, known>>
  BY <1>7
<1> QED
  BY <1>1, <1>2, <1>3, <1>4, <1>5, <1>6, <1>7
     DEF RuntimeNext, MoveSelection, EventsDone, AppsRun, runtimeVars

\* Nothing runs, and the launcher is to be opened.
LEMMA RuntimeInitInv == RuntimeInit => RuntimeInv
<1> SUFFICES ASSUME RuntimeInit PROVE RuntimeInv
  OBVIOUS
<1>1. PathInv
  <2>1. <<>> \in Seq(Apps)
    OBVIOUS
  <2>2. foreground = NoApp /\ returns = <<>> /\ pending = "launcher" /\ launch = FALSE
    BY DEF RuntimeInit
  <2> QED
    BY <2>1, <2>2, Zenon DEF PathInv
<1>2. StatusInv
  BY DEF RuntimeInit, StatusInv, StatusKnown, Launchers, NoApp
<1> QED
  BY <1>1, <1>2 DEF RuntimeInv

\* The invariant is inductive.
LEMMA RuntimeStepInv == RuntimeInv /\ [RuntimeNext]_runtimeVars => RuntimeInv'
  BY PathStep, StatusStep DEF RuntimeInv

\* The app that follows the card knows its state as soon as no status is queued,
\* whatever the dispatcher or a full queue have dropped.
THEOREM FollowersKnowStatus == RuntimeSpec => []StatusKnown
<1>1. RuntimeInv => StatusKnown
  BY DEF RuntimeInv, StatusInv
<1> QED
  BY <1>1, RuntimeInitInv, RuntimeStepInv, PTL DEF RuntimeSpec
-----------------------------------------------------------------------------
\* A switch that is requested opens, on the stack, what its top offers.
LEMMA SwitchOpens ==
    ASSUME PathInv, pending = NoApp, NEW target,
           returns' = Append(returns, foreground), pending' = target,
           UNCHANGED foreground, target # NoApp,
           <<foreground, target>> \in OpensPairs
    PROVE  Stack!Open
<1>1. foreground # NoApp
  BY DEF PathInv, NoApp
<1>2. Screens = Append(returns, foreground) /\ Screens' = Append(Screens, target)
  BY <1>1 DEF Screens
<1>3. returns \in Seq(Apps) /\ foreground \in Apps
  BY Depths DEF PathInv
<1>4. Stack!Last(Screens) = foreground
  BY <1>2, <1>3 DEF Stack!Last
<1>5. /\ Stack!Last(Screens) = <<foreground, target>>[1]
      /\ Screens' = Append(Screens, <<foreground, target>>[2])
  BY <1>2, <1>4
<1> QED
  BY <1>5, Zenon DEF Stack!Open

\* Back on the stack.
LEMMA BackPops == ASSUME PathInv, GoBack PROVE Stack!Back
<1>1. pending = NoApp /\ UNCHANGED foreground /\ foreground # NoApp
  BY DEF GoBack, Reaches, PathInv, NoApp
<1>2. /\ returns' = Front(returns) /\ pending' = Last(returns) /\ returns # <<>>
      /\ returns \in Seq(Apps) /\ foreground \in Apps
  BY <1>1, BackPath, Depths DEF PathInv
<1>3. pending' # NoApp
  BY BackPath
<1>4. Screens = Append(returns, foreground)
      /\ Screens' = Append(Front(returns), Last(returns))
  BY <1>1, <1>2, <1>3 DEF Screens
<1>5. Append(Front(returns), Last(returns)) = returns
  BY <1>2 DEF Front, Last
<1>6. Stack!Front(Append(returns, foreground)) = returns
  BY <1>2 DEF Stack!Front
<1>7. Len(Screens) > 1
  BY <1>2, <1>4
<1>8. Screens' = Stack!Front(Screens)
  BY <1>4, <1>5, <1>6
<1> QED
  BY <1>7, <1>8, Zenon DEF Stack!Back

\* Every step is a step of the stack, or changes no screen.
LEMMA StackStep ==
    PathInv /\ [RuntimeNext]_runtimeVars => [Stack!Next]_Screens
<1> SUFFICES ASSUME PathInv, [RuntimeNext]_runtimeVars PROVE [Stack!Next]_Screens
  OBVIOUS
<1>1. CASE GoBack
  BY <1>1, BackPops DEF Stack!Next
<1>2. CASE ClickEntry \/ Confirm
  <2>1. PICK i \in DOMAIN Entries[foreground] :
            /\ Reaches({"launcher", "menu"})
            /\ RequestSwitch(Entries[foreground][i], FALSE) /\ UNCHANGED foreground
    BY <1>2 DEF ClickEntry, Confirm, Activate
  <2>2. /\ foreground \in {"launcher", "menu"} /\ pending = NoApp
        /\ <<foreground, Entries[foreground][i]>> \in OpensPairs
    BY <2>1 DEF Reaches, OpensPairs
  <2>3. Entries[foreground][i] # NoApp
    BY <2>1, <2>2, EntryFacts DEF FromLauncher, FromMenu, NoApp
  <2>4. returns' = Append(returns, foreground) /\ pending' = Entries[foreground][i]
    BY <2>1, <2>2, SwitchPath, EntryFacts DEF FromLauncher, FromMenu
  <2> QED
    BY <2>1, <2>2, <2>3, <2>4, SwitchOpens DEF Stack!Next
<1>3. CASE LaunchFromFile \/ LaunchFromBooks
  <2>1. /\ pending = NoApp /\ foreground \in Launchers /\ UNCHANGED foreground
        /\ RequestSwitch("reader", TRUE)
    BY <1>3 DEF LaunchFromFile, LaunchFromBooks, Reaches, Launchers
  <2>2. returns' = Append(returns, foreground) /\ pending' = "reader"
    BY <2>1, SwitchPath
  <2>3. <<foreground, "reader">> \in OpensPairs /\ "reader" # NoApp
    BY <2>1 DEF OpensPairs, NoApp
  <2> QED
    BY <2>1, <2>2, <2>3, SwitchOpens DEF Stack!Next
<1>4. CASE ApplySwitch
  <2>1. CASE foreground = NoApp
    <3>1. pending = "launcher" /\ returns = <<>>
      BY <2>1 DEF PathInv
    <3>2. foreground' = "launcher" /\ returns' = <<>> /\ pending' = NoApp
      BY <1>4, <3>1, AppliedPath DEF NoApp
    <3> QED
      BY <2>1, <3>2 DEF Screens, NoApp
  <2>2. CASE foreground # NoApp
    BY <1>4, <2>2, AppliedPath DEF Screens
  <2> QED
    BY <2>1, <2>2
<1>5. CASE UNCHANGED <<foreground, returns, pending>>
  BY <1>5 DEF Screens
<1> QED
  BY <1>1, <1>2, <1>3, <1>4, <1>5
     DEF RuntimeNext, MoveSelection, StatusEvent, StatusChanges, EventsDone, AppsRun,
         runtimeVars

\* The history, the pending switch and the foreground app implement the stack of
\* apps, with any history of at least two entries.
THEOREM RuntimeImplementsStack == RuntimeSpec => StackSpec
<1>1. RuntimeInit => Stack!Init
  BY DEF RuntimeInit, Stack!Init, Screens
<1>2. RuntimeInv => PathInv
  BY DEF RuntimeInv
<1> QED
  BY <1>1, <1>2, RuntimeInitInv, RuntimeStepInv, StackStep, PTL
     DEF RuntimeSpec, StackSpec

-----------------------------------------------------------------------------
(* Touches.  The queue may drop the press or the release of a contact, and *)
(* the router reads what is left in order.  The invariant follows every    *)
(* press that can still capture, or has captured, to the event that will   *)
(* release it.                                                             *)

TouchRecord == [gesture : Gestures, start : Places, end : Places, contact : Nat]

TouchShape ==
    /\ sampler \in [state : {"idle", "debounce", "pressed", "long"}, start : Places,
                    at : Places, contact : Nat]
    /\ touches \in Seq(TouchRecord) /\ openings \in Nat
    /\ router \in [view : TouchViews, captured : Places \cup {Nowhere}, contact : Nat,
                   opening : Nat]

\* From position k of the queue on there is the event that ends contact c.
Ending(q, k, c) ==
    \E j \in k .. Len(q) : q[j].contact = c /\ q[j].gesture \in {"click", "long_end"}

\* The end of contact c is still to come, unless one of its events was dropped.
Awaited(k, c) ==
    \/ c \in lost \/ Ending(touches, k, c)
    \/ sampler.contact = c /\ sampler.state \in {"pressed", "long"}

\* Contacts are queued in the order they were made.
InOrder ==
    /\ \A i \in 1 .. Len(touches) : touches[i].contact <= sampler.contact
    /\ \A i, j \in 1 .. Len(touches) : i <= j => touches[i].contact <= touches[j].contact

PressesEnd ==
    \A i \in 1 .. Len(touches) :
        touches[i].gesture = "press" => Awaited(i + 1, touches[i].contact)

CaptureHolds ==
    router.captured # Nowhere =>
        /\ router.opening = openings /\ router.contact <= sampler.contact
        /\ \A i \in 1 .. Len(touches) : router.contact <= touches[i].contact
        /\ Awaited(1, router.contact)

\* What the queue has before position k makes contact c the one captured, if any is
\* then: its press, or nothing of another contact.  Unless the press was dropped or
\* passed over.
Introduced(k, c) ==
    \/ c \in lost \cup swapped
    \/ \E j \in 1 .. k - 1 : touches[j].gesture = "press" /\ touches[j].contact = c
    \/ /\ \A j \in 1 .. k - 1 : touches[j].contact = c
       /\ router.captured # Nowhere => router.contact = c

PressesCome ==
    /\ \A i \in 1 .. Len(touches) :
          touches[i].gesture # "press" => Introduced(i, touches[i].contact)
    /\ sampler.state \in {"pressed", "long"} =>
          Introduced(Len(touches) + 1, sampler.contact)

TouchInv ==
    /\ TouchShape /\ InOrder /\ PressesEnd /\ PressesCome /\ CaptureHolds
    /\ ActsOnItsPress

\* The touches that wait are what the sampler made of contacts.
LEMMA QueueTyped ==
    ASSUME TouchShape
    PROVE  /\ Len(touches) \in Nat
           /\ \A i \in 1 .. Len(touches) :
                 touches[i] \in TouchRecord /\ touches[i].contact \in Nat
           /\ sampler.contact \in Nat /\ router.contact \in Nat
<1>1. /\ \A i \in 1 .. Len(touches) : touches[i] \in TouchRecord
      /\ Len(touches) \in Nat /\ sampler.contact \in Nat /\ router.contact \in Nat
  BY DEF TouchShape
<1>2. \A r \in TouchRecord : r.contact \in Nat
  BY DEF TouchRecord
<1> QED
  BY <1>1, <1>2

\* An end that is not dropped with the oldest d entries of q is still in what is left, p.
LEMMA EndingMoves ==
    ASSUME NEW q, NEW p, NEW d \in {0, 1}, Len(q) \in Nat, Len(p) \in Nat,
           Len(q) - d <= Len(p), \A i \in 1 .. Len(q) - d : p[i] = q[i + d],
           NEW k \in Nat, NEW c, NEW j \in k .. Len(q), j - d >= 1,
           q[j].contact = c, q[j].gesture \in {"click", "long_end"}
    PROVE  Ending(p, IF k - d >= 1 THEN k - d ELSE 1, c)
<1>1. PICK m \in Nat : m = j - d
  OBVIOUS
<1>2. m \in 1 .. Len(q) - d /\ m + d = j /\ k - d <= m /\ m \in 1 .. Len(p)
  BY <1>1
<1>3. p[m] = q[j]
  BY <1>2
<1>4. CASE k - d >= 1
  <2>1. m \in k - d .. Len(p)
    BY <1>2, <1>4
  <2> QED
    BY <1>3, <1>4, <2>1 DEF Ending
<1>5. CASE ~ (k - d >= 1)
  BY <1>2, <1>3, <1>5 DEF Ending
<1> QED
  BY <1>4, <1>5

\* A published event comes last; at most the oldest one makes room for it.
LEMMA TouchPublished ==
    ASSUME TouchShape, NEW gesture \in Gestures, NEW place \in Places,
           PublishTouch(gesture, place)
    PROVE  /\ touches' \in Seq(TouchRecord) /\ lost \subseteq lost' /\ Len(touches') \in Nat \ {0}
           /\ touches'[Len(touches')] = [gesture |-> gesture, start |-> sampler.start,
                                         end |-> place, contact |-> sampler.contact]
           /\ \E d \in {0, 1} :
                 /\ Len(touches') = Len(touches) + 1 - d
                 /\ \A i \in 1 .. Len(touches) - d : touches'[i] = touches[i + d]
                 /\ d = 1 => Len(touches) >= 1 /\ touches[1].contact \in lost'
<1>1. PICK event \in TouchRecord :
          event = [gesture |-> gesture, start |-> sampler.start, end |-> place,
                   contact |-> sampler.contact]
  BY DEF TouchShape, TouchRecord
<1>2. CASE Len(touches) = TouchQueueLength
  <2>1. touches' = Append(Tail(touches), event) /\ lost' = lost \cup {Head(touches).contact}
    BY <1>1, <1>2 DEF PublishTouch
  <2>2. touches # <<>> /\ Len(touches) \in Nat \ {0}
    BY <1>2, TouchAssumption DEF TouchShape
  <2>3. /\ Tail(touches) \in Seq(TouchRecord) /\ Len(Tail(touches)) = Len(touches) - 1
        /\ \A i \in 1 .. Len(touches) - 1 : Tail(touches)[i] = touches[i + 1]
    BY <2>2 DEF TouchShape
  <2>4. Head(touches) = touches[1]
    BY <2>2 DEF TouchShape
  <2>5. /\ touches' \in Seq(TouchRecord) /\ Len(touches') = Len(touches)
        /\ touches'[Len(touches')] = event
        /\ \A i \in 1 .. Len(touches) - 1 : touches'[i] = touches[i + 1]
    BY <2>1, <2>2, <2>3, <1>1
  <2>6. touches[1].contact \in lost' /\ lost \subseteq lost'
    BY <2>1, <2>4
  <2> QED
    BY <1>1, <2>2, <2>5, <2>6
<1>3. CASE Len(touches) # TouchQueueLength
  <2>1. touches' = Append(touches, event) /\ lost' = lost
    BY <1>1, <1>3 DEF PublishTouch
  <2>2. /\ touches' \in Seq(TouchRecord) /\ Len(touches') = Len(touches) + 1
        /\ touches'[Len(touches')] = event /\ Len(touches) \in Nat
        /\ \A i \in 1 .. Len(touches) : touches'[i] = touches[i + 0]
    BY <2>1, <1>1 DEF TouchShape
  <2> QED
    BY <1>1, <2>1, <2>2
<1> QED
  BY <1>2, <1>3

\* What is awaited stays awaited when an event of the contact at the finger is
\* published: what the queue drops is lost.
LEMMA PublishKeeps ==
    ASSUME TouchInv, NEW gesture \in Gestures, NEW place \in Places,
           PublishTouch(gesture, place), UNCHANGED <<router, swapped, openings, acted>>,
           sampler' \in [state : {"idle", "debounce", "pressed", "long"}, start : Places,
                         at : Places, contact : Nat],
           sampler'.contact = sampler.contact,
           sampler'.state \in {"pressed", "long"} \/ gesture \in {"click", "long_end"},
           sampler.state \in {"pressed", "long"} \/ gesture = "press"
    PROVE  TouchInv'
<1> USE DEF TouchInv
<1>1. PICK d \in {0, 1} :
          /\ Len(touches') = Len(touches) + 1 - d
          /\ \A i \in 1 .. Len(touches) - d : touches'[i] = touches[i + d]
          /\ d = 1 => Len(touches) >= 1 /\ touches[1].contact \in lost'
  BY TouchPublished
<1>2. /\ touches' \in Seq(TouchRecord) /\ lost \subseteq lost' /\ Len(touches') \in Nat \ {0}
      /\ touches'[Len(touches')] = [gesture |-> gesture, start |-> sampler.start,
                                    end |-> place, contact |-> sampler.contact]
  BY TouchPublished
<1>3. /\ Len(touches) \in Nat
      /\ \A i \in 1 .. Len(touches) : touches[i].contact \in Nat
      /\ sampler.contact \in Nat /\ router.contact \in Nat
  BY QueueTyped
<1>4. TouchShape'
  BY <1>2 DEF TouchShape
<1>5. InOrder'
  <2>1. \A i \in 1 .. Len(touches') :
            \/ i = Len(touches') /\ touches'[i].contact = sampler.contact
            \/ /\ i # Len(touches') /\ i + d \in 1 .. Len(touches)
               /\ touches'[i] = touches[i + d]
    <3>1. PICK m, n \in Nat : m = Len(touches) /\ n = Len(touches')
      BY <1>2, <1>3
    <3>2. n = m + 1 - d /\ touches'[n].contact = sampler.contact
      BY <1>1, <1>2, <3>1
    <3>3. ASSUME NEW i \in 1 .. n, i # n
          PROVE  i + d \in 1 .. m /\ touches'[i] = touches[i + d]
      <4>1. i + d \in 1 .. m /\ i \in 1 .. m - d
        BY <3>1, <3>2, <3>3
      <4> QED
        BY <1>1, <3>1, <4>1
    <3> QED
      BY <3>1, <3>2, <3>3
  <2>2. ASSUME NEW i \in 1 .. Len(touches')
        PROVE  touches'[i].contact <= sampler.contact
    <3>1. CASE touches'[i].contact = sampler.contact
      BY <1>3, <3>1
    <3>2. CASE touches'[i].contact # sampler.contact
      <4>1. i + d \in 1 .. Len(touches) /\ touches'[i] = touches[i + d]
        BY <2>1, <3>2
      <4> QED
        BY <4>1 DEF InOrder
    <3> QED
      BY <3>1, <3>2
  <2>3. ASSUME NEW i \in 1 .. Len(touches'), NEW j \in 1 .. Len(touches'), i <= j
        PROVE  touches'[i].contact <= touches'[j].contact
    <3>1. CASE j = Len(touches')
      BY <1>2, <2>2, <3>1
    <3>2. CASE j # Len(touches')
      <4>1. i # Len(touches') /\ i + d <= j + d
        BY <1>2, <2>3, <3>2
      <4> QED
        BY <2>1, <3>2, <4>1 DEF InOrder
    <3> QED
      BY <3>1, <3>2
  <2> QED
    BY <2>2, <2>3 DEF InOrder
<1>6. ASSUME NEW k \in 1 .. Len(touches) + 1, NEW c \in Nat, Awaited(k, c),
             k - d >= 1 \/ c \in lost' \/ k = 1
      PROVE  Awaited(IF k - d >= 1 THEN k - d ELSE 1, c)'
  <2>1. CASE Ending(touches, k, c)
    <3>1. PICK j \in k .. Len(touches) :
              touches[j].contact = c /\ touches[j].gesture \in {"click", "long_end"}
      BY <2>1 DEF Ending
    <3>2. CASE j - d >= 1
      <4>1. /\ Len(touches) \in Nat /\ Len(touches') \in Nat /\ k \in Nat
            /\ Len(touches) - d <= Len(touches')
        BY <1>1, <1>2, <1>3
      <4>2. Ending(touches', IF k - d >= 1 THEN k - d ELSE 1, c)
        BY <1>1, <3>1, <3>2, <4>1, EndingMoves
      <4> QED
        BY <4>2 DEF Awaited
    <3>3. CASE ~ (j - d >= 1)
      <4>1. d = 1 /\ j = 1
        BY <1>3, <3>1, <3>3
      <4> QED
        BY <1>1, <3>1, <4>1 DEF Awaited
    <3> QED
      BY <3>2, <3>3
  <2>2. CASE sampler.contact = c /\ sampler.state \in {"pressed", "long"}
    <3>1. CASE sampler'.state \in {"pressed", "long"}
      BY <2>2, <3>1 DEF Awaited
    <3>2. CASE gesture \in {"click", "long_end"}
      <4>1. PICK n \in Nat : n = Len(touches') /\ n >= 1
        BY <1>2
      <4>2. k - d <= n
        BY <1>1, <1>3, <4>1
      <4>3. touches'[n].contact = c /\ touches'[n].gesture \in {"click", "long_end"}
        BY <1>2, <2>2, <3>2, <4>1
      <4>4. n \in (IF k - d >= 1 THEN k - d ELSE 1) .. Len(touches')
        BY <4>1, <4>2
      <4> QED
        BY <4>3, <4>4 DEF Awaited, Ending
    <3> QED
      BY <3>1, <3>2
  <2>3. CASE c \in lost
    BY <1>2, <2>3 DEF Awaited
  <2> QED
    BY <1>6, <2>1, <2>2, <2>3 DEF Awaited
<1>7. PressesEnd'
  <2> SUFFICES ASSUME NEW i \in 1 .. Len(touches'), touches'[i].gesture = "press"
               PROVE  Awaited(i + 1, touches[i].contact)'
    BY DEF PressesEnd
  <2>1. CASE i = Len(touches')
    BY <1>2, <2>1 DEF Awaited
  <2>2. CASE i # Len(touches')
    <3>1. i + d \in 1 .. Len(touches) /\ touches'[i] = touches[i + d]
      BY <1>1, <1>2, <1>3, <2>2
    <3>2. PICK c \in Nat : c = touches[i + d].contact /\ Awaited(i + d + 1, c)
      BY <1>3, <3>1 DEF PressesEnd
    <3>3. i + d + 1 \in 1 .. Len(touches) + 1 /\ (i + d + 1) - d = i + 1 /\ i + 1 >= 1
      BY <1>3, <3>1
    <3>4. Awaited(i + 1, c)'
      BY <1>6, <3>2, <3>3
    <3> QED
      BY <3>1, <3>2, <3>4
  <2> QED
    BY <2>1, <2>2
<1>8. CaptureHolds'
  <2> SUFFICES ASSUME router.captured # Nowhere
               PROVE  CaptureHolds'
    BY DEF CaptureHolds
  <2>1. PICK c \in Nat : c = router.contact /\ Awaited(1, c)
    BY <1>3 DEF CaptureHolds
  <2>2. 1 \in 1 .. Len(touches) + 1 /\ (IF 1 - d >= 1 THEN 1 - d ELSE 1) = 1
    BY <1>3
  <2>3. Awaited(1, c)'
    BY <1>6, <2>1, <2>2
  <2>4. ASSUME NEW i \in 1 .. Len(touches')
        PROVE  router.contact <= touches'[i].contact
    <3>1. CASE i = Len(touches')
      BY <1>2, <3>1 DEF CaptureHolds
    <3>2. CASE i # Len(touches')
      <4>1. i + d \in 1 .. Len(touches) /\ touches'[i] = touches[i + d]
        BY <1>1, <1>2, <1>3, <3>2
      <4> QED
        BY <4>1 DEF CaptureHolds
    <3> QED
      BY <3>1, <3>2
  <2> QED
    BY <2>1, <2>3, <2>4 DEF CaptureHolds
<1>9. ActsOnItsPress'
  BY <1>2 DEF ActsOnItsPress
<1>10. ASSUME NEW k \in 1 .. Len(touches) + 1, NEW c \in Nat, Introduced(k, c),
              NEW p \in Nat \ {0}, k = p + d
       PROVE  Introduced(p, c)'
  <2>1. \A j \in 1 .. p - 1 : /\ j + d \in 1 .. k - 1
                                    /\ touches'[j] = touches[j + d]
    <3> SUFFICES ASSUME NEW j \in 1 .. p - 1
                 PROVE  j + d \in 1 .. k - 1 /\ touches'[j] = touches[j + d]
      OBVIOUS
    <3>1. j + d \in 1 .. k - 1 /\ j \in 1 .. Len(touches) - d
      BY <1>3, <1>10
    <3> QED
      BY <1>1, <3>1
  <2>2. CASE c \in lost \cup swapped
    BY <1>2, <2>2 DEF Introduced
  <2>3. CASE /\ \A j \in 1 .. k - 1 : touches[j].contact = c
             /\ router.captured # Nowhere => router.contact = c
    BY <2>1, <2>3 DEF Introduced
  <2>4. ASSUME NEW j \in 1 .. k - 1, touches[j].gesture = "press", touches[j].contact = c
        PROVE  Introduced(p, c)'
    <3>1. CASE j - d >= 1
      <4>1. PICK m \in Nat : m = j - d
        BY <3>1
      <4>2. m \in 1 .. p - 1 /\ m + d = j
        BY <1>3, <1>10, <3>1, <4>1
      <4>3. touches'[m] = touches[j]
        BY <2>1, <4>2
      <4> QED
        BY <2>4, <4>2, <4>3 DEF Introduced
    <3>2. CASE ~ (j - d >= 1)
      <4>1. d = 1 /\ j = 1
        BY <1>3, <3>2
      <4> QED
        BY <1>1, <2>4, <4>1 DEF Introduced
    <3> QED
      BY <3>1, <3>2
  <2> QED
    BY <1>10, <2>2, <2>3, <2>4 DEF Introduced
<1>11. sampler.state \in {"pressed", "long"} => Introduced(Len(touches), sampler.contact)'
  <2>1. PICK n \in Nat \ {0} : n = Len(touches')
    BY <1>2
  <2>2. PICK k \in 1 .. Len(touches) + 1 : k = Len(touches) + 1 /\ k = n + d
    BY <1>1, <1>3, <2>1
  <2>3. PICK c \in Nat : c = sampler.contact
    BY <1>3
  <2>4. sampler.state \in {"pressed", "long"} => Introduced(k, c)
    BY <2>2, <2>3 DEF PressesCome
  <2>5. sampler.state \in {"pressed", "long"} => Introduced(n, c)'
    BY <1>10, <2>2, <2>4
  <2>6. sampler'.contact = c
    BY <2>3
  <2> QED
    BY <2>1, <2>5, <2>6 DEF Introduced
<1>12. PressesCome'
  <2>1. ASSUME NEW i \in 1 .. Len(touches'), touches'[i].gesture # "press"
        PROVE  Introduced(i, touches[i].contact)'
    <3>1. CASE i = Len(touches')
      <4>1. touches'[i].gesture = gesture /\ touches'[i].contact = sampler.contact
        BY <1>2, <3>1
      <4>2. sampler.state \in {"pressed", "long"}
        BY <2>1, <4>1
      <4>3. Introduced(Len(touches), sampler.contact)'
        BY <1>11, <4>2
      <4>4. PICK c : c = sampler'.contact /\ c = touches'[i].contact
        BY <4>1
      <4>5. Introduced(i, c)'
        BY <3>1, <4>3, <4>4 DEF Introduced
      <4> QED
        BY <4>4, <4>5
    <3>2. CASE i # Len(touches')
      <4>1. PICK k \in 1 .. Len(touches) : k = i + d /\ touches'[i] = touches[k]
        BY <1>1, <1>2, <1>3, <3>2
      <4>2. PICK c \in Nat : c = touches[k].contact
        BY <1>3
      <4>3. Introduced(k, c)
        BY <2>1, <4>1, <4>2 DEF PressesCome
      <4>4. k \in 1 .. Len(touches) + 1 /\ i \in Nat \ {0}
        BY <1>2, <1>3
      <4>5. Introduced(i, c)'
        BY <1>10, <4>1, <4>3, <4>4
      <4> QED
        BY <4>1, <4>2, <4>5
    <3> QED
      BY <3>1, <3>2
  <2>2. PICK n \in Nat \ {0} : n = Len(touches')
    BY <1>2
  <2>3. Introduced(n + 1, sampler.contact)'
    <3>1. n \in 1 .. (n + 1) - 1 /\ touches'[n].contact = sampler.contact
          /\ touches'[n].gesture = gesture
      BY <1>2, <2>2
    <3>2. CASE gesture = "press"
      BY <3>1, <3>2 DEF Introduced
    <3>3. CASE sampler.state \in {"pressed", "long"}
      <4>1. Introduced(n, sampler.contact)'
        BY <1>11, <2>2, <3>3 DEF Introduced
      <4>2. \A j \in 1 .. (n + 1) - 1 : j \in 1 .. n - 1 \/ j = n
        OBVIOUS
      <4>3. \A j \in 1 .. n - 1 : j \in 1 .. (n + 1) - 1
        OBVIOUS
      <4> QED
        BY <3>1, <4>1, <4>2, <4>3 DEF Introduced
    <3> QED
      BY <3>2, <3>3
  <2> QED
    BY <2>1, <2>2, <2>3 DEF PressesCome
<1> QED
  BY <1>4, <1>5, <1>7, <1>8, <1>9, <1>12

\* A step that keeps the queue, and the contact while it presses.
LEMMA QueueKept ==
    ASSUME TouchInv, UNCHANGED <<touches, lost, swapped, acted>>, TouchShape',
           sampler'.contact >= sampler.contact,
           sampler.state \in {"pressed", "long"} =>
               sampler'.contact = sampler.contact /\ sampler'.state \in {"pressed", "long"},
           sampler'.state \in {"pressed", "long"} => sampler.state \in {"pressed", "long"},
           router'.captured # Nowhere =>
               /\ router.captured # Nowhere /\ router'.contact = router.contact
               /\ router'.opening = openings'
    PROVE  TouchInv'
<1> USE DEF TouchInv
<1>1. /\ Len(touches) \in Nat /\ sampler'.contact \in Nat
      /\ \A i \in 1 .. Len(touches) : touches[i].contact \in Nat
      /\ sampler.contact \in Nat /\ router.contact \in Nat
  BY QueueTyped DEF TouchShape
<1>2. \A k, c : Awaited(k, c) => Awaited(k, c)'
  BY DEF Awaited, Ending
<1>3. InOrder'
  BY <1>1 DEF InOrder
<1>4. PressesEnd'
  BY <1>2 DEF PressesEnd
<1>5. CaptureHolds'
  BY <1>1, <1>2 DEF CaptureHolds
<1>6. ActsOnItsPress'
  BY DEF ActsOnItsPress
<1>7. \A k, c : Introduced(k, c) => Introduced(k, c)'
  BY DEF Introduced
<1>8. PressesCome'
  BY <1>7 DEF PressesCome
<1> QED
  BY <1>3, <1>4, <1>5, <1>6, <1>8

\* A sample: the press or the release of the contact, and the queue may drop it.
LEMMA SampleKeeps ==
    ASSUME TouchInv, SampleUp \/ \E place \in Places : SampleDown(place) PROVE TouchInv'
<1> USE DEF TouchInv, TouchShape
<1>1. CASE SampleUp
  <2>1. /\ sampler' \in [state : {"idle", "debounce", "pressed", "long"}, start : Places,
                         at : Places, contact : Nat]
        /\ sampler'.contact = sampler.contact /\ sampler.at \in Places
    BY <1>1 DEF SampleUp, Places
  <2>2. CASE sampler.state = "pressed"
    BY <1>1, <2>1, <2>2, PublishKeeps DEF SampleUp, Gestures
  <2>3. CASE sampler.state = "long"
    BY <1>1, <2>1, <2>3, PublishKeeps DEF SampleUp, Gestures
  <2>4. CASE sampler.state = "debounce"
    BY <1>1, <2>1, <2>4, QueueKept DEF SampleUp, CaptureHolds
  <2> QED
    BY <1>1, <2>2, <2>3, <2>4 DEF SampleUp
<1>2. ASSUME NEW place \in Places, SampleDown(place) PROVE TouchInv'
  <2>0. UNCHANGED <<router, drawn, swapped, openings, acted>>
    BY <1>2 DEF SampleDown
  <2>1. CASE /\ UNCHANGED <<touches, lost>>
             /\ \/ sampler.state = "idle" /\ sampler' =
                      [state |-> "debounce", start |-> place, at |-> place,
                       contact |-> sampler.contact + 1]
                \/ sampler.state # "idle" /\ sampler' = [sampler EXCEPT !.at = place]
    BY <2>0, <2>1, QueueKept DEF CaptureHolds
  <2>2. ASSUME NEW gesture \in Gestures, NEW state \in {"pressed", "long"},
               PublishTouch(gesture, place),
               sampler' = [sampler EXCEPT !.state = state, !.at = place],
               sampler.state \in {"pressed", "long"} \/ gesture = "press"
        PROVE  TouchInv'
    BY <2>0, <2>2, PublishKeeps
  <2>3. CASE sampler.state = "debounce" /\ PublishTouch("press", place)
             /\ sampler' = [sampler EXCEPT !.state = "pressed", !.at = place]
    BY <2>2, <2>3 DEF Gestures
  <2>4. CASE sampler.state = "pressed" /\ PublishTouch("long_start", place)
             /\ sampler' = [sampler EXCEPT !.state = "long", !.at = place]
    BY <2>2, <2>4 DEF Gestures
  <2>5. CASE sampler.state = "long" /\ PublishTouch("long_repeat", place)
             /\ sampler' = [sampler EXCEPT !.at = place]
    <3>1. sampler' = [sampler EXCEPT !.state = "long", !.at = place]
      BY <2>5
    <3> QED
      BY <2>2, <2>5, <3>1 DEF Gestures
  <2> QED
    BY <1>2, <2>1, <2>3, <2>4, <2>5 DEF SampleDown
<1> QED
  BY <1>1, <1>2

\* A view is opened, submitted or presented between two touches.
LEMMA ViewKeeps == ASSUME TouchInv, OpenView \/ SubmitView \/ PresentView PROVE TouchInv'
<1>1. CASE OpenView
  <2>1. PICK view \in TouchViews : router' = Opened(view)
    BY <1>1 DEF OpenView
  <2>2. UNCHANGED <<sampler, touches, lost, swapped, acted>> /\ openings' = openings + 1
    BY <1>1 DEF OpenView
  <2>3. router' \in [view : TouchViews, captured : Places \cup {Nowhere}, contact : Nat,
                     opening : Nat] /\ router'.captured = Nowhere
    BY <2>1 DEF TouchInv, TouchShape, Opened
  <2>4. TouchShape'
    BY <2>2, <2>3 DEF TouchInv, TouchShape
  <2> QED
    BY <2>2, <2>3, <2>4, QueueKept DEF TouchInv, TouchShape
<1>2. CASE SubmitView \/ PresentView
  <2>1. UNCHANGED <<sampler, touches, lost, swapped, acted, router, openings>>
    BY <1>2 DEF SubmitView, PresentView
  <2> QED
    BY <2>1, QueueKept DEF TouchInv, TouchShape, CaptureHolds
<1> QED
  BY <1>1, <1>2

\* The event taken is the oldest.
LEMMA TakeKeeps == ASSUME TouchInv, TakeTouch PROVE TouchInv'
<1> USE DEF TouchInv
<1>1. PICK event \in TouchRecord : event = touches[1] /\ event = Head(touches)
  BY DEF TakeTouch, TouchShape
<1>2. /\ touches' \in Seq(TouchRecord) /\ Len(touches') = Len(touches) - 1
      /\ Len(touches) \in Nat \ {0} /\ UNCHANGED <<sampler, lost, drawn, openings>>
      /\ \A i \in 1 .. Len(touches) - 1 : touches'[i] = touches[i + 1]
  BY DEF TakeTouch, TouchShape
<1>3. /\ \A i \in 1 .. Len(touches) : touches[i].contact \in Nat
      /\ sampler.contact \in Nat /\ router.contact \in Nat /\ event.contact \in Nat
  BY <1>1, <1>2, QueueTyped
<1>4. ASSUME NEW k \in Nat, NEW c \in Nat, Awaited(k, c), k >= 1,
             k >= 2 \/ event.gesture \notin {"click", "long_end"} \/ event.contact # c
      PROVE  Awaited(IF k >= 2 THEN k - 1 ELSE 1, c)'
  <2>1. CASE Ending(touches, k, c)
    <3>1. PICK j \in k .. Len(touches) :
              touches[j].contact = c /\ touches[j].gesture \in {"click", "long_end"}
      BY <2>1 DEF Ending
    <3>2. j >= 2
      BY <1>1, <1>4, <3>1
    <3>3. j - 1 >= 1 /\ Len(touches) \in Nat /\ Len(touches') \in Nat
          /\ Len(touches) - 1 <= Len(touches')
          /\ \A i \in 1 .. Len(touches) - 1 : touches'[i] = touches[i + 1]
      BY <1>2, <1>3, <3>2
    <3>4. Ending(touches', IF k - 1 >= 1 THEN k - 1 ELSE 1, c)
      BY <3>1, <3>3, EndingMoves
    <3>5. (IF k - 1 >= 1 THEN k - 1 ELSE 1) = (IF k >= 2 THEN k - 1 ELSE 1)
      OBVIOUS
    <3> QED
      BY <3>4, <3>5 DEF Awaited
  <2>2. CASE c \in lost \/ (sampler.contact = c /\ sampler.state \in {"pressed", "long"})
    BY <1>2, <2>2 DEF Awaited
  <2> QED
    BY <1>4, <2>1, <2>2 DEF Awaited
<1>5. InOrder'
  <2>1. ASSUME NEW i \in 1 .. Len(touches')
        PROVE  i + 1 \in 1 .. Len(touches) /\ touches'[i] = touches[i + 1]
    BY <1>2
  <2>2. \A i \in 1 .. Len(touches') : touches'[i].contact <= sampler.contact
    BY <2>1 DEF InOrder
  <2>3. ASSUME NEW i \in 1 .. Len(touches'), NEW j \in 1 .. Len(touches'), i <= j
        PROVE  touches'[i].contact <= touches'[j].contact
    BY <2>1, <2>3 DEF InOrder
  <2> QED
    BY <1>2, <2>2, <2>3 DEF InOrder
<1>6. PressesEnd'
  <2> SUFFICES ASSUME NEW i \in 1 .. Len(touches'), touches'[i].gesture = "press"
               PROVE  Awaited(i + 1, touches[i].contact)'
    BY DEF PressesEnd
  <2>1. i + 1 \in 1 .. Len(touches) /\ touches'[i] = touches[i + 1] /\ i + 2 >= 2
        /\ i + 2 \in Nat /\ (i + 1) + 1 = i + 2 /\ (i + 2) - 1 = i + 1 /\ i + 2 >= 1
    BY <1>2
  <2>2. PICK c \in Nat : c = touches[i + 1].contact /\ Awaited(i + 2, c)
    BY <1>3, <2>1 DEF PressesEnd
  <2>3. Awaited(i + 1, c)'
    BY <1>4, <2>1, <2>2
  <2> QED
    BY <2>1, <2>2, <2>3
<1>7. ASSUME UNCHANGED <<router, acted>>, swapped \subseteq swapped',
             event.gesture \notin {"click", "long_end"} \/ router.captured = Nowhere
      PROVE  CaptureHolds' /\ ActsOnItsPress'
  <2>1. ActsOnItsPress'
    BY <1>2, <1>7 DEF ActsOnItsPress
  <2>2. CASE router.captured = Nowhere
    BY <1>7, <2>1, <2>2 DEF CaptureHolds
  <2>3. CASE router.captured # Nowhere
    <3>1. PICK c \in Nat : c = router.contact /\ Awaited(1, c)
      BY <1>3, <2>3 DEF CaptureHolds
    <3>2. Awaited(1, c)'
      BY <1>4, <1>7, <2>3, <3>1
    <3>3. ASSUME NEW i \in 1 .. Len(touches')
          PROVE  router.contact <= touches'[i].contact
      <4>1. i + 1 \in 1 .. Len(touches) /\ touches'[i] = touches[i + 1]
        BY <1>2
      <4> QED
        BY <2>3, <4>1 DEF CaptureHolds
    <3>4. /\ router'.captured = router.captured /\ router'.opening = openings'
          /\ router'.contact = c /\ router.contact <= sampler'.contact
      BY <1>2, <1>7, <2>3, <3>1 DEF CaptureHolds
    <3> QED
      BY <2>1, <3>1, <3>2, <3>3, <3>4 DEF CaptureHolds
  <2> QED
    BY <2>1, <2>2, <2>3
<1>8. ASSUME event.gesture = "press", Press(event)
      PROVE  TouchShape' /\ CaptureHolds' /\ ActsOnItsPress'
  <2>1. CASE UNCHANGED router
    BY <1>2, <1>7, <1>8, <2>1 DEF Press, TouchShape
  <2>2. CASE router' = [router EXCEPT
                 !.captured = IF event.start \in drawn.controls THEN event.start ELSE Nowhere,
                 !.contact = event.contact, !.opening = openings]
    <3>1. event.start \in Places /\ UNCHANGED acted
      BY <1>1, <1>8 DEF TouchRecord, Press
    <3>2. TouchShape' /\ router'.contact = event.contact /\ router'.opening = openings
      BY <1>2, <1>3, <2>2, <3>1 DEF TouchShape
    <3>3. Awaited(2, event.contact)
      BY <1>1, <1>2, <1>8 DEF PressesEnd
    <3>4. PICK c \in Nat : c = event.contact /\ Awaited(2, c)
      BY <1>3, <3>3
    <3>5. PICK k \in Nat : k = 2 /\ (IF k >= 2 THEN k - 1 ELSE 1) = 1
      OBVIOUS
    <3>6. Awaited(1, c)'
      BY <1>4, <3>4, <3>5
    <3>7. \A i \in 1 .. Len(touches') : event.contact <= touches'[i].contact
      BY <1>1, <1>2 DEF InOrder
    <3>8. router'.opening = openings' /\ router'.contact = c /\ c <= sampler'.contact
      BY <1>1, <1>2, <3>2, <3>4 DEF InOrder
    <3>9. CaptureHolds'
      BY <3>4, <3>6, <3>7, <3>8 DEF CaptureHolds
    <3>10. swapped \subseteq swapped' /\ lost' = lost
      BY <1>2, <1>8 DEF Press
    <3>11. ActsOnItsPress'
      BY <3>1, <3>10 DEF ActsOnItsPress
    <3> QED
      BY <3>2, <3>9, <3>11
  <2> QED
    BY <1>8, <2>1, <2>2 DEF Press
<1>9. ASSUME router.captured # Nowhere, event.gesture # "press",
             ReleaseReader(event) \/ ReleaseOther(event), UNCHANGED swapped
      PROVE  TouchShape' /\ CaptureHolds' /\ ActsOnItsPress'
  <2>1. \/ router' = [router EXCEPT !.captured = Nowhere]
        \/ UNCHANGED router /\ event.gesture \notin {"click", "long_end"}
    BY <1>9 DEF ReleaseReader, ReleaseOther
  <2>2. TouchShape'
    BY <1>2, <2>1 DEF TouchShape
  <2>3. CaptureHolds'
    <3>1. CASE router' = [router EXCEPT !.captured = Nowhere]
      BY <3>1 DEF CaptureHolds, TouchShape
    <3>2. CASE UNCHANGED router /\ event.gesture \notin {"click", "long_end"}
      <4>1. Awaited(1, router.contact) /\ Awaited(1, router.contact)'
        BY <1>3, <1>4, <1>9, <3>2 DEF CaptureHolds
      <4> QED
        BY <1>2, <1>3, <3>2, <4>1 DEF CaptureHolds
    <3> QED
      BY <2>1, <3>1, <3>2
  <2>4. UNCHANGED acted \/ (event.gesture = "click" /\ Acts(event))
    BY <1>9 DEF ReleaseReader, ReleaseOther
  <2>5. ASSUME event.gesture = "click", Acts(event), UNCHANGED swapped
        PROVE  ActsOnItsPress'
    <3>1. acted' = [pressed |-> router.contact, released |-> event.contact,
                    opened |-> router.opening, ended |-> openings]
      BY <2>5 DEF Acts
    <3>2. router.contact <= event.contact /\ Awaited(1, router.contact)
      BY <1>1, <1>2, <1>9 DEF CaptureHolds
    <3>3. Ending(touches, 1, router.contact) => router.contact = event.contact
      BY <1>1, <1>2, <1>3, <3>2 DEF Ending, InOrder
    <3>4. router.contact = sampler.contact => router.contact = event.contact
      BY <1>1, <1>2, <1>3, <3>2 DEF InOrder
    <3>5. router.contact = event.contact \/ router.contact \in lost
      BY <3>2, <3>3, <3>4 DEF Awaited
    <3>6. acted'.opened = acted'.ended /\ acted'.pressed = router.contact
          /\ acted'.released = event.contact
      BY <1>9, <3>1 DEF CaptureHolds
    <3>7. lost' = lost
      BY <1>2
    <3>8. router.contact = event.contact \/ event.contact \in lost \cup swapped
      <4>1. Introduced(1, event.contact)
        BY <1>1, <1>2, <1>9 DEF PressesCome
      <4>2. \A j \in 1 .. 1 - 1 : FALSE
        OBVIOUS
      <4> QED
        BY <1>9, <4>1, <4>2 DEF Introduced
    <3> QED
      BY <2>5, <3>5, <3>6, <3>7, <3>8 DEF ActsOnItsPress
  <2>6. ActsOnItsPress'
    BY <1>2, <1>9, <2>4, <2>5 DEF ActsOnItsPress
  <2> QED
    BY <2>2, <2>3, <2>6
<1>10. TouchShape' /\ CaptureHolds' /\ ActsOnItsPress'
  <2>1. CASE UNCHANGED <<router, swapped, acted>> /\ router.captured = Nowhere
    BY <1>2, <1>7, <2>1 DEF TouchShape
  <2> QED
    BY <1>1, <1>8, <1>9, <2>1 DEF TakeTouch
<1>11. /\ swapped \subseteq swapped'
       /\ event.gesture = "press" =>
             \/ router'.captured = Nowhere
             \/ router'.contact = event.contact
             \/ event.contact \in swapped'
       /\ event.gesture # "press" /\ router'.captured # Nowhere =>
             router.captured # Nowhere /\ router'.contact = router.contact
  <2>1. CASE UNCHANGED <<router, swapped, acted>> /\ router.captured = Nowhere
    BY <2>1
  <2>2. CASE event.gesture = "press" /\ Press(event)
    BY <2>2 DEF Press, TouchShape
  <2>3. CASE event.gesture # "press" /\ UNCHANGED swapped /\ router.captured # Nowhere
             /\ (ReleaseReader(event) \/ ReleaseOther(event))
    BY <2>3 DEF ReleaseReader, ReleaseOther, TouchShape
  <2> QED
    BY <1>1, <2>1, <2>2, <2>3 DEF TakeTouch
<1>12. ASSUME NEW k \in 2 .. Len(touches) + 1, NEW c \in Nat, Introduced(k, c),
              \A j \in 1 .. k - 1 : touches[j].contact <= c
       PROVE  Introduced(k - 1, c)'
  <2>1. \A j \in 1 .. (k - 1) - 1 : /\ j + 1 \in 1 .. k - 1 /\ j \in 1 .. Len(touches)
                                    /\ j + 1 \in 1 .. Len(touches)
                                    /\ touches'[j] = touches[j + 1]
    BY <1>2
  <2>2. 1 \in 1 .. k - 1 /\ 1 \in 1 .. Len(touches)
    BY <1>2
  <2>3. CASE c \in lost \cup swapped
    BY <1>2, <1>11, <2>3 DEF Introduced
  <2>4. ASSUME event.contact = c, \A j \in 1 .. k - 1 : touches[j].contact = c,
               \/ event.gesture = "press"
               \/ router.captured # Nowhere => router.contact = c
        PROVE  Introduced(k - 1, c)'
    <3>1. \A j \in 1 .. (k - 1) - 1 : touches'[j].contact = c
      BY <2>1, <2>4
    <3>2. (router'.captured # Nowhere => router'.contact = c) \/ c \in swapped'
      BY <1>11, <2>4
    <3> QED
      BY <3>1, <3>2 DEF Introduced
  <2>5. CASE /\ \A j \in 1 .. k - 1 : touches[j].contact = c
             /\ router.captured # Nowhere => router.contact = c
    BY <1>1, <2>2, <2>4, <2>5
  <2>6. ASSUME NEW j \in 1 .. k - 1, touches[j].gesture = "press", touches[j].contact = c
        PROVE  Introduced(k - 1, c)'
    <3>1. CASE j = 1
      <4>1. ASSUME NEW i \in 1 .. k - 1 PROVE touches[i].contact = c
        <5>1. 1 \in 1 .. Len(touches) /\ i \in 1 .. Len(touches) /\ 1 <= i
          BY <1>2
        <5>2. touches[1].contact <= touches[i].contact /\ touches[i].contact <= c
          BY <1>12, <5>1 DEF InOrder
        <5>3. touches[i].contact \in Nat /\ touches[1].contact = c
          BY <1>3, <2>6, <3>1, <5>1
        <5> QED
          BY <5>2, <5>3
      <4> QED
        BY <1>1, <2>4, <2>6, <3>1, <4>1
    <3>2. CASE j # 1
      <4>1. PICK m \in Nat : m = j - 1
        BY <3>2
      <4>2. m \in 1 .. (k - 1) - 1 /\ m + 1 = j
        BY <3>2, <4>1
      <4>3. touches'[m] = touches[j]
        BY <2>1, <4>2
      <4> QED
        BY <2>6, <4>2, <4>3 DEF Introduced
    <3> QED
      BY <3>1, <3>2
  <2> QED
    BY <1>12, <2>3, <2>5, <2>6 DEF Introduced
<1>13. PressesCome'
  <2>1. ASSUME NEW i \in 1 .. Len(touches'), touches'[i].gesture # "press"
        PROVE  Introduced(i, touches[i].contact)'
    <3>1. /\ i + 1 \in 2 .. Len(touches) + 1 /\ (i + 1) - 1 = i
          /\ i + 1 \in 1 .. Len(touches) /\ touches'[i] = touches[i + 1]
      BY <1>2
    <3>2. PICK c \in Nat : c = touches[i + 1].contact
      BY <1>3, <3>1
    <3>3. Introduced(i + 1, c)
      BY <2>1, <3>1, <3>2 DEF PressesCome
    <3>4. ASSUME NEW j \in 1 .. (i + 1) - 1 PROVE touches[j].contact <= c
      <4>1. j \in 1 .. Len(touches) /\ j <= i + 1
        BY <3>1
      <4> QED
        BY <3>1, <3>2, <4>1 DEF InOrder
    <3>5. Introduced((i + 1) - 1, c)'
      BY <1>12, <3>1, <3>3, <3>4
    <3> QED
      BY <3>1, <3>2, <3>5
  <2>2. ASSUME sampler.state \in {"pressed", "long"}
        PROVE  Introduced(Len(touches) + 1, sampler.contact)'
    <3>1. PICK k \in 2 .. Len(touches) + 1 : k = Len(touches) + 1 /\ k - 1 = Len(touches') + 1
      BY <1>2
    <3>2. PICK c \in Nat : c = sampler.contact /\ c = sampler'.contact
      BY <1>2, <1>3
    <3>3. Introduced(k, c)
      BY <2>2, <3>1, <3>2 DEF PressesCome
    <3>4. \A j \in 1 .. k - 1 : touches[j].contact <= c
      BY <1>2, <3>1, <3>2 DEF InOrder
    <3>5. Introduced(k - 1, c)'
      BY <1>12, <3>3, <3>4
    <3>6. Introduced(Len(touches) + 1, c)'
      BY <3>1, <3>5 DEF Introduced
    <3> QED
      BY <3>2, <3>6
  <2> QED
    BY <1>2, <2>1, <2>2 DEF PressesCome
<1> QED
  BY <1>5, <1>6, <1>10, <1>13

\* Every contact that has been captured is released by its own event or was lost.
THEOREM TouchInvariant == TouchSpec => []TouchInv
<1>1. TouchInit => TouchInv
  BY DEF TouchInit, TouchInv, TouchShape, InOrder, PressesEnd, PressesCome, CaptureHolds,
     ActsOnItsPress,
     NoClick, Places, TouchViews, Nowhere
<1>2. TouchInv /\ [TouchNext]_touchVars => TouchInv'
  <2> SUFFICES ASSUME TouchInv, [TouchNext]_touchVars PROVE TouchInv'
    OBVIOUS
  <2>1. CASE UNCHANGED touchVars
    BY <2>1, QueueKept DEF touchVars, TouchInv, TouchShape, CaptureHolds
  <2> QED
    BY <2>1, SampleKeeps, ViewKeeps, TakeKeeps DEF TouchNext
<1> QED
  BY <1>1, <1>2, PTL DEF TouchSpec

\* For any queue a click acts in the view that was open when its control was pressed, and
\* on the control its own contact pressed: on an earlier contact's only when an event of
\* that one was dropped, and this one's press was dropped too or passed over while a
\* frame was being presented (publish_event, ui_interaction_process).
THEOREM TouchActsOnItsPress == TouchSpec => []ActsOnItsPress
<1>1. TouchInv => ActsOnItsPress
  BY DEF TouchInv
<1> QED
  BY <1>1, TouchInvariant, PTL

\* Nothing stays captured once the finger is up and its events were taken, for any
\* queue, unless one was dropped (update_state, ui_interaction_process).
THEOREM TouchCaptureEnds == TouchSpec => []CaptureEnds
<1>1. TouchInv => CaptureEnds
  BY DEF TouchInv, TouchShape, CaptureHolds, CaptureEnds, Awaited, Ending
<1> QED
  BY <1>1, TouchInvariant, PTL

-----------------------------------------------------------------------------
(* Buttons.  The phase of the machine tells what the episode has published *)
(* and whether the keys are down; in the phases of a release its timer is  *)
(* the time the keys have been up.                                         *)

Machines == [phase : Phases, active : Keys \cup {NoKey}, since : 0 .. DebounceTime,
             held : 0 .. LongPressTime]

ButtonShape ==
    /\ machine \in Machines
    /\ quiet \in [up : BOOLEAN, time : 0 .. DebounceTime, rested : BOOLEAN]
    /\ episode \in [events : Nat, chord : BOOLEAN, late : BOOLEAN]

Releasing == {"debounce_release", "debounce_long_release", "debounce_blocked_release"}

\* Of which phase of a pressed key a release is.
ReleaseOf(phase) ==
    IF phase = "pressed" THEN "debounce_release"
    ELSE IF phase = "long_emitted" THEN "debounce_long_release"
    ELSE "debounce_blocked_release"

ReleaseTimed ==
    /\ machine.phase \in Releasing => quiet.up /\ machine.since = quiet.time
    /\ machine.phase \notin Releasing \cup {"idle"} => ~ quiet.up
    /\ ~ quiet.up => quiet.time = 0
    /\ quiet.rested => quiet.up /\ quiet.time = DebounceTime

\* What the phase says of the events published since the keys were last at rest.
EpisodeOf(phase) ==
    /\ phase \in {"debounce_press", "pressed", "debounce_release"} =>
          episode.events = 0 /\ ~ episode.chord
    /\ phase = "idle" /\ ~ quiet.rested => episode.events = 0 /\ ~ episode.chord
    /\ phase \in {"long_emitted", "debounce_long_release"} => ~ episode.chord

ButtonInv == ButtonShape /\ ReleaseTimed /\ EpisodeOf(machine.phase) /\ ButtonOnce

\* The machine in another phase.
LEMMA MachineMoves ==
    ASSUME NEW m \in Machines, NEW phase \in Phases
    PROVE  /\ To(m, phase) \in Machines /\ To(m, phase).phase = phase
           /\ Since(m, phase) \in Machines /\ Since(m, phase).phase = phase
           /\ Since(m, phase).since = 0
           /\ Reset \in Machines /\ Reset.phase = "idle"
           /\ Blocked \in Machines /\ Blocked.phase = "blocked"
           /\ \A k \in Keys : ShortOf(k) # "none" /\ LongOf(k) # "none"
<1>1. 0 \in 0 .. DebounceTime /\ 0 \in 0 .. LongPressTime
  BY ButtonsAssumption
<1>2. To(m, phase) \in Machines /\ To(m, phase).phase = phase
  BY DEF To, Machines
<1>3. /\ Since(m, phase) \in Machines /\ Since(m, phase).phase = phase
      /\ Since(m, phase).since = 0
  BY <1>1 DEF Since, Machines
<1>4. /\ Reset \in Machines /\ Reset.phase = "idle"
      /\ Blocked = [phase |-> "blocked", active |-> NoKey, since |-> 0, held |-> 0]
  BY <1>1 DEF Reset, Blocked, Machines, Phases
<1> QED
  BY <1>1, <1>2, <1>3, <1>4 DEF Machines, Phases, ShortOf, LongOf

\* A scan with a key down: it may publish the long press.
LEMMA UpdatedDown ==
    ASSUME NEW m \in Machines, NEW key \in Keys, NEW result, result = Updated(m, {key})
    PROVE  /\ result.machine \in Machines
           /\ result.machine.phase \in {"debounce_press", "pressed", "long_emitted", "blocked"}
           /\ result.machine.phase = "debounce_press" => m.phase \in {"idle", "debounce_press"}
           /\ result.machine.phase = "pressed" =>
                 m.phase \in {"debounce_press", "pressed", "debounce_release"}
           /\ result.machine.phase = "long_emitted" =>
                 \/ m.phase \in {"long_emitted", "debounce_long_release"} 
                 \/ m.phase = "pressed" /\ result.event # "none"
           /\ result.event # "none" =>
                 m.phase = "pressed" /\ result.machine.phase = "long_emitted"
<1>1. CASE m.phase = "idle"
  <2>1. (CHOOSE k \in {key} : TRUE) = key /\ {key} # {}
    OBVIOUS
  <2>2. result = [machine |-> [phase |-> "debounce_press", active |-> key, since |-> 0,
                               held |-> 0], event |-> "none"]
    BY <1>1, <2>1 DEF Updated
  <2> QED
    BY <1>1, <2>2, ButtonsAssumption DEF Machines, Phases
<1>2. CASE m.phase = "debounce_press"
  BY <1>2, MachineMoves DEF Updated, Phases
<1>3. CASE m.phase = "pressed"
  BY <1>3, MachineMoves DEF Updated, Phases
<1>4. CASE m.phase = "debounce_release"
  BY <1>4, MachineMoves DEF Updated, Phases
<1>5. CASE m.phase = "long_emitted"
  BY <1>5, MachineMoves DEF Updated, Phases
<1>6. CASE m.phase = "debounce_long_release"
  BY <1>6, MachineMoves DEF Updated, Phases, Bounced
<1>7. CASE m.phase = "blocked"
  BY <1>7, MachineMoves DEF Updated, Phases
<1>8. CASE m.phase = "debounce_blocked_release"
  BY <1>8, MachineMoves DEF Updated, Phases
<1> QED
  BY <1>1, <1>2, <1>3, <1>4, <1>5, <1>6, <1>7, <1>8 DEF Machines, Phases

\* A scan with no key down: a release that lasts publishes the short press.
LEMMA UpdatedUp ==
    ASSUME NEW m \in Machines, NEW result, result = Updated(m, {})
    PROVE  /\ result.machine \in Machines
           /\ m.phase \in {"idle", "debounce_press"} =>
                 result.machine.phase = "idle" /\ result.event = "none"
           /\ m.phase \in {"pressed", "long_emitted", "blocked"} =>
                 /\ result.machine.phase = ReleaseOf(m.phase) /\ result.machine.since = 0
                 /\ result.event = "none"
           /\ m.phase \in Releasing =>
                 IF m.since >= DebounceTime
                 THEN /\ result.machine.phase = "idle"
                      /\ result.event # "none" => m.phase = "debounce_release"
                 ELSE result.machine = m /\ result.event = "none"
<1>1. CASE m.phase \in {"idle", "debounce_press"}
  BY <1>1, MachineMoves DEF Updated, Phases, Releasing
<1>2. CASE m.phase \in {"pressed", "long_emitted", "blocked"}
  BY <1>2, MachineMoves DEF Updated, Phases, Releasing, ReleaseOf
<1>3. CASE m.phase = "debounce_release"
  BY <1>3, MachineMoves DEF Updated, Phases, Releasing
<1>4. CASE m.phase = "debounce_long_release"
  BY <1>4, MachineMoves DEF Updated, Phases, Releasing
<1>5. CASE m.phase = "debounce_blocked_release"
  BY <1>5, MachineMoves DEF Updated, Phases, Releasing
<1> QED
  BY <1>1, <1>2, <1>3, <1>4, <1>5 DEF Machines, Phases, Releasing

\* A scan later.
LEMMA LaterFacts ==
    ASSUME ButtonShape
    PROVE  /\ Later \in Machines /\ Later.phase = machine.phase
           /\ Later.since = Least(machine.since + 1, DebounceTime)
           /\ \A t \in 0 .. DebounceTime : Least(t + 1, DebounceTime) \in 0 .. DebounceTime
<1>1. \A t \in 0 .. DebounceTime : Least(t + 1, DebounceTime) \in 0 .. DebounceTime
  BY ButtonsAssumption DEF Least
<1>2. \A t \in 0 .. LongPressTime : Least(t + 1, LongPressTime) \in 0 .. LongPressTime
  BY ButtonsAssumption DEF Least
<1> QED
  BY <1>1, <1>2 DEF ButtonShape, Machines, Later

\* A scan with both keys, with one, or with none.
LEMMA BothDown == ASSUME ButtonInv, ScanButtons(Keys) PROVE ButtonInv'
<1>1. PICK m : m = Later
  OBVIOUS
<1>2. machine' = [m EXCEPT !.phase = "blocked", !.active = NoKey] /\ m \in Machines
  BY <1>1, LaterFacts DEF ScanButtons, ButtonInv
<1>3. machine' \in Machines /\ machine'.phase = "blocked"
  BY <1>2 DEF Machines, Phases
<1>4. Keys # {}
  BY DEF Keys
<1>5. quiet' = [up |-> FALSE, time |-> 0, rested |-> FALSE] /\ 0 \in 0 .. DebounceTime
  BY <1>4, ButtonsAssumption DEF ScanButtons
<1>6. PICK before : /\ before \in {NoEvents, episode}
                    /\ episode' = [events |-> before.events + 0,
                                   chord |-> before.chord \/ TRUE,
                                   late |-> before.late \/ (before.chord /\ 0 = 1)]
  BY DEF ScanButtons
<1>7. /\ before \in [events : Nat, chord : BOOLEAN, late : BOOLEAN]
      /\ before.events <= 1 /\ ~ before.late
  <2>1. NoEvents \in [events : Nat, chord : BOOLEAN, late : BOOLEAN]
        /\ NoEvents.events = 0 /\ ~ NoEvents.late
    BY DEF NoEvents
  <2>2. episode \in [events : Nat, chord : BOOLEAN, late : BOOLEAN]
        /\ episode.events <= 1 /\ ~ episode.late
    BY DEF ButtonInv, ButtonShape, ButtonOnce
  <2> QED
    BY <1>6, <2>1, <2>2
<1>8. episode' \in [events : Nat, chord : BOOLEAN, late : BOOLEAN]
      /\ episode'.events <= 1 /\ ~ episode'.late
  BY <1>6, <1>7
<1> QED
  BY <1>3, <1>5, <1>8
     DEF ButtonInv, ButtonShape, ReleaseTimed, EpisodeOf, ButtonOnce, Releasing

\* A scan that finds one key down.
LEMMA OneDown == ASSUME ButtonInv, NEW key \in Keys, ScanButtons({key}) PROVE ButtonInv'
<1>1. PICK m : m = Later
  OBVIOUS
<1>2. PICK result : result = Updated(m, {key})
  OBVIOUS
<1>3. {key} # Keys /\ {key} # {}
  BY DEF Keys
<1>4. m \in Machines /\ m.phase = machine.phase
  BY <1>1, LaterFacts DEF ButtonInv
<1>5. machine' = result.machine
  BY <1>1, <1>2, <1>3 DEF ScanButtons
<1>6. quiet' = [up |-> FALSE, time |-> 0, rested |-> FALSE] /\ 0 \in 0 .. DebounceTime
  BY <1>3, ButtonsAssumption DEF ScanButtons
<1>7. PICK before, events :
          /\ before = IF quiet.rested THEN NoEvents ELSE episode
          /\ events = IF result.event = "none" THEN 0 ELSE 1
          /\ episode' = [events |-> before.events + events,
                         chord |-> before.chord \/ FALSE,
                         late |-> before.late \/ (before.chord /\ events = 1)]
  BY <1>1, <1>2, <1>3 DEF ScanButtons
<1>8. /\ before \in [events : Nat, chord : BOOLEAN, late : BOOLEAN]
      /\ before.events <= 1 /\ ~ before.late
      /\ m.phase \in {"idle", "debounce_press", "pressed", "debounce_release"} =>
            before.events = 0 /\ ~ before.chord
      /\ m.phase \in {"long_emitted", "debounce_long_release"} => ~ before.chord
  BY <1>4, <1>7 DEF ButtonInv, ButtonShape, ButtonOnce, NoEvents, EpisodeOf
<1>9. /\ result.machine \in Machines
      /\ result.machine.phase \in {"debounce_press", "pressed", "long_emitted", "blocked"}
      /\ result.machine.phase = "debounce_press" => m.phase \in {"idle", "debounce_press"}
      /\ result.machine.phase = "pressed" =>
            m.phase \in {"debounce_press", "pressed", "debounce_release"}
      /\ result.machine.phase = "long_emitted" =>
            \/ m.phase \in {"long_emitted", "debounce_long_release"} 
            \/ m.phase = "pressed" /\ result.event # "none"
      /\ result.event # "none" =>
            m.phase = "pressed" /\ result.machine.phase = "long_emitted"
  BY <1>2, <1>4, UpdatedDown
<1>10. /\ episode' \in [events : Nat, chord : BOOLEAN, late : BOOLEAN]
       /\ episode'.events <= 1 /\ ~ episode'.late
  BY <1>7, <1>8, <1>9
<1>11. EpisodeOf(machine.phase)'
  BY <1>5, <1>7, <1>8, <1>9 DEF EpisodeOf
<1> QED
  BY <1>5, <1>6, <1>9, <1>10, <1>11 DEF ButtonInv, ButtonShape, ReleaseTimed, ButtonOnce, Releasing

\* A scan that finds none down.
LEMMA NoneDown == ASSUME ButtonInv, ScanButtons({}) PROVE ButtonInv'
<1>1. PICK m : m = Later
  OBVIOUS
<1>2. PICK result : result = Updated(m, {})
  OBVIOUS
<1>3. Keys # {}
  BY DEF Keys
<1>4. /\ m \in Machines /\ m.phase = machine.phase
      /\ m.since = Least(machine.since + 1, DebounceTime)
      /\ \A t \in 0 .. DebounceTime : Least(t + 1, DebounceTime) \in 0 .. DebounceTime
  BY <1>1, LaterFacts DEF ButtonInv
<1>5. machine' = result.machine
  BY <1>1, <1>2, <1>3 DEF ScanButtons
<1>6. PICK time : /\ time = IF quiet.up THEN Least(quiet.time + 1, DebounceTime) ELSE 0
                  /\ quiet' = [up |-> TRUE, time |-> time, rested |-> time = DebounceTime]
  BY DEF ScanButtons
<1>7. time \in 0 .. DebounceTime /\ quiet.time \in 0 .. DebounceTime
  BY <1>4, <1>6, ButtonsAssumption DEF ButtonInv, ButtonShape
<1>8. PICK events :
          /\ events = IF result.event = "none" THEN 0 ELSE 1
          /\ episode' = [events |-> episode.events + events,
                         chord |-> episode.chord \/ FALSE,
                         late |-> episode.late \/ (episode.chord /\ events = 1)]
  BY <1>1, <1>2, <1>3 DEF ScanButtons
<1>9. /\ result.machine \in Machines
      /\ m.phase \in {"idle", "debounce_press"} =>
            result.machine.phase = "idle" /\ result.event = "none"
      /\ m.phase \in {"pressed", "long_emitted", "blocked"} =>
            /\ result.machine.phase = ReleaseOf(m.phase) /\ result.machine.since = 0
            /\ result.event = "none"
      /\ m.phase \in Releasing =>
            IF m.since >= DebounceTime
            THEN /\ result.machine.phase = "idle"
                 /\ result.event # "none" => m.phase = "debounce_release"
            ELSE result.machine = m /\ result.event = "none"
  BY <1>2, <1>4, UpdatedUp
<1>10. quiet'.up /\ quiet'.time = time /\ (quiet'.rested <=> time = DebounceTime)
       /\ quiet' \in [up : BOOLEAN, time : 0 .. DebounceTime, rested : BOOLEAN]
  BY <1>6, <1>7
<1>11. /\ episode' \in [events : Nat, chord : BOOLEAN, late : BOOLEAN]
       /\ episode'.chord = episode.chord /\ episode'.events = episode.events + events
       /\ episode'.late = (episode.late \/ (episode.chord /\ events = 1))
  BY <1>8 DEF ButtonInv, ButtonShape
<1>12. m.phase \in Phases
  BY <1>4 DEF Machines
<1>13. ReleaseTimed' /\ EpisodeOf(machine.phase)' /\ ButtonOnce'
  <2>1. CASE m.phase = "idle"
    <3>1. machine'.phase = "idle" /\ events = 0
      BY <1>5, <1>8, <1>9, <2>1
    <3>2. quiet.rested => time = DebounceTime
      BY <1>6, <1>7, ButtonsAssumption DEF ButtonInv, ReleaseTimed, Least
    <3>3. ~ quiet.rested => episode.events = 0 /\ ~ episode.chord
      BY <1>4, <2>1 DEF ButtonInv, EpisodeOf
    <3> QED
      BY <1>7, <1>10, <1>11, <3>1, <3>2, <3>3
         DEF ButtonInv, ButtonShape, ReleaseTimed, EpisodeOf, ButtonOnce, Releasing
  <2>2. CASE m.phase = "debounce_press"
    <3>1. machine'.phase = "idle" /\ events = 0
      BY <1>5, <1>8, <1>9, <2>2
    <3>2. episode.events = 0 /\ ~ episode.chord
      BY <1>4, <2>2 DEF ButtonInv, EpisodeOf
    <3> QED
      BY <1>7, <1>10, <1>11, <3>1, <3>2
         DEF ButtonInv, ButtonShape, ReleaseTimed, EpisodeOf, ButtonOnce, Releasing
  <2>3. CASE m.phase \in {"pressed", "long_emitted", "blocked"}
    <3>1. /\ machine'.phase = ReleaseOf(m.phase) /\ machine'.since = 0 /\ events = 0
          /\ machine'.phase \in Releasing
      BY <1>5, <1>8, <1>9, <2>3 DEF ReleaseOf, Releasing
    <3>2. time = 0 /\ time # DebounceTime
      BY <1>4, <1>6, <2>3, ButtonsAssumption DEF ButtonInv, ReleaseTimed, Releasing
    <3>3. EpisodeOf(machine.phase)'
      BY <1>4, <1>10, <1>11, <2>3, <3>1, <3>2
         DEF ButtonInv, ButtonShape, EpisodeOf, ReleaseOf
    <3> QED
      BY <1>10, <1>11, <3>1, <3>2, <3>3
         DEF ButtonInv, ButtonShape, ReleaseTimed, ButtonOnce, Releasing
  <2>4. CASE m.phase \in Releasing
    <3>1. time = m.since
      BY <1>4, <1>6, <2>4 DEF ButtonInv, ReleaseTimed
    <3>2. CASE m.since >= DebounceTime
      <4>1. /\ machine'.phase = "idle" /\ time = DebounceTime
            /\ events \in {0, 1}
            /\ events = 1 => m.phase = "debounce_release"
        BY <1>5, <1>7, <1>8, <1>9, <2>4, <3>1, <3>2, ButtonsAssumption
      <4>2. /\ events = 1 => episode.events = 0 /\ ~ episode.chord
            /\ episode.events \in Nat /\ episode.events <= 1 /\ ~ episode.late
        BY <1>4, <4>1 DEF ButtonInv, ButtonShape, ButtonOnce, EpisodeOf
      <4>3. ~ episode'.late /\ episode'.events <= 1
        BY <1>11, <4>1, <4>2
      <4> QED
        BY <1>10, <4>1, <4>3 DEF ReleaseTimed, EpisodeOf, ButtonOnce, Releasing
    <3>3. CASE ~ (m.since >= DebounceTime)
      <4>1. machine' = m /\ events = 0 /\ time # DebounceTime
        BY <1>5, <1>7, <1>8, <1>9, <2>4, <3>1, <3>3, ButtonsAssumption
      <4> QED
        BY <1>4, <1>10, <1>11, <2>4, <3>1, <4>1
           DEF ButtonInv, ButtonShape, ReleaseTimed, EpisodeOf, ButtonOnce, Releasing
    <3> QED
      BY <3>2, <3>3
  <2> QED
    BY <1>12, <2>1, <2>2, <2>3, <2>4 DEF Phases, Releasing
<1> QED
  BY <1>5, <1>9, <1>10, <1>11, <1>13 DEF ButtonInv, ButtonShape

\* A scan that fails lets the time pass, for the release and for the keys.
LEMMA ScanMissed == ASSUME ButtonInv, MissScan PROVE ButtonInv'
<1>1. /\ machine' \in Machines /\ machine'.phase = machine.phase
      /\ machine'.since = Least(machine.since + 1, DebounceTime)
      /\ \A t \in 0 .. DebounceTime : Least(t + 1, DebounceTime) \in 0 .. DebounceTime
  BY LaterFacts DEF ButtonInv, MissScan
<1>2. PICK time : /\ time = IF quiet.up THEN Least(quiet.time + 1, DebounceTime) ELSE 0
                  /\ quiet' = [quiet EXCEPT !.time = time]
  BY DEF MissScan
<1>3. time \in 0 .. DebounceTime /\ (quiet.rested => time = DebounceTime)
  BY <1>1, <1>2, ButtonsAssumption DEF ButtonInv, ButtonShape, ReleaseTimed, Least
<1>4. /\ quiet' \in [up : BOOLEAN, time : 0 .. DebounceTime, rested : BOOLEAN]
      /\ quiet'.up = quiet.up /\ quiet'.rested = quiet.rested /\ quiet'.time = time
  BY <1>2, <1>3 DEF ButtonInv, ButtonShape
<1>5. UNCHANGED episode
  BY DEF MissScan
<1>6. ReleaseTimed'
  BY <1>1, <1>2, <1>3, <1>4 DEF ButtonInv, ReleaseTimed
<1>7. EpisodeOf(machine.phase)' /\ ButtonOnce'
  BY <1>1, <1>4, <1>5 DEF ButtonInv, EpisodeOf, ButtonOnce
<1> QED
  BY <1>1, <1>4, <1>5, <1>6, <1>7 DEF ButtonInv, ButtonShape

\* Between two rests of the keys at most one event is published, none after a chord.
THEOREM ButtonsPublishOnce == ButtonsSpec => []ButtonOnce
<1>1. ButtonsInit => ButtonInv
  <2> SUFFICES ASSUME ButtonsInit PROVE ButtonInv
    OBVIOUS
  <2>1. machine \in Machines /\ machine.phase = "idle"
    BY ButtonsAssumption DEF ButtonsInit, Reset, Machines, Phases
  <2>2. /\ quiet \in [up : BOOLEAN, time : 0 .. DebounceTime, rested : BOOLEAN]
        /\ quiet.up /\ quiet.rested /\ quiet.time = DebounceTime
    BY ButtonsAssumption DEF ButtonsInit
  <2>3. /\ episode \in [events : Nat, chord : BOOLEAN, late : BOOLEAN]
        /\ episode.events = 0 /\ ~ episode.chord /\ ~ episode.late
    BY DEF ButtonsInit, NoEvents
  <2> QED
    BY <2>1, <2>2, <2>3
       DEF ButtonInv, ButtonShape, ReleaseTimed, EpisodeOf, ButtonOnce, Releasing
<1>2. ButtonInv /\ [ButtonsNext]_buttonVars => ButtonInv'
  <2> SUFFICES ASSUME ButtonInv, [ButtonsNext]_buttonVars PROVE ButtonInv'
    OBVIOUS
  <2>1. CASE \E down \in SUBSET Keys : ScanButtons(down)
    <3>1. PICK down \in SUBSET Keys : ScanButtons(down)
      BY <2>1
    <3>2. down = Keys \/ down = {} \/ \E key \in Keys : down = {key}
      BY <3>1 DEF Keys
    <3> QED
      BY <3>1, <3>2, BothDown, OneDown, NoneDown
  <2>2. CASE TakeNavigation \/ UNCHANGED buttonVars
    BY <2>2 DEF TakeNavigation, buttonVars, ButtonInv, ButtonShape, ReleaseTimed, EpisodeOf,
                ButtonOnce
  <2> QED
    BY <2>1, <2>2, ScanMissed DEF ButtonsNext
<1>3. ButtonInv => ButtonOnce
  BY DEF ButtonInv
<1> QED
  BY <1>1, <1>2, <1>3, PTL DEF ButtonsSpec

-----------------------------------------------------------------------------
(* The file explorer.  Requests are numbered upwards, so at most one       *)
(* listing on its way answers the last one, and none does once a folder is *)
(* shown.  Until an explorer the Reader returns to has its answer, what it *)
(* asked for is the folder it was left at and what it will restore is the  *)
(* page.                                                                   *)

Browsers == [path : Paths, page : Nat, restore : Nat, selection : Nat \cup {-1},
             back : BOOLEAN, request : Nat, asked : Nat,
             status : {"no_card", "mounting", "loading", "ready", "error", "directory_error"}]
States == {"ready", "no_card", "mounting", "error"}
Requests == [path : Paths, request : Nat, generation : Nat,
             code : {"asked", "ok", "io_error", "no_card"}]

FileShape ==
    /\ fileMedium \in [state : States, generation : 1 .. MaxMedia, changing : BOOLEAN]
    /\ fileStatuses \in Seq([state : States, generation : Nat])
    /\ listings \in Seq(Requests) /\ browser \in Browsers
    /\ where \in {"closed", "open", "reader"} /\ wanted \in Paths \cup {NoFolder}
    /\ held \in [path : Paths \cup {NoFolder}, generation : Nat]
    /\ left \in [path : Paths \cup {NoFolder}, page : Nat, generation : Nat]

\* A folder of the card of a generation, or nothing.
IsListing(listing) ==
    listing = NoListing \/ (listing.generation \in 1 .. MaxMedia
                            /\ listing.path \in DOMAIN Contents[listing.generation])

\* The listing an answer brings.
Brought(result) == [path |-> result.path, generation |-> result.generation]

RequestsNumbered ==
    /\ \A i \in DOMAIN listings : listings[i].request <= browser.request
    /\ \A i, j \in DOMAIN listings : i < j => listings[i].request < listings[j].request
    /\ wanted # NoFolder => \A i \in DOMAIN listings : listings[i].request # browser.request
    /\ \A i \in DOMAIN listings : listings[i].code = "ok" => IsListing(Brought(listings[i]))

\* What is shown is what was answered.
ShownIsHeld ==
    /\ IsListing(held)
    /\ browser.status = "ready" =>
          /\ where = "open" /\ wanted = NoFolder
          /\ \A i \in DOMAIN listings : listings[i].request # browser.request
          /\ held.path = browser.path /\ held.generation = browser.asked
          /\ browser.page < PageCount(held)
          /\ browser.selection # -1 => browser.selection \div RowCount = browser.page

\* The place left for the Reader is a page of the folder it names,
PlaceIsReal ==
    left # NoPlace =>
       /\ where # "closed" /\ IsListing([path |-> left.path, generation |-> left.generation])
       /\ left.path \in Paths
       /\ left.page < PageCount([path |-> left.path, generation |-> left.generation])

\* kept while the Reader is open, asked for when it is left, and shown at last.
PlaceIsKept ==
    /\ where = "reader" => /\ browser.back /\ browser.path = left.path /\ wanted = NoFolder
                           /\ browser.restore = left.page /\ left # NoPlace
    /\ left # NoPlace /\ where = "open" /\ browser.status # "ready" =>
          /\ wanted # NoFolder => wanted = left.path /\ browser.restore = left.page
          /\ \A i \in DOMAIN listings :
                listings[i].request = browser.request =>
                   listings[i].path = left.path /\ browser.restore = left.page
    /\ left # NoPlace /\ browser.status = "ready" /\ held.generation = left.generation =>
          browser.path = left.path /\ browser.page = left.page

FileInv == FileShape /\ RequestsNumbered /\ ShownIsHeld /\ PlaceIsReal /\ PlaceIsKept

-----------------------------------------------------------------------------
\* A quotient grows by one with each divisor.
LEMMA QuotientBounds ==
    ASSUME NEW a \in Nat, NEW b \in Nat, NEW m \in Nat \ {0}, a <= b
    PROVE  /\ a \div m \in Nat /\ (b + m) \div m \in Nat
           /\ a \div m < (b + m) \div m /\ 0 < (b + m) \div m
<1>1. /\ a \div m \in Int /\ a % m \in 0 .. m - 1 /\ a = m * (a \div m) + (a % m)
      /\ (b + m) \div m \in Int /\ (b + m) % m \in 0 .. m - 1
      /\ b + m = m * ((b + m) \div m) + ((b + m) % m)
  OBVIOUS
<1>2. PICK q \in Int : q = a \div m
  BY <1>1
<1>3. PICK p \in Int : p = (b + m) \div m
  BY <1>1
<1>4. PICK r \in Int : r = a % m /\ r >= 0 /\ r < m
  BY <1>1
<1>5. PICK s \in Int : s = (b + m) % m /\ s >= 0 /\ s < m
  BY <1>1
<1>6. a = m * q + r /\ b + m = m * p + s
  BY <1>1, <1>2, <1>3, <1>4, <1>5
<1>7. q >= 0
  <2>1. CASE q <= -1
    <3>1. m * q <= -m
      BY <2>1
    <3> QED
      BY <1>4, <1>6, <3>1
  <2> QED
    BY <2>1
<1>8. q < p
  <2>1. CASE p <= q
    <3>1. m * p <= m * q
      BY <2>1
    <3> QED
      BY <1>4, <1>5, <1>6, <3>1
  <2> QED
    BY <2>1
<1> QED
  BY <1>2, <1>3, <1>7, <1>8

\* A listing has at least one page, and each row is on one of them.
LEMMA PagesOf ==
    ASSUME NEW listing, IsListing(listing)
    PROVE  /\ Len(Listed(listing)) \in Nat
           /\ PageCount(listing) \in Nat /\ 0 < PageCount(listing)
           /\ \A row \in 0 .. Len(Listed(listing)) :
                 row \div RowCount \in Nat /\ row \div RowCount < PageCount(listing)
<1>1. Listed(listing) \in Seq(EntryKinds)
  BY FileAssumption DEF IsListing, Listed
<1>2. PICK n \in Nat : n = Len(Listed(listing))
  BY <1>1
<1>3. RowCount \in Nat \ {0}
  BY FileAssumption
<1>4. ASSUME NEW row \in 0 .. n
      PROVE  /\ row \div RowCount \in Nat /\ (n + RowCount) \div RowCount \in Nat
             /\ row \div RowCount < (n + RowCount) \div RowCount
             /\ 0 < (n + RowCount) \div RowCount
  <2>1. row \in Nat /\ row <= n
    OBVIOUS
  <2> QED
    BY <1>2, <1>3, <2>1, QuotientBounds
<1>5. 0 \in 0 .. n
  OBVIOUS
<1> QED
  BY <1>2, <1>4, <1>5 DEF PageCount

\* Requests are numbered.
LEMMA RequestsAre ==
    ASSUME FileInv, NEW i \in DOMAIN listings
    PROVE  listings[i] \in Requests /\ listings[i].request \in Nat
<1>1. listings \in Seq(Requests)
  BY DEF FileInv, FileShape
<1>2. listings[i] \in Requests
  BY <1>1
<1> QED
  BY <1>2 DEF Requests

\* The empty listing is one.
LEMMA NothingListed == IsListing(NoListing)
  BY DEF IsListing

\* The explorer is left alone, and no new request or answer appears.
LEMMA ExplorerRests ==
    ASSUME FileInv, UNCHANGED <<where, browser, held, wanted, left, listings>>, FileShape'
    PROVE  FileInv'
<1>1. RequestsNumbered'
  BY DEF FileInv, RequestsNumbered
<1>2. ShownIsHeld'
  BY DEF FileInv, ShownIsHeld, PageCount, Listed
<1>3. PlaceIsReal'
  BY DEF FileInv, PlaceIsReal, PageCount, Listed
<1>4. PlaceIsKept'
  BY DEF FileInv, PlaceIsKept
<1> QED
  BY <1>1, <1>2, <1>3, <1>4 DEF FileInv

\* The card changes, and its state is told.
LEMMA ServiceKeeps == ASSUME FileInv, CardChanges \/ PublishStatus PROVE FileInv'
<1>1. UNCHANGED <<where, browser, held, wanted, left, listings>>
  BY DEF CardChanges, PublishStatus, explorerOnly
<1>2. fileMedium \in [state : States, generation : 1 .. MaxMedia, changing : BOOLEAN]
      /\ MaxMedia \in Nat
  BY FileAssumption DEF FileInv, FileShape
<1>3. CASE CardChanges
  <2>1. PICK g \in 1 .. MaxMedia : g = fileMedium.generation + 1
    BY <1>2, <1>3 DEF CardChanges
  <2>2. fileMedium' = [fileMedium EXCEPT !.generation = g, !.changing = TRUE]
    BY <1>3, <2>1 DEF CardChanges
  <2>3. fileMedium' \in [state : States, generation : 1 .. MaxMedia, changing : BOOLEAN]
    BY <1>2, <2>2
  <2>4. FileShape'
    BY <1>1, <1>3, <2>3 DEF CardChanges, FileInv, FileShape
  <2> QED
    BY <1>1, <2>4, ExplorerRests
<1>4. CASE PublishStatus
  <2>1. PICK s \in States :
           /\ fileMedium' = [fileMedium EXCEPT !.state = s, !.changing = FALSE]
           /\ fileStatuses' =
                 Append(IF Len(fileStatuses) = StatusSlots THEN Tail(fileStatuses)
                        ELSE fileStatuses,
                        [state |-> s, generation |-> fileMedium.generation])
    BY <1>4 DEF PublishStatus, States
  <2>2. fileMedium' \in [state : States, generation : 1 .. MaxMedia, changing : BOOLEAN]
    BY <1>2, <2>1
  <2>3. PICK status \in [state : States, generation : Nat] :
           status = [state |-> s, generation |-> fileMedium.generation]
    <3>1. PICK g \in Nat : g = fileMedium.generation
      BY <1>2
    <3> QED
      BY <3>1
  <2>4. fileStatuses' \in Seq([state : States, generation : Nat])
    <3>1. fileStatuses \in Seq([state : States, generation : Nat])
      BY DEF FileInv, FileShape
    <3>2. StatusSlots \in Nat \ {0}
      BY FileAssumption
    <3>3. Len(fileStatuses) = StatusSlots =>
             Tail(fileStatuses) \in Seq([state : States, generation : Nat])
      BY <3>1, <3>2
    <3>4. PICK kept \in Seq([state : States, generation : Nat]) :
             kept = IF Len(fileStatuses) = StatusSlots THEN Tail(fileStatuses) ELSE fileStatuses
      BY <3>1, <3>3
    <3>5. fileStatuses' = Append(kept, status)
      BY <2>1, <2>3, <3>4
    <3> QED
      BY <3>5
  <2>5. FileShape'
    BY <1>1, <2>2, <2>4 DEF FileInv, FileShape
  <2> QED
    BY <1>1, <2>5, ExplorerRests
<1> QED
  BY <1>3, <1>4

\* What the storage makes of a request.
LEMMA ServeUnfolds ==
    ASSUME Serve
    PROVE  \E i \in DOMAIN listings : \E code \in {"ok", "io_error", "no_card"} :
              /\ listings[i].code = "asked" /\ listings' = [listings EXCEPT ![i].code = code]
              /\ code = "ok" => /\ listings[i].generation = fileMedium.generation
                                /\ listings[i].path \in DOMAIN Contents[fileMedium.generation]
              /\ UNCHANGED <<fileMedium, fileStatuses, where, browser, held, wanted, left>>
<1>1. PICK i \in DOMAIN listings :
         /\ listings[i].code = "asked"
         /\ LET there == fileMedium.state = "ready"
                         /\ listings[i].generation = fileMedium.generation
                found == there /\ listings[i].path \in DOMAIN Contents[fileMedium.generation]
            IN  \E code \in IF found THEN {"ok", "io_error"} ELSE IF there THEN {"io_error"}
                            ELSE {"no_card", "io_error"} :
                   listings' = [listings EXCEPT ![i].code = code]
         /\ UNCHANGED <<fileMedium, fileStatuses, explorerOnly>>
  BY Zenon DEF Serve
<1> QED
  BY <1>1 DEF explorerOnly

\* A request is served from the card that is there.
LEMMA ServeKeeps == ASSUME FileInv, Serve PROVE FileInv'
<1>1. PICK i \in DOMAIN listings, code \in {"ok", "io_error", "no_card"} :
         /\ listings[i].code = "asked" /\ listings' = [listings EXCEPT ![i].code = code]
         /\ code = "ok" => /\ listings[i].generation = fileMedium.generation
                           /\ listings[i].path \in DOMAIN Contents[fileMedium.generation]
         /\ UNCHANGED <<fileMedium, fileStatuses, where, browser, held, wanted, left>>
  BY ServeUnfolds
<1>2. /\ listings \in Seq(Requests) /\ fileMedium.generation \in 1 .. MaxMedia
  BY DEF FileInv, FileShape
<1>3. listings[i] \in Requests
  BY <1>2
<1>4. PICK served \in Requests : served = [listings[i] EXCEPT !.code = code]
  BY <1>3 DEF Requests
<1>5. /\ served.request = listings[i].request /\ served.path = listings[i].path
      /\ served.generation = listings[i].generation /\ served.code = code
  BY <1>3, <1>4 DEF Requests
<1>6. listings' = [listings EXCEPT ![i] = served]
  BY <1>1, <1>4
<1>7. /\ listings' \in Seq(Requests) /\ DOMAIN listings' = DOMAIN listings
      /\ \A j \in DOMAIN listings : listings'[j] = IF j = i THEN served ELSE listings[j]
  BY <1>2, <1>6
<1>8. \A j \in DOMAIN listings : /\ listings'[j].request = listings[j].request
                                 /\ listings'[j].path = listings[j].path
                                 /\ listings'[j].generation = listings[j].generation
  BY <1>5, <1>7
<1>9. FileShape'
  BY <1>1, <1>7 DEF FileInv, FileShape
<1>10. RequestsNumbered'
  <2>1. code = "ok" => IsListing(Brought(served))
    BY <1>1, <1>2, <1>5 DEF IsListing, Brought
  <2>2. \A j \in DOMAIN listings : listings'[j].code = "ok" => IsListing(Brought(listings'[j]))
    BY <1>5, <1>7, <2>1 DEF FileInv, RequestsNumbered
  <2> QED
    BY <1>1, <1>7, <1>8, <2>2 DEF FileInv, RequestsNumbered
<1>11. ShownIsHeld'
  BY <1>1, <1>7, <1>8 DEF FileInv, ShownIsHeld, PageCount, Listed
<1>12. PlaceIsReal' 
  BY <1>1 DEF FileInv, PlaceIsReal, PageCount, Listed
<1>13. PlaceIsKept'
  BY <1>1, <1>7, <1>8 DEF FileInv, PlaceIsKept
<1> QED
  BY <1>9, <1>10, <1>11, <1>12, <1>13 DEF FileInv

\* request_directory: an answer to an earlier request is not one to this.
LEMMA AskKeeps ==
    ASSUME FileInv, NEW b \in Browsers, NEW path \in Paths, Ask(b, path),
           b.request >= browser.request, UNCHANGED <<fileMedium, listings>>,
           fileStatuses' \in Seq([state : States, generation : Nat]), where' = "open",
           left' = NoPlace \/ (left' = left /\ path = left.path /\ b.restore = left.page)
    PROVE  FileInv'
<1>1. PICK r \in Nat : r = b.request + 1 /\ r > browser.request
  <2>1. b.request \in Nat /\ browser.request \in Nat
    BY DEF Browsers, FileInv, FileShape
  <2> QED
    BY <2>1
<1>2. PICK g \in Nat : g = fileMedium.generation
  BY DEF FileInv, FileShape
<1>3. browser' = [b EXCEPT !.selection = -1, !.request = r, !.page = 0, !.asked = g,
                           !.status = "loading"]
  BY <1>1, <1>2 DEF Ask
<1>4. /\ browser' \in Browsers /\ browser'.request = r /\ browser'.status = "loading"
      /\ browser'.restore = b.restore
  <2>1. -1 \in Nat \cup {-1} /\ 0 \in Nat
    OBVIOUS
  <2> QED
    BY <1>3, <2>1 DEF Browsers
<1>5. held' = NoListing /\ wanted' = path /\ path # NoFolder
  BY DEF Ask, Paths, Root, Folder, NoFolder
<1>6. \A i \in DOMAIN listings : listings[i].request # r /\ listings[i].request <= r
  <2>1. \A i \in DOMAIN listings : listings[i].request <= browser.request
    BY DEF FileInv, RequestsNumbered
  <2>2. \A i \in DOMAIN listings : listings[i].request \in Nat
    BY RequestsAre
  <2>3. browser.request \in Nat
    BY DEF FileInv, FileShape, Browsers
  <2> QED
    BY <1>1, <2>1, <2>2, <2>3
<1>7. FileShape'
  <2>1. NoPlace \in [path : Paths \cup {NoFolder}, page : Nat, generation : Nat]
        /\ NoListing \in [path : Paths \cup {NoFolder}, generation : Nat]
    BY DEF NoPlace, NoListing
  <2> QED
    BY <1>4, <1>5, <2>1 DEF FileInv, FileShape
<1>8. RequestsNumbered'
  BY <1>4, <1>6 DEF FileInv, RequestsNumbered
<1>9. ShownIsHeld'
  BY <1>4, <1>5, NothingListed DEF ShownIsHeld
<1>10. PlaceIsReal'
  BY DEF FileInv, PlaceIsReal, PageCount, Listed
<1>11. PlaceIsKept'
  BY <1>4, <1>5, <1>6 DEF PlaceIsKept
<1> QED
  BY <1>7, <1>8, <1>9, <1>10, <1>11 DEF FileInv

\* What is shown changes to something that is no folder, and no place is left.
LEMMA NothingShown ==
    ASSUME FileInv, NEW b \in Browsers, browser' = b, b.status # "ready",
           b.request >= browser.request, where' # "reader", left' = NoPlace,
           UNCHANGED <<fileMedium, listings>>, wanted' = NoFolder, IsListing(held'),
           held' \in [path : Paths \cup {NoFolder}, generation : Nat],
           fileStatuses' \in Seq([state : States, generation : Nat]),
           where' \in {"closed", "open"}
    PROVE  FileInv'
<1>1. \A i \in DOMAIN listings : listings[i].request <= b.request
  <2>1. \A i \in DOMAIN listings : listings[i].request <= browser.request
    BY DEF FileInv, RequestsNumbered
  <2>2. \A i \in DOMAIN listings : listings[i].request \in Nat
    BY RequestsAre
  <2>3. browser.request \in Nat /\ b.request \in Nat
    BY DEF FileInv, FileShape, Browsers
  <2> QED
    BY <2>1, <2>2, <2>3
<1>2. FileShape'
  <2>1. NoPlace \in [path : Paths \cup {NoFolder}, page : Nat, generation : Nat]
    BY DEF NoPlace
  <2> QED
    BY <2>1 DEF FileInv, FileShape
<1>3. RequestsNumbered'
  BY <1>1 DEF FileInv, RequestsNumbered
<1>4. ShownIsHeld'
  BY DEF ShownIsHeld
<1>5. PlaceIsReal' /\ PlaceIsKept'
  BY DEF PlaceIsReal, PlaceIsKept
<1> QED
  BY <1>2, <1>3, <1>4, <1>5 DEF FileInv

\* The listing the explorer wants is asked for, if the card is ready.
LEMMA SendKeeps == ASSUME FileInv, SendListing PROVE FileInv'
<1>1. /\ wanted' = NoFolder /\ wanted \in Paths /\ browser \in Browsers
      /\ browser.status # "ready" /\ browser.request \in Nat /\ listings \in Seq(Requests)
      /\ UNCHANGED <<fileMedium, fileStatuses, where, held, left>>
  BY DEF SendListing, Idle, FileInv, FileShape, ShownIsHeld, Browsers
<1>2. PlaceIsReal'
  BY <1>1 DEF FileInv, PlaceIsReal, PageCount, Listed
<1>3. CASE fileMedium.state = "ready"
  <2>1. PICK g \in Nat : g = fileMedium.generation
    BY DEF FileInv, FileShape
  <2>2. PICK request \in Requests :
           request = [path |-> wanted, request |-> browser.request, generation |-> g,
                      code |-> "asked"]
    BY <1>1 DEF Requests
  <2>3. listings' = Append(listings, request) /\ browser' = browser
    BY <1>3, <2>1, <2>2 DEF SendListing
  <2>4. /\ listings' \in Seq(Requests) /\ Len(listings') = Len(listings) + 1
        /\ DOMAIN listings' = 1 .. Len(listings) + 1 /\ DOMAIN listings = 1 .. Len(listings)
        /\ listings'[Len(listings) + 1] = request
        /\ \A i \in 1 .. Len(listings) : listings'[i] = listings[i]
    BY <1>1, <2>3
  <2>5. PICK n \in Nat : n = Len(listings)
    BY <1>1
  <2>6. /\ request.path = wanted /\ request.request = browser.request /\ request.code = "asked"
    BY <2>2
  <2>7. \A i \in 1 .. n : listings[i].request < browser.request
    <3>1. \A i \in 1 .. n : /\ listings[i].request <= browser.request
                            /\ listings[i].request # browser.request
      BY <1>1, <2>4, <2>5 DEF FileInv, RequestsNumbered, Paths, Root, Folder, NoFolder
    <3>2. \A i \in 1 .. n : listings[i].request \in Nat
      BY <2>4, <2>5, RequestsAre
    <3> QED
      BY <1>1, <3>1, <3>2
  <2>8. FileShape'
    BY <1>1, <2>3, <2>4 DEF FileInv, FileShape
  <2>9. RequestsNumbered'
    <3>1. \A i \in 1 .. n + 1 : i \in 1 .. n \/ i = n + 1
      OBVIOUS
    <3>2. \A i \in 1 .. n + 1 : listings'[i].request <= browser.request
      <4>1. \A i \in 1 .. n : listings[i].request \in Nat
        BY <2>4, <2>5, RequestsAre
      <4> QED
        BY <1>1, <2>4, <2>5, <2>6, <2>7, <3>1, <4>1
    <3>3. \A i \in 1 .. n + 1 : \A j \in 1 .. n + 1 :
             i < j => listings'[i].request < listings'[j].request
      <4>1. ASSUME NEW i \in 1 .. n + 1, NEW j \in 1 .. n + 1, i < j
            PROVE  listings'[i].request < listings'[j].request
        <5>1. i \in 1 .. n /\ listings'[i] = listings[i]
          BY <2>4, <2>5, <4>1
        <5>2. CASE j \in 1 .. n
          BY <2>4, <2>5, <4>1, <5>1, <5>2 DEF FileInv, RequestsNumbered
        <5>3. CASE j = n + 1
          BY <2>4, <2>5, <2>6, <2>7, <5>1, <5>3
        <5> QED
          BY <3>1, <5>2, <5>3
      <4> QED
        BY <4>1
    <3>4. \A i \in 1 .. n + 1 : listings'[i].code = "ok" => IsListing(Brought(listings'[i]))
      BY <2>4, <2>5, <2>6, <3>1 DEF FileInv, RequestsNumbered
    <3> QED
      BY <1>1, <2>3, <2>4, <2>5, <3>2, <3>3, <3>4 DEF RequestsNumbered
  <2>10. ShownIsHeld'
    BY <1>1, <2>3 DEF FileInv, ShownIsHeld
  <2>11. PlaceIsKept'
    <3>1. \A i \in 1 .. n + 1 : i \in 1 .. n \/ i = n + 1
      OBVIOUS
    <3>2. where = "open" => where # "reader"
      OBVIOUS
    <3>3. where # "reader"
      BY <1>1 DEF FileInv, PlaceIsKept, Paths, Root, Folder, NoFolder
    <3>4. left # NoPlace /\ where = "open" =>
             wanted = left.path /\ browser.restore = left.page
      BY <1>1 DEF FileInv, PlaceIsKept, Paths, Root, Folder, NoFolder
    <3>5. left # NoPlace /\ where = "open" =>
             \A i \in 1 .. n + 1 : listings'[i].request = browser.request =>
                listings'[i].path = left.path /\ browser.restore = left.page
      BY <1>1, <2>4, <2>5, <2>6, <3>1, <3>4 DEF FileInv, PlaceIsKept
    <3> QED
      BY <1>1, <2>3, <2>4, <2>5, <3>3, <3>5 DEF PlaceIsKept
  <2> QED
    BY <1>2, <2>8, <2>9, <2>10, <2>11 DEF FileInv
<1>4. CASE fileMedium.state # "ready"
  <2>1. /\ browser' = [browser EXCEPT !.status = "no_card"] /\ listings' = listings
        /\ browser' \in Browsers /\ browser'.status = "no_card"
        /\ browser'.request = browser.request /\ browser'.restore = browser.restore
        /\ browser'.path = browser.path /\ browser'.back = browser.back
    BY <1>1, <1>4 DEF SendListing, Browsers
  <2>2. FileShape'
    BY <1>1, <2>1 DEF FileInv, FileShape
  <2>3. RequestsNumbered'
    BY <1>1, <2>1 DEF FileInv, RequestsNumbered
  <2>4. ShownIsHeld'
    BY <1>1, <2>1 DEF FileInv, ShownIsHeld
  <2>5. PlaceIsKept'
    BY <1>1, <2>1 DEF FileInv, PlaceIsKept
  <2> QED
    BY <1>2, <2>2, <2>3, <2>4, <2>5 DEF FileInv
<1> QED
  BY <1>3, <1>4

\* The explorer opened anew, as it was left if the Reader returns to it.
LEMMA OpenKeeps == ASSUME FileInv, OpenFile PROVE FileInv'
<1>1. /\ browser \in Browsers /\ browser.request \in Nat /\ fileMedium.state \in States
      /\ wanted = NoFolder /\ where' = "open"
      /\ UNCHANGED <<fileMedium, fileStatuses, listings, left>>
  BY DEF OpenFile, Idle, serviceOnly, FileInv, FileShape, Browsers
<1>2. PICK b : b = Reopened(browser)
  OBVIOUS
<1>3. PICK r \in Nat : r = browser.request + 1 /\ r >= browser.request
  BY <1>1
<1>4. PICK p \in Paths : p = IF browser.back THEN browser.path ELSE Root
  BY <1>1 DEF Browsers, Paths
<1>5. PICK restore \in Nat : restore = IF browser.back THEN browser.restore ELSE 0
  BY <1>1 DEF Browsers
<1>6. PICK status \in {"loading", "no_card", "mounting", "error"} :
         status = ViewStatus(fileMedium.state)
  BY <1>1 DEF ViewStatus, States
<1>7. b = [browser EXCEPT !.path = p, !.restore = restore, !.request = r, !.selection = -1,
                          !.page = 0, !.status = status]
  BY <1>2, <1>3, <1>4, <1>5, <1>6 DEF Reopened
<1>8. /\ b \in Browsers /\ b.request = r /\ b.path = p /\ b.restore = restore
      /\ b.status = status
  <2>1. -1 \in Nat \cup {-1} /\ 0 \in Nat
    OBVIOUS
  <2> QED
    BY <1>1, <1>7, <2>1 DEF Browsers
<1>9. left = NoPlace \/ (p = left.path /\ restore = left.page)
  <2>1. CASE where = "closed"
    BY <2>1 DEF FileInv, PlaceIsReal
  <2>2. CASE where = "reader"
    BY <1>4, <1>5, <2>2 DEF FileInv, PlaceIsKept
  <2> QED
    BY <2>1, <2>2 DEF OpenFile
<1>10. fileStatuses' \in Seq([state : States, generation : Nat])
  BY <1>1 DEF FileInv, FileShape
<1>11. CASE fileMedium.state = "ready"
  <2>1. Ask(b, p)
    BY <1>2, <1>8, <1>11 DEF OpenFile
  <2>2. b.request >= browser.request
    BY <1>3, <1>8
  <2>3. left' = NoPlace \/ (left' = left /\ p = left.path /\ b.restore = left.page)
    BY <1>1, <1>8, <1>9
  <2> QED
    BY <1>1, <1>8, <1>10, <2>1, <2>2, <2>3, AskKeeps
<1>12. CASE fileMedium.state # "ready"
  <2>1. browser' = b /\ held' = NoListing /\ wanted' = NoFolder
    BY <1>1, <1>2, <1>12 DEF OpenFile
  <2>2. \A i \in DOMAIN listings : listings[i].request # r /\ listings[i].request <= r
    <3>1. \A i \in DOMAIN listings : listings[i].request <= browser.request
      BY DEF FileInv, RequestsNumbered
    <3>2. \A i \in DOMAIN listings : listings[i].request \in Nat
      BY RequestsAre
    <3> QED
      BY <1>1, <1>3, <3>1, <3>2
  <2>3. FileShape'
    <3>1. NoListing \in [path : Paths \cup {NoFolder}, generation : Nat]
      BY DEF NoListing
    <3> QED
      BY <1>1, <1>8, <2>1, <3>1 DEF FileInv, FileShape
  <2>4. RequestsNumbered'
    BY <1>1, <1>8, <2>1, <2>2 DEF FileInv, RequestsNumbered
  <2>5. ShownIsHeld'
    BY <1>8, <2>1, NothingListed DEF ShownIsHeld
  <2>6. PlaceIsReal'
    BY <1>1 DEF FileInv, PlaceIsReal, PageCount, Listed
  <2>7. PlaceIsKept'
    BY <1>1, <1>8, <2>1, <2>2 DEF PlaceIsKept
  <2> QED
    BY <2>3, <2>4, <2>5, <2>6, <2>7 DEF FileInv
<1> QED
  BY <1>11, <1>12

\* The explorer is left and keeps no listing.
LEMMA LeaveKeeps == ASSUME FileInv, LeaveFile PROVE FileInv'
<1>1. /\ browser \in Browsers /\ browser.request \in Nat /\ wanted' = NoFolder
      /\ where' = "closed" /\ held' = NoListing /\ left' = NoPlace
      /\ UNCHANGED <<fileMedium, fileStatuses, listings>>
  BY DEF LeaveFile, Open, Idle, serviceOnly, FileInv, FileShape, Browsers
<1>2. PICK r \in Nat : r = browser.request + 1 /\ r >= browser.request
  BY <1>1
<1>3. PICK p \in Paths : p = IF browser.back THEN browser.path ELSE Root
  BY <1>1 DEF Browsers, Paths
<1>4. browser' = [browser EXCEPT !.request = r, !.path = p, !.selection = -1, !.page = 0,
                                 !.status = "no_card"]
  BY <1>2, <1>3 DEF LeaveFile, Closed
<1>5. PICK b \in Browsers : b = browser' /\ b.request = r /\ b.status = "no_card"
  <2>1. -1 \in Nat \cup {-1} /\ 0 \in Nat
    OBVIOUS
  <2>2. browser' \in Browsers /\ browser'.request = r /\ browser'.status = "no_card"
    BY <1>1, <1>4, <2>1 DEF Browsers
  <2> QED
    BY <2>2
<1>6. /\ NoListing \in [path : Paths \cup {NoFolder}, generation : Nat]
      /\ fileStatuses' \in Seq([state : States, generation : Nat])
  BY <1>1 DEF NoListing, FileInv, FileShape
<1> QED
  BY <1>1, <1>2, <1>5, <1>6, NothingListed, NothingShown

\* Another page of what is shown.
LEMMA PageKeeps ==
    ASSUME FileInv, Open, NEW page \in Nat, NEW selected \in Nat \cup {-1},
           browser' = [browser EXCEPT !.selection = selected, !.page = page],
           page < PageCount(held), selected # -1 => selected \div RowCount = page,
           left' = NoPlace,
           UNCHANGED <<fileMedium, fileStatuses, listings, where, held, wanted>>
    PROVE  FileInv'
<1>1. /\ browser' \in Browsers /\ browser'.page = page /\ browser'.selection = selected
      /\ browser'.status = browser.status /\ browser'.path = browser.path
      /\ browser'.asked = browser.asked /\ browser'.request = browser.request
  BY DEF FileInv, FileShape, Browsers
<1>2. where' = "open"
  BY DEF Open
<1>3. FileShape'
  <2>1. NoPlace \in [path : Paths \cup {NoFolder}, page : Nat, generation : Nat]
    BY DEF NoPlace
  <2> QED
    BY <1>1, <2>1 DEF FileInv, FileShape
<1>4. RequestsNumbered'
  BY <1>1 DEF FileInv, RequestsNumbered
<1>5. ShownIsHeld'
  BY <1>1 DEF FileInv, ShownIsHeld, PageCount, Listed
<1>6. PlaceIsReal' /\ PlaceIsKept'
  BY <1>2 DEF PlaceIsReal, PlaceIsKept
<1> QED
  BY <1>3, <1>4, <1>5, <1>6 DEF FileInv

\* Pages and rows are moved within the listing.
LEMMA MovesKeep == ASSUME FileInv, TurnFilePage \/ MoveRow PROVE FileInv'
<1>1. IsListing(held)
  BY DEF FileInv, ShownIsHeld
<1>2. PICK n \in Nat : n = Len(Listed(held))
  BY <1>1, PagesOf
<1>3. PageCount(held) \in Nat /\ 0 < PageCount(held)
      /\ \A row \in 0 .. n : row \div RowCount \in Nat /\ row \div RowCount < PageCount(held)
  BY <1>1, <1>2, PagesOf
<1>4. CASE TurnFilePage
  <2>1. PICK page \in 0 .. PageCount(held) - 1 :
           browser' = [browser EXCEPT !.page = page, !.selection = -1]
    BY <1>4 DEF TurnFilePage
  <2>2. page \in Nat /\ page < PageCount(held)
    BY <1>3
  <2>3. browser' = [browser EXCEPT !.selection = -1, !.page = page]
    BY <2>1
  <2>4. PICK none \in Nat \cup {-1} : none = -1
    OBVIOUS
  <2> QED
    BY <1>4, <2>2, <2>3, <2>4, PageKeeps DEF TurnFilePage, serviceOnly
<1>5. CASE MoveRow
  <2>1. PICK first \in {0, 1} : first = IF browser.path = Root THEN 1 ELSE 0
    OBVIOUS
  <2>2. PICK at \in Nat \cup {-1} : at = browser.selection
    BY DEF FileInv, FileShape, Browsers
  <2>3. PICK row : /\ first <= n
                   /\ row \in {IF at \in first + 1 .. n THEN at - 1 ELSE n,
                               IF at \in first .. n - 1 THEN at + 1 ELSE first}
                   /\ browser' = [browser EXCEPT !.selection = row, !.page = row \div RowCount]
    BY <1>2, <1>5, <2>1, <2>2 DEF MoveRow
  <2>4. row \in 0 .. n
    BY <2>3
  <2>5. row \in Nat /\ row \div RowCount \in Nat /\ row \div RowCount < PageCount(held)
    BY <1>3, <2>4
  <2> QED
    BY <1>5, <2>3, <2>5, PageKeeps DEF MoveRow, serviceOnly
<1> QED
  BY <1>4, <1>5

\* A folder is entered or left, or a book is chosen.
LEMMA ActivateKeeps == ASSUME FileInv, ActivateAnyRow PROVE FileInv'
<1>1. PICK item : ActivateRow(item)
  BY DEF ActivateAnyRow
<1>2. /\ browser \in Browsers /\ browser.request \in Nat /\ where = "open" /\ wanted = NoFolder
      /\ left' = NoPlace /\ IsListing(held)
      /\ held \in [path : Paths \cup {NoFolder}, generation : Nat]
      /\ fileStatuses \in Seq([state : States, generation : Nat])
      /\ UNCHANGED <<fileMedium, fileStatuses, listings, where>>
  BY <1>1
     DEF ActivateRow, Open, Idle, serviceOnly, FileInv, FileShape, ShownIsHeld, Browsers
<1>3. browser.request >= browser.request
  BY <1>2
<1>4. CASE Stale
  <2>1. PICK b \in Browsers : /\ b = [browser EXCEPT !.status = "directory_error"]
                              /\ b.status = "directory_error" /\ b.request = browser.request
    <3>1. PICK b : b = [browser EXCEPT !.status = "directory_error"]
      OBVIOUS
    <3>2. b \in Browsers /\ b.status = "directory_error" /\ b.request = browser.request
      BY <1>2, <3>1 DEF Browsers
    <3> QED
      BY <3>1, <3>2
  <2>2. browser' = b /\ UNCHANGED <<held, wanted>>
    BY <1>1, <1>4, <2>1 DEF ActivateRow
  <2> QED
    BY <1>2, <1>3, <2>1, <2>2, NothingShown
<1>5. CASE ~ Stale
  <2>1. Ask(browser, Root) \/ Ask(browser, Folder)
    BY <1>1, <1>5 DEF ActivateRow
  <2>2. Root \in Paths /\ Folder \in Paths
    BY DEF Paths
  <2> QED
    BY <1>2, <1>3, <2>1, <2>2, AskKeeps
<1> QED
  BY <1>4, <1>5

\* A book is launched, and the place in the explorer is remembered.
LEMMA LaunchKeeps == ASSUME FileInv, LaunchBook PROVE FileInv'
<1>1. /\ browser \in Browsers /\ browser.request \in Nat /\ browser.path \in Paths
      /\ browser.page \in Nat /\ browser.status = "ready"
      /\ wanted = NoFolder /\ wanted' = NoFolder /\ where' = "reader" /\ held' = NoListing
      /\ UNCHANGED <<fileMedium, fileStatuses, listings>>
  BY DEF LaunchBook, Open, Idle, Stale, serviceOnly, FileInv, FileShape, Browsers
<1>2. PICK r \in Nat : r = browser.request + 1 /\ r >= browser.request
  BY <1>1
<1>3. PICK b : b = [browser EXCEPT !.restore = browser.page, !.back = TRUE]
  OBVIOUS
<1>4. /\ browser' \in Browsers /\ browser'.request = r /\ browser'.status = "no_card"
      /\ browser'.path = browser.path /\ browser'.back /\ browser'.restore = browser.page
  <2>1. -1 \in Nat \cup {-1} /\ 0 \in Nat
    OBVIOUS
  <2>2. /\ b \in Browsers /\ b.back = TRUE /\ b.path = browser.path
        /\ b.request = browser.request /\ b.restore = browser.page
    BY <1>1, <1>3 DEF Browsers
  <2>3. browser' = [b EXCEPT !.request = r, !.path = b.path, !.selection = -1, !.page = 0,
                             !.status = "no_card"]
    <3>1. browser' = Closed(b)
      BY <1>3 DEF LaunchBook
    <3> QED
      BY <1>2, <2>2, <3>1 DEF Closed
  <2>4. b.path \in Paths
    BY <1>1, <2>2
  <2> QED
    BY <2>1, <2>2, <2>3, <2>4 DEF Browsers
<1>5. PICK g \in Nat : g = fileMedium.generation
  BY DEF FileInv, FileShape
<1>6. left' = [path |-> browser.path, page |-> browser.page, generation |-> g]
  BY <1>5 DEF LaunchBook
<1>7. held = [path |-> browser.path, generation |-> g] /\ held # NoListing
      /\ browser.page < PageCount(held)
  <2>1. held \in [path : Paths \cup {NoFolder}, generation : Nat]
    BY DEF FileInv, FileShape
  <2>2. held.path = browser.path /\ held.generation = g /\ held # NoListing
        /\ browser.page < PageCount(held)
    BY <1>1, <1>5 DEF LaunchBook, Stale, FileInv, ShownIsHeld
  <2> QED
    BY <2>1, <2>2
<1>8. \A i \in DOMAIN listings : listings[i].request <= r
  <2>1. \A i \in DOMAIN listings : listings[i].request <= browser.request
    BY DEF FileInv, RequestsNumbered
  <2>2. \A i \in DOMAIN listings : listings[i].request \in Nat
    BY RequestsAre
  <2> QED
    BY <1>1, <1>2, <2>1, <2>2
<1>9. FileShape'
  <2>1. NoListing \in [path : Paths \cup {NoFolder}, generation : Nat]
    BY DEF NoListing
  <2>2. left' \in [path : Paths \cup {NoFolder}, page : Nat, generation : Nat]
    BY <1>1, <1>6
  <2> QED
    BY <1>1, <1>4, <2>1, <2>2 DEF FileInv, FileShape
<1>10. RequestsNumbered'
  BY <1>1, <1>4, <1>8 DEF FileInv, RequestsNumbered
<1>11. ShownIsHeld'
  BY <1>1, <1>4, NothingListed DEF ShownIsHeld
<1>12. left'.path = browser.path /\ left'.page = browser.page /\ left'.generation = g
  BY <1>6
<1>13. PlaceIsReal'
  <2>1. IsListing([path |-> left'.path, generation |-> left'.generation])
        /\ left'.page < PageCount([path |-> left'.path, generation |-> left'.generation])
    BY <1>7, <1>12 DEF FileInv, ShownIsHeld
  <2> QED
    BY <1>1, <1>12, <2>1 DEF PlaceIsReal, IsListing, PageCount, Listed
<1>14. PlaceIsKept'
  <2>1. left' # NoPlace
    BY <1>1, <1>6 DEF NoPlace, Paths, Root, Folder, NoFolder
  <2> QED
    BY <1>1, <1>4, <1>12, <2>1 DEF PlaceIsKept
<1> QED
  BY <1>9, <1>10, <1>11, <1>13, <1>14 DEF FileInv

\* The oldest element of a queue.
LEMMA OldestStatus ==
    ASSUME NEW S, NEW q \in Seq(S), q # <<>> PROVE Head(q) \in S
  OBVIOUS

\* The state of the card is told: the explorer starts at the root again.
LEMMA StatusKeeps == ASSUME FileInv, TakeStatus PROVE FileInv'
<1>1. /\ browser \in Browsers /\ browser.request \in Nat /\ wanted = NoFolder
      /\ fileStatuses \in Seq([state : States, generation : Nat]) /\ fileStatuses # <<>>
      /\ UNCHANGED <<fileMedium, listings, where>>
  BY DEF TakeStatus, Idle, FileInv, FileShape, Browsers
<1>2. PICK status \in [state : States, generation : Nat] : status = Head(fileStatuses)
  <2>1. Head(fileStatuses) \in [state : States, generation : Nat]
    BY <1>1, OldestStatus
  <2> QED
    BY <2>1, Zenon
<1>3. fileStatuses' \in Seq([state : States, generation : Nat])
  BY <1>1 DEF TakeStatus
<1>4. CASE where = "open" /\ Current(status)
  <2>1. PICK view \in {"loading", "no_card", "mounting", "error"} :
           view = ViewStatus(status.state)
    BY DEF ViewStatus, States
  <2>2. PICK g \in Nat : g = status.generation
    OBVIOUS
  <2>3. PICK b : b = [browser EXCEPT !.back = FALSE, !.selection = -1, !.restore = 0,
                                     !.asked = g, !.path = Root, !.page = 0, !.status = view]
    OBVIOUS
  <2>4. b \in Browsers /\ b.request = browser.request /\ b.status = view
    <3>1. -1 \in Nat \cup {-1} /\ 0 \in Nat /\ Root \in Paths
      BY DEF Paths
    <3> QED
      BY <1>1, <2>3, <3>1 DEF Browsers
  <2>5. b.request >= browser.request
    BY <1>1, <2>4
  <2>6. left' = NoPlace /\ (Ask(b, Root) \/ (/\ browser' = b /\ held' = NoListing
                                             /\ UNCHANGED wanted))
    BY <1>2, <1>4, <2>1, <2>2, <2>3 DEF TakeStatus
  <2>7. CASE Ask(b, Root)
    <3>1. Root \in Paths
      BY DEF Paths
    <3> QED
      BY <1>1, <1>3, <1>4, <2>4, <2>5, <2>6, <2>7, <3>1, AskKeeps
  <2>8. CASE browser' = b /\ held' = NoListing /\ UNCHANGED wanted
    <3>1. NoListing \in [path : Paths \cup {NoFolder}, generation : Nat]
      BY DEF NoListing
    <3> QED
      BY <1>1, <1>3, <1>4, <2>4, <2>5, <2>6, <2>8, <3>1, NothingListed, NothingShown
  <2> QED
    BY <2>6, <2>7, <2>8
<1>5. CASE ~ (where = "open" /\ Current(status))
  <2>1. UNCHANGED <<browser, held, wanted, left>>
    BY <1>2, <1>5 DEF TakeStatus
  <2>2. FileShape'
    BY <1>1, <1>3, <2>1 DEF FileInv, FileShape
  <2> QED
    BY <1>1, <2>1, <2>2, ExplorerRests
<1> QED
  BY <1>4, <1>5

\* The answers after the first are to later requests.
LEMMA AnswersAfter ==
    ASSUME FileInv, listings # <<>>, listings' = Tail(listings), UNCHANGED wanted,
           browser'.request = browser.request
    PROVE  /\ listings' \in Seq(Requests) /\ Head(listings) \in Requests
           /\ Head(listings) = listings[1] /\ 1 \in DOMAIN listings
           /\ \A i \in DOMAIN listings' :
                 /\ i + 1 \in DOMAIN listings /\ listings'[i] = listings[i + 1]
                 /\ Head(listings).request < listings'[i].request
                 /\ listings'[i].request <= browser.request
           /\ RequestsNumbered'
<1>1. listings \in Seq(Requests)
  BY DEF FileInv, FileShape
<1>2. PICK n \in Nat : n = Len(listings) /\ n # 0
  BY <1>1
<1>3. /\ listings' \in Seq(Requests) /\ Head(listings) \in Requests
      /\ Head(listings) = listings[1] /\ DOMAIN listings = 1 .. n /\ 1 \in 1 .. n
      /\ Len(listings') = n - 1 /\ DOMAIN listings' = 1 .. n - 1
      /\ \A i \in 1 .. n - 1 : i + 1 \in 1 .. n /\ listings'[i] = listings[i + 1]
  BY <1>1, <1>2
<1>4. \A i \in 1 .. n - 1 : /\ Head(listings).request < listings'[i].request
                            /\ listings'[i].request <= browser.request
  <2>1. \A i \in 1 .. n - 1 : i + 1 \in 1 .. n /\ 1 < i + 1
    OBVIOUS
  <2> QED
    BY <1>3, <2>1 DEF FileInv, RequestsNumbered
<1>5. RequestsNumbered'
  <2>1. \A i \in 1 .. n - 1 : \A j \in 1 .. n - 1 :
           i < j => listings'[i].request < listings'[j].request
    <3>1. \A i \in 1 .. n - 1 : \A j \in 1 .. n - 1 : i < j => i + 1 < j + 1
      OBVIOUS
    <3> QED
      BY <1>3, <3>1 DEF FileInv, RequestsNumbered
  <2>2. wanted # NoFolder =>
           \A i \in 1 .. n - 1 : listings'[i].request # browser.request
    BY <1>3 DEF FileInv, RequestsNumbered
  <2>3. \A i \in 1 .. n - 1 : listings'[i].code = "ok" => IsListing(Brought(listings'[i]))
    BY <1>3 DEF FileInv, RequestsNumbered
  <2> QED
    BY <1>3, <1>4, <2>1, <2>2, <2>3 DEF RequestsNumbered
<1> QED
  BY <1>3, <1>4, <1>5

\* An answer the explorer does not take is gone; one it takes is shown, on the page to
\* restore if there is one.
LEMMA ListingKeeps == ASSUME FileInv, TakeListing PROVE FileInv'
<1>1. /\ browser \in Browsers /\ browser.request \in Nat /\ browser.restore \in Nat
      /\ wanted = NoFolder /\ wanted' = NoFolder /\ listings # <<>>
      /\ listings' = Tail(listings)
      /\ UNCHANGED <<fileMedium, fileStatuses, where, left>>
  BY DEF TakeListing, Idle, FileInv, FileShape, Browsers
<1>2. PICK result : result = Head(listings)
  OBVIOUS
<1>3. CASE ~ (where = "open" /\ Takes(result))
  <2>1. UNCHANGED <<browser, held>>
    BY <1>2, <1>3 DEF TakeListing
  <2>2. /\ listings' \in Seq(Requests) /\ RequestsNumbered'
        /\ \A i \in DOMAIN listings' : /\ i + 1 \in DOMAIN listings
                                       /\ listings'[i] = listings[i + 1]
    BY <1>1, <2>1, AnswersAfter
  <2>3. FileShape'
    BY <1>1, <2>1, <2>2 DEF FileInv, FileShape
  <2>4. ShownIsHeld'
    BY <1>1, <2>1, <2>2 DEF FileInv, ShownIsHeld, PageCount, Listed
  <2>5. PlaceIsReal'
    BY <1>1 DEF FileInv, PlaceIsReal, PageCount, Listed
  <2>6. PlaceIsKept'
    BY <1>1, <2>1, <2>2 DEF FileInv, PlaceIsKept
  <2> QED
    BY <2>2, <2>3, <2>4, <2>5, <2>6 DEF FileInv
<1>4. CASE where = "open" /\ Takes(result)
  <2>1. PICK listing : listing = IF result.code = "ok" THEN Brought(result) ELSE NoListing
    OBVIOUS
  <2>2. PICK page : page = IF browser.restore < PageCount(listing) THEN browser.restore
                           ELSE PageCount(listing) - 1
    OBVIOUS
  <2>3. /\ held' = listing
        /\ browser' = IF result.code = "no_card" THEN browser
                      ELSE [browser EXCEPT
                               !.path = IF result.code = "ok" THEN result.path ELSE @,
                               !.status = IF result.code = "ok" THEN "ready"
                                          ELSE "directory_error",
                               !.selection = -1, !.page = page, !.restore = 0,
                               !.back = FALSE]
    BY <1>2, <1>4, <2>1, <2>2 DEF TakeListing, Brought
  <2>4. /\ 1 \in DOMAIN listings /\ result = listings[1] /\ result \in Requests
        /\ result.path \in Paths /\ result.generation \in Nat
        /\ result.request = browser.request /\ result.generation = browser.asked
    <3>1. listings \in Seq(Requests)
      BY DEF FileInv, FileShape
    <3>2. 1 \in DOMAIN listings /\ result = listings[1] /\ result \in Requests
      BY <1>1, <1>2, <3>1
    <3> QED
      BY <1>4, <3>2 DEF Takes, Requests
  <2>5. browser.status # "ready"
    BY <2>4 DEF FileInv, ShownIsHeld
  <2>6. IsListing(listing) /\ listing \in [path : Paths \cup {NoFolder}, generation : Nat]
    <3>1. result.code = "ok" => IsListing(Brought(result))
      BY <2>4 DEF FileInv, RequestsNumbered
    <3> QED
      BY <2>1, <2>4, <3>1, NothingListed DEF Brought, NoListing
  <2>7. PageCount(listing) \in Nat /\ 0 < PageCount(listing)
    BY <2>6, PagesOf
  <2>8. page \in Nat /\ page < PageCount(listing)
    BY <1>1, <2>2, <2>7
  <2>9. left # NoPlace => result.path = left.path /\ browser.restore = left.page
    BY <1>4, <2>4, <2>5 DEF FileInv, PlaceIsKept
  <2>10. PlaceIsReal'
    BY <1>1 DEF FileInv, PlaceIsReal, PageCount, Listed
  <2>11. CASE result.code = "no_card"
    <3>1. browser' = browser /\ held' = NoListing
      BY <2>1, <2>3, <2>11
    <3>2. /\ listings' \in Seq(Requests) /\ RequestsNumbered'
          /\ \A i \in DOMAIN listings' : /\ i + 1 \in DOMAIN listings
                                         /\ listings'[i] = listings[i + 1]
      BY <1>1, <3>1, AnswersAfter
    <3>3. FileShape'
      BY <1>1, <2>3, <2>6, <3>1, <3>2 DEF FileInv, FileShape
    <3>4. ShownIsHeld'
      BY <2>5, <3>1, NothingListed DEF ShownIsHeld
    <3>5. PlaceIsKept'
      BY <1>1, <1>4, <2>5, <3>1, <3>2 DEF FileInv, PlaceIsKept
    <3> QED
      BY <2>10, <3>2, <3>3, <3>4, <3>5 DEF FileInv
  <2>12. CASE result.code # "no_card"
    <3>1. PICK path \in Paths : path = IF result.code = "ok" THEN result.path ELSE browser.path
      BY <1>1, <2>4 DEF Browsers
    <3>2. PICK status \in {"ready", "directory_error"} :
             status = IF result.code = "ok" THEN "ready" ELSE "directory_error"
      OBVIOUS
    <3>3. browser' = [browser EXCEPT !.path = path, !.status = status, !.selection = -1,
                                     !.page = page, !.restore = 0, !.back = FALSE]
      BY <2>3, <2>12, <3>1, <3>2
    <3>4. /\ browser' \in Browsers /\ browser'.path = path /\ browser'.status = status
          /\ browser'.selection = -1 /\ browser'.page = page
          /\ browser'.request = browser.request /\ browser'.asked = browser.asked
      <4>1. -1 \in Nat \cup {-1} /\ 0 \in Nat
        OBVIOUS
      <4> QED
        BY <1>1, <2>8, <3>3, <4>1 DEF Browsers
    <3>5. /\ listings' \in Seq(Requests) /\ RequestsNumbered' /\ result = Head(listings)
          /\ \A i \in DOMAIN listings' : /\ result.request < listings'[i].request
                                         /\ listings'[i].request <= browser.request
      BY <1>1, <1>2, <3>4, AnswersAfter
    <3>6. \A i \in DOMAIN listings' : FALSE
      <4>1. \A i \in DOMAIN listings' : listings'[i].request \in Nat
        <5>1. ASSUME NEW i \in DOMAIN listings' PROVE listings'[i].request \in Nat
          <6>1. listings'[i] \in Requests
            BY <3>5
          <6> QED
            BY <6>1 DEF Requests
        <5> QED
          BY <5>1
      <4> QED
        BY <1>1, <2>4, <3>5, <4>1
    <3>7. FileShape'
      BY <1>1, <2>3, <2>6, <3>4, <3>5 DEF FileInv, FileShape
    <3>8. ShownIsHeld'
      <4>1. IsListing(held')
        BY <2>3, <2>6
      <4>2. status = "ready" => held'.path = path /\ held'.generation = browser.asked
        BY <2>1, <2>3, <2>4, <3>1, <3>2 DEF Brought
      <4>3. page < PageCount(held')
        BY <2>3, <2>8
      <4> QED
        BY <1>1, <1>4, <3>4, <3>6, <4>1, <4>2, <4>3 DEF ShownIsHeld, IsListing, PageCount, Listed
    <3>9. PlaceIsKept'
      <4>1. ASSUME left # NoPlace, status = "ready", listing.generation = left.generation
            PROVE  path = left.path /\ page = left.page
        <5>1. path = left.path /\ listing = [path |-> left.path, generation |-> left.generation]
          BY <2>1, <2>9, <3>1, <3>2, <4>1 DEF Brought
        <5>2. left.page < PageCount(listing)
          BY <4>1, <5>1 DEF FileInv, PlaceIsReal
        <5> QED
          BY <2>2, <2>9, <4>1, <5>1, <5>2
      <4> QED
        BY <1>1, <1>4, <2>3, <3>4, <3>6, <4>1 DEF PlaceIsKept
    <3> QED
      BY <2>10, <3>5, <3>7, <3>8, <3>9 DEF FileInv
  <2> QED
    BY <2>11, <2>12
<1> QED
  BY <1>3, <1>4

\* The explorer shows the folder it asked for, its selection on the page shown, and when
\* the Reader returns to it the folder and the page it was left at (activate_row,
\* on_open, on_close, handle_directory_result).
THEOREM FileReturnsToPlace == FileSpec => []ReturnsToPlace
<1>1. FileInit => FileInv
  <2>1. SUFFICES ASSUME FileInit PROVE FileInv
    OBVIOUS
  <2>2. /\ listings = <<>> /\ DOMAIN listings = {} /\ where = "closed" /\ left = NoPlace
        /\ held = NoListing /\ wanted = NoFolder /\ browser.status = "no_card"
    BY <2>1 DEF FileInit
  <2>3. FileShape
    <3>1. 1 \in 1 .. MaxMedia /\ -1 \in Nat \cup {-1} /\ Root \in Paths
      BY FileAssumption DEF Paths
    <3>2. browser \in Browsers
      BY <2>1, <3>1 DEF FileInit, Browsers
    <3>3. NoPlace \in [path : Paths \cup {NoFolder}, page : Nat, generation : Nat]
          /\ NoListing \in [path : Paths \cup {NoFolder}, generation : Nat]
      BY DEF NoPlace, NoListing
    <3> QED
      BY <2>1, <3>1, <3>2, <3>3 DEF FileInit, FileShape, States
  <2>4. RequestsNumbered /\ ShownIsHeld /\ PlaceIsReal /\ PlaceIsKept
    BY <2>2, NothingListed DEF RequestsNumbered, ShownIsHeld, PlaceIsReal, PlaceIsKept
  <2> QED
    BY <2>3, <2>4 DEF FileInv
<1>2. FileInv /\ [FileNext]_fileVars => FileInv'
  <2>1. ASSUME FileInv, UNCHANGED fileVars PROVE FileInv'
    <3>1. FileShape' /\ UNCHANGED <<where, browser, held, wanted, left, listings>>
      BY <2>1 DEF fileVars, FileInv, FileShape
    <3> QED
      BY <2>1, <3>1, ExplorerRests
  <2> QED
    BY <2>1, ServiceKeeps, ServeKeeps, SendKeeps, OpenKeeps, LeaveKeeps, MovesKeep,
       ActivateKeeps, LaunchKeeps, StatusKeeps, ListingKeeps DEF FileNext
<1>3. FileInv => ReturnsToPlace
  BY DEF FileInv, ShownIsHeld, PlaceIsKept, ReturnsToPlace
<1> QED
  BY <1>1, <1>2, <1>3, PTL DEF FileSpec

-----------------------------------------------------------------------------
(* The clock.  While the main loop holds a copy of the cache, the copy is  *)
(* the cache itself or an older generation of it; the rest is arithmetic   *)
(* of a tick counter that wraps.                                           *)

\* A number is its quotient times the divisor and the rest,
LEMMA DivMod ==
    ASSUME NEW a \in Int, NEW m \in Nat \ {0}
    PROVE  a % m \in 0 .. m - 1 /\ a \div m \in Int /\ a = m * (a \div m) + (a % m)
  OBVIOUS

\* and no other.
LEMMA ModUnique ==
    ASSUME NEW a \in Int, NEW m \in Nat \ {0}, NEW q \in Int, NEW r \in 0 .. m - 1,
           a = m * q + r
    PROVE  a % m = r
  OBVIOUS

\* The quotient of a by m need not be exact: s may be any remainder.
Splits(a, m, q, s) == a = m * q + s

\* Whole moduli may be added.
LEMMA ModShift ==
    ASSUME NEW m \in Nat \ {0}, NEW q \in Int, NEW s \in Int, NEW a \in Int, Splits(a, m, q, s)
    PROVE  a % m = s % m
<1>1. /\ s % m \in 0 .. m - 1 /\ s \div m \in Int /\ s = m * (s \div m) + (s % m)
  BY DivMod
<1>2. PICK k \in Int : k = s \div m
  BY <1>1
<1>3. PICK r \in 0 .. m - 1 : r = s % m
  BY <1>1
<1>4. PICK p \in Int : p = q + k
  OBVIOUS
<1>5. a = m * p + r
  BY <1>1, <1>2, <1>3, <1>4 DEF Splits
<1> QED
  BY <1>3, <1>4, <1>5, ModUnique

\* A sum may be wrapped before a term is added,
LEMMA ModAdd ==
    ASSUME NEW a \in Int, NEW b \in Int, NEW m \in Nat \ {0}
    PROVE  ((a % m) + b) % m = (a + b) % m
<1>1. /\ a % m \in 0 .. m - 1 /\ a \div m \in Int /\ a = m * (a \div m) + (a % m)
  BY DivMod
<1>2. PICK q \in Int : q = a \div m
  BY <1>1
<1>3. PICK t \in Int : t = (a % m) + b
  BY <1>1
<1>4. PICK u \in Int : u = a + b
  OBVIOUS
<1>5. Splits(u, m, q, t)
  BY <1>1, <1>2, <1>3, <1>4 DEF Splits
<1>6. u % m = t % m
  BY <1>5, ModShift
<1> QED
  BY <1>3, <1>4, <1>6

\* and the distance of two wrapped values is at most that of the values.
LEMMA ModGap ==
    ASSUME NEW x \in Int, NEW n \in Int, x <= n, NEW m \in Nat \ {0}
    PROVE  ((n % m) - (x % m)) % m \in 0 .. n - x
<1>1. /\ x % m \in 0 .. m - 1 /\ x \div m \in Int /\ x = m * (x \div m) + (x % m)
      /\ n % m \in 0 .. m - 1 /\ n \div m \in Int /\ n = m * (n \div m) + (n % m)
  BY DivMod
<1>2. (n \div m) - (x \div m) \in Int /\ (n % m) - (x % m) \in Int
  BY DivMod
<1>3. PICK p \in Int : p = (n \div m) - (x \div m)
  BY <1>2
<1>4. PICK e \in Int : e = (n % m) - (x % m)
  BY <1>2
<1>5. PICK d \in Int : d = n - x /\ d >= 0
  OBVIOUS
<1>6. Splits(d, m, p, e)
  BY <1>1, <1>3, <1>4, <1>5 DEF Splits
<1>7. d % m = e % m
  BY <1>6, ModShift
<1>8. d % m \in 0 .. m - 1 /\ d \div m \in Int /\ d = m * (d \div m) + (d % m)
  BY <1>5, DivMod
<1>9. d % m <= d
  BY <1>5, <1>8
<1> QED
  BY <1>4, <1>5, <1>7, <1>8, <1>9

RtcRequests == [write : BOOLEAN, session : Nat, time : Int]
RtcAnswers == [write : BOOLEAN, session : Nat, success : BOOLEAN]
RtcCaches == [time : Int, tick : Nat, generation : Nat, valid : BOOLEAN]

RtcShape ==
    /\ now \in Nat /\ chip \in Int /\ sessions \in Nat
    /\ setting \in [session : Nat, loading : BOOLEAN, saving : BOOLEAN, available : BOOLEAN]
    /\ rtcRequests \in Seq(RtcRequests) /\ rtcEvents \in Seq(RtcAnswers)
    /\ rtcTask \in [step : {"idle", "access", "cache", "publish"}, request : RtcRequests,
                    time : Int, success : BOOLEAN]
    /\ cache \in RtcCaches
    /\ synced \in [time : Int, at : Nat] /\ synced.at <= now

\* The copy of the main loop is of the cache's generation only if it is the cache.
CopyCurrent ==
    asking.valid =>
        /\ asking.generation \in Nat /\ asking.generation <= cache.generation
        /\ asking.generation = cache.generation => asking = cache

RtcInv == RtcShape /\ CopyCurrent /\ ClockTrue

\* The cache is advanced by whole seconds if it still is the copy that was taken.
LEMMA AdvanceKeeps == ASSUME RtcInv, AdvanceCache PROVE RtcInv'
<1> USE DEF RtcInv
<1>1. TickModulus \in Nat \ {0}
  BY RtcAssumption
<1>2. PICK elapsed : elapsed = ((Ticks - asking.tick) % TickModulus) \div 2
  OBVIOUS
<1>3. UNCHANGED <<now, chip, rtcRequests, rtcTask, rtcEvents, synced, setting, sessions>>
      /\ asking' = [valid |-> FALSE] /\ asking.valid
  BY DEF AdvanceCache
<1>4. ~ asking'.valid
  BY <1>3
<1>5. CASE UNCHANGED cache
  BY <1>3, <1>4, <1>5 DEF RtcShape, CopyCurrent, ClockTrue
<1>6. CASE ~ UNCHANGED cache
  <2>1. /\ elapsed > 0 /\ StillCached(asking)
        /\ cache' = [cache EXCEPT !.time = asking.time + elapsed,
                                  !.tick = (@ + 2 * elapsed) % TickModulus]
    BY <1>2, <1>6 DEF AdvanceCache
  <2>2. cache.valid /\ asking = cache
    BY <1>3, <2>1 DEF StillCached, CopyCurrent
  <2>3. cache.time \in Int /\ synced.time \in Int /\ synced.at \in Nat /\ now \in Nat
    BY DEF RtcShape, RtcCaches
  <2>4. PICK x \in Int : x = synced.at + 2 * (cache.time - synced.time)
    BY <2>3
  <2>5. x <= now /\ x >= 0 /\ cache.tick = x % TickModulus /\ cache.time >= synced.time
    BY <2>2, <2>3, <2>4 DEF ClockTrue
  <2>6. PICK gap \in 0 .. now - x : gap = ((now % TickModulus) - (x % TickModulus)) % TickModulus
    <3>1. PICK n \in Int : n = now
      BY <2>3
    <3>2. ((n % TickModulus) - (x % TickModulus)) % TickModulus \in 0 .. n - x
      BY <1>1, <2>5, <3>1, ModGap
    <3> QED
      BY <3>1, <3>2
  <2>7. elapsed = gap \div 2
    BY <1>2, <2>2, <2>5, <2>6 DEF Ticks
  <2>8. elapsed \in Nat /\ 2 * elapsed <= gap
    BY <2>3, <2>6, <2>7
  <2>9. PICK step \in Int : step = 2 * elapsed
    BY <2>8
  <2>10. ((x % TickModulus) + step) % TickModulus = (x + step) % TickModulus
    BY <1>1, ModAdd
  <2>11. x + step \in Int /\ (x + step) % TickModulus \in Nat
    <3>1. PICK y \in Int : y = x + step
      OBVIOUS
    <3>2. y % TickModulus \in 0 .. TickModulus - 1
      BY <1>1, DivMod
    <3> QED
      BY <1>1, <3>1, <3>2
  <2>12. /\ cache' \in RtcCaches /\ cache'.time = cache.time + elapsed
         /\ cache'.tick = (x + step) % TickModulus
    <3>1. cache' = [cache EXCEPT !.time = cache.time + elapsed,
                                 !.tick = (x + step) % TickModulus]
      BY <2>1, <2>2, <2>5, <2>9, <2>10
    <3>2. cache.time + elapsed \in Int
      BY <2>3, <2>8
    <3> QED
      BY <2>11, <3>1, <3>2 DEF RtcShape, RtcCaches
  <2>13. x + step = synced.at + 2 * (cache'.time - synced.time)
    BY <2>3, <2>4, <2>8, <2>9, <2>12
  <2>14. cache'.time - synced.time >= 0 /\ x + step <= now
    BY <2>3, <2>5, <2>6, <2>8, <2>9, <2>12
  <2>15. ClockTrue'
    BY <1>3, <2>12, <2>13, <2>14 DEF ClockTrue
  <2> QED
    BY <1>3, <1>4, <2>12, <2>15 DEF RtcShape, CopyCurrent
<1> QED
  BY <1>5, <1>6

\* The cache is updated by an answer of the clock, which has a new generation.
LEMMA UpdateKeeps == ASSUME RtcInv, UpdateCache PROVE RtcInv'
<1> USE DEF RtcInv
<1>1. now \in Int /\ now % TickModulus \in 0 .. TickModulus - 1
      /\ TickModulus \in Nat \ {0} /\ rtcTask.time \in Int /\ cache.generation \in Nat
  BY RtcAssumption, DivMod DEF RtcShape, RtcCaches
<1>2. /\ cache' = [time |-> rtcTask.time, tick |-> now % TickModulus,
                   generation |-> cache.generation + 1, valid |-> TRUE]
      /\ synced' = [time |-> rtcTask.time, at |-> now]
      /\ rtcTask' = [rtcTask EXCEPT !.step = "publish"]
      /\ UNCHANGED <<now, chip, asking, rtcRequests, rtcEvents, setting, sessions>>
  BY DEF UpdateCache, taskOnly, Ticks
<1>3. cache' \in RtcCaches /\ synced' \in [time : Int, at : Nat] /\ synced'.at <= now
  BY <1>1, <1>2 DEF RtcCaches, RtcShape
<1>4. rtcTask' \in [step : {"idle", "access", "cache", "publish"}, request : RtcRequests,
                    time : Int, success : BOOLEAN]
  BY <1>2 DEF RtcShape
<1>5. RtcShape'
  BY <1>2, <1>3, <1>4 DEF RtcShape
<1>6. CopyCurrent'
  BY <1>1, <1>2 DEF CopyCurrent
<1>7. ClockTrue'
  <2>1. /\ cache'.time - synced'.time = 0 /\ synced'.at + 2 * 0 = now
        /\ cache'.tick = now % TickModulus /\ now' = now
    BY <1>1, <1>2
  <2> QED
    BY <1>1, <2>1 DEF ClockTrue
<1> QED
  BY <1>5, <1>6, <1>7

\* Everything else leaves the cache and the copy alone, but for the copying.
LEMMA OthersKeep ==
    ASSUME RtcInv, RtcNext \/ UNCHANGED rtcVars, ~ AdvanceCache, ~ UpdateCache PROVE RtcInv'
<1> USE DEF RtcInv
<1>1. UNCHANGED <<cache, synced>>
  BY DEF RtcNext, RtcTaskStep, TimePasses, TakeRequest, AccessChip, PublishAnswer, AskTime,
         OpenSetting, CloseSetting, SaveDatetime, TakeAnswer, settingOnly, taskOnly, rtcVars
<1>2. UNCHANGED now \/ now' = now + 1
  BY DEF RtcNext, RtcTaskStep, TimePasses, TakeRequest, AccessChip, PublishAnswer, AskTime,
         OpenSetting, CloseSetting, SaveDatetime, TakeAnswer, settingOnly, taskOnly, rtcVars
<1>3. UNCHANGED asking \/ asking' = cache
  BY DEF RtcNext, RtcTaskStep, TimePasses, TakeRequest, AccessChip, PublishAnswer, AskTime,
         OpenSetting, CloseSetting, SaveDatetime, TakeAnswer, settingOnly, taskOnly, rtcVars
<1>4. CopyCurrent'
  BY <1>1, <1>3 DEF CopyCurrent, RtcShape, RtcCaches
<1>5. ClockTrue'
  BY <1>1, <1>2 DEF ClockTrue, RtcShape, RtcCaches
<1>6. RtcShape'
  <2>1. chip' \in Int /\ rtcTask' \in [step : {"idle", "access", "cache", "publish"},
                                       request : RtcRequests, time : Int, success : BOOLEAN]
    <3>1. CASE TakeRequest
      <4>1. Head(rtcRequests) \in RtcRequests
        BY <3>1 DEF TakeRequest, RtcShape
      <4> QED
        BY <3>1, <4>1 DEF TakeRequest, RtcShape
    <3>2. CASE AccessChip
      <4>1. \/ rtcTask' = [rtcTask EXCEPT !.step = "cache", !.success = TRUE,
                                          !.time = rtcTask.request.time]
            \/ rtcTask' = [rtcTask EXCEPT !.step = "cache", !.success = TRUE,
                                          !.time = ChipTime]
            \/ rtcTask' = [rtcTask EXCEPT !.step = "publish", !.success = FALSE, !.time = 0]
        BY <3>2 DEF AccessChip
      <4>2. chip' = chip \/ chip' = 2 * rtcTask.request.time - now
        BY <3>2 DEF AccessChip
      <4>3. chip' \in Int
        BY <4>2 DEF RtcShape, RtcRequests
      <4>4. ChipTime \in Int /\ rtcTask.request.time \in Int
        BY DEF RtcShape, RtcRequests, ChipTime
      <4>5. rtcTask \in [step : {"idle", "access", "cache", "publish"},
                         request : RtcRequests, time : Int, success : BOOLEAN]
        BY DEF RtcShape
      <4>6. rtcTask' \in [step : {"idle", "access", "cache", "publish"},
                          request : RtcRequests, time : Int, success : BOOLEAN]
        <5>1. CASE rtcTask' = [rtcTask EXCEPT !.step = "cache", !.success = TRUE,
                                              !.time = rtcTask.request.time]
          BY <4>4, <4>5, <5>1
        <5>2. CASE rtcTask' = [rtcTask EXCEPT !.step = "cache", !.success = TRUE,
                                              !.time = ChipTime]
          BY <4>4, <4>5, <5>2
        <5>3. CASE rtcTask' = [rtcTask EXCEPT !.step = "publish", !.success = FALSE,
                                              !.time = 0]
          <6>1. PICK zero \in Int : zero = 0
            OBVIOUS
          <6>2. rtcTask' = [rtcTask EXCEPT !.step = "publish", !.success = FALSE,
                                           !.time = zero]
            BY <5>3, <6>1
          <6> QED
            BY <4>5, <6>2
        <5> QED
          BY <4>1, <5>1, <5>2, <5>3
      <4> QED
        BY <4>3, <4>6
    <3>3. CASE PublishAnswer
      <4>1. RtcIdle \in [step : {"idle", "access", "cache", "publish"},
                         request : RtcRequests, time : Int, success : BOOLEAN]
        BY DEF RtcIdle, NoRequest, RtcRequests
      <4> QED
        BY <3>3, <4>1 DEF PublishAnswer, RtcShape
    <3>4. CASE UNCHANGED <<rtcTask, chip>>
      BY <3>4 DEF RtcShape
    <3> QED
      BY <3>1, <3>2, <3>3, <3>4
         DEF RtcNext, RtcTaskStep, TimePasses, AskTime, OpenSetting, CloseSetting,
             SaveDatetime, TakeAnswer, settingOnly, rtcVars
  <2>2. /\ rtcRequests' \in Seq(RtcRequests) /\ sessions' \in Nat
        /\ setting' \in [session : Nat, loading : BOOLEAN, saving : BOOLEAN,
                         available : BOOLEAN]
    <3>1. CASE TakeRequest
      BY <3>1 DEF TakeRequest, taskOnly, RtcShape
    <3>2. CASE OpenSetting
      <4>1. PICK request : request = [write |-> FALSE, session |-> sessions + 1, time |-> 0]
        OBVIOUS
      <4>2. rtcRequests' \in Seq(RtcRequests)
        <5>1. request \in RtcRequests /\ rtcRequests \in Seq(RtcRequests)
          BY <4>1 DEF RtcShape, RtcRequests
        <5>2. UNCHANGED rtcRequests \/ rtcRequests' = Append(rtcRequests, request)
          BY <3>2, <4>1 DEF OpenSetting, Submitted
        <5> QED
          BY <5>1, <5>2
      <4>3. RequestsFull \in BOOLEAN
        BY DEF RequestsFull
      <4> QED
        BY <3>2, <4>2, <4>3 DEF OpenSetting, RtcShape
    <3>3. CASE SaveDatetime
      <4>1. PICK request : request = [write |-> TRUE, session |-> setting.session, time |-> NewTime]
        OBVIOUS
      <4>2. rtcRequests' \in Seq(RtcRequests)
        <5>1. request \in RtcRequests /\ rtcRequests \in Seq(RtcRequests)
          BY <4>1 DEF RtcShape, RtcRequests, NewTime
        <5>2. UNCHANGED rtcRequests \/ rtcRequests' = Append(rtcRequests, request)
          BY <3>3, <4>1 DEF SaveDatetime, Submitted
        <5> QED
          BY <5>1, <5>2
      <4>3. RequestsFull \in BOOLEAN
        BY DEF RequestsFull
      <4> QED
        BY <3>3, <4>2, <4>3 DEF SaveDatetime, RtcShape
    <3>4. CASE CloseSetting
      BY <3>4 DEF CloseSetting, NoSession, RtcShape
    <3>5. CASE TakeAnswer
      <4>1. \/ setting' = setting \/ setting' = NoSession
            \/ setting' = [setting EXCEPT !.saving = FALSE]
            \/ setting' = [setting EXCEPT !.loading = FALSE,
                                          !.available = Head(rtcEvents).success]
        BY <3>5 DEF TakeAnswer
      <4>2. Head(rtcEvents).success \in BOOLEAN
        <5>1. Head(rtcEvents) \in RtcAnswers
          BY <3>5 DEF TakeAnswer, RtcShape
        <5> QED
          BY <5>1 DEF RtcAnswers
      <4> QED
        BY <3>5, <4>1, <4>2 DEF TakeAnswer, NoSession, RtcShape
    <3>6. CASE UNCHANGED <<rtcRequests, sessions, setting>>
      BY <3>6 DEF RtcShape
    <3> QED
      BY <3>1, <3>2, <3>3, <3>4, <3>5, <3>6
         DEF RtcNext, RtcTaskStep, TimePasses, AccessChip, PublishAnswer, AskTime, taskOnly,
             rtcVars
  <2>3. rtcEvents' \in Seq(RtcAnswers)
    <3>1. CASE PublishAnswer
      <4>1. PICK answer : answer = [write |-> rtcTask.request.write,
                                    session |-> rtcTask.request.session,
                                    success |-> rtcTask.success]
        OBVIOUS
      <4>2. answer \in RtcAnswers
        BY <4>1 DEF RtcShape, RtcRequests, RtcAnswers
      <4>3. \/ rtcEvents' = rtcEvents \/ rtcEvents' = Append(rtcEvents, answer)
            \/ rtcEvents' = Append(Tail(rtcEvents), answer) /\ Len(rtcEvents) = RtcQueueLength
        BY <3>1, <4>1 DEF PublishAnswer, KeptNewest
      <4>4. Len(rtcEvents) = RtcQueueLength => rtcEvents # <<>>
        BY RtcAssumption DEF RtcShape
      <4>5. rtcEvents \in Seq(RtcAnswers)
        BY DEF RtcShape
      <4>6. Len(rtcEvents) = RtcQueueLength => Tail(rtcEvents) \in Seq(RtcAnswers)
        BY <4>4, <4>5
      <4> QED
        BY <4>2, <4>3, <4>5, <4>6
    <3>2. CASE TakeAnswer
      BY <3>2 DEF TakeAnswer, RtcShape
    <3>3. CASE UNCHANGED rtcEvents
      BY <3>3 DEF RtcShape
    <3> QED
      BY <3>1, <3>2, <3>3
         DEF RtcNext, RtcTaskStep, TimePasses, TakeRequest, AccessChip, AskTime, OpenSetting,
             CloseSetting, SaveDatetime, taskOnly, rtcVars
  <2> QED
    BY <1>1, <1>2, <2>1, <2>2, <2>3 DEF RtcShape
<1> QED
  BY <1>4, <1>5, <1>6

\* The cached time is the chip's last answer, advanced by whole seconds.
THEOREM RtcClockTrue == RtcSpec => []ClockTrue
<1>1. RtcInit => RtcInv
  BY DEF RtcInit, RtcInv, RtcShape, CopyCurrent, ClockTrue, RtcRequests, RtcCaches, NoRequest,
         RtcIdle, NoSession
<1>2. RtcInv /\ [RtcNext]_rtcVars => RtcInv'
  BY OthersKeep, AdvanceKeeps, UpdateKeeps
<1>3. RtcInv => ClockTrue
  BY DEF RtcInv
<1> QED
  BY <1>1, <1>2, <1>3, PTL DEF RtcSpec

-----------------------------------------------------------------------------
(* The battery.  Between the two halves of a publication the cache is      *)
(* already the task's snapshot; at any other time an event that waits is   *)
(* the cache's, so whoever follows the queue ends with the cache.          *)

Monitors == [step : {"wait", "poll", "cache", "event"}, snapshot : Snapshots,
             initialized : BOOLEAN, stable : BOOLEAN, candidate : BOOLEAN, count : Nat,
             sampled : BOOLEAN, force : BOOLEAN, since : Nat]

BatteryShape ==
    /\ gauge \in Monitors /\ supply \in BOOLEAN
    /\ batteryCache \in Snapshots \cup {NoEvent} /\ batteryEvent \in Snapshots \cup {NoEvent}
    /\ statusBar \in Snapshots \cup {NoEvent}
    /\ batteryApp \in [state : {"closed", "opening", "open", "closing"},
                       snapshot : Snapshots \cup {NoEvent}]

PublishedInOrder ==
    /\ gauge.step = "event" => batteryCache = gauge.snapshot
    /\ gauge.step # "event" /\ batteryEvent # NoEvent => batteryEvent = batteryCache

BatteryInv == BatteryShape /\ PublishedInOrder /\ BatteryKnown

\* No event is no snapshot.
LEMMA SnapshotIsOne == NoEvent \notin Snapshots
  BY DEF NoEvent, Snapshots

\* What the monitor makes of a sample.
LEMMA MonitoredKeeps ==
    ASSUME NEW g \in Monitors, NEW present \in BOOLEAN,
           NEW charger \in {"unknown", "no", "yes"}
    PROVE  Monitored(g, present, charger) \in Monitors
<1>1. g.snapshot \in Snapshots /\ g.count \in Nat /\ DebounceSamples \in Nat
  BY BatteryAssumption DEF Monitors
<1>2. ASSUME NEW sign \in {"unknown", "no", "yes"}
      PROVE  [g.snapshot EXCEPT !.charging = sign] \in Snapshots
  BY <1>1 DEF Snapshots
<1>3. Charge(present, charger) \in {"unknown", "no", "yes"}
  BY DEF Charge
<1>4. PICK c \in Nat : c = g.count + 1
  BY <1>1
<1>5. CASE ~ g.initialized
  <2>1. PICK sign \in {"unknown", "no", "yes"} : sign = IF present THEN "unknown" ELSE "no"
    OBVIOUS
  <2>2. PICK s \in Snapshots : s = [g.snapshot EXCEPT !.charging = sign]
    BY <1>2
  <2>3. Monitored(g, present, charger) =
        [g EXCEPT !.initialized = TRUE, !.stable = present, !.candidate = present,
                  !.count = 0, !.snapshot = s]
    BY <1>5, <2>1, <2>2 DEF Monitored
  <2>4. 0 \in Nat
    OBVIOUS
  <2> QED
    BY <2>3, <2>4 DEF Monitors
<1>6. CASE g.initialized /\ present = g.stable
  BY <1>6 DEF Monitored, Monitors
<1>7. CASE g.initialized /\ present # g.stable /\ present # g.candidate
  BY <1>7 DEF Monitored, Monitors
<1>8. CASE g.initialized /\ present # g.stable /\ present = g.candidate /\ c < DebounceSamples
  BY <1>4, <1>8 DEF Monitored, Monitors
<1>9. CASE g.initialized /\ present # g.stable /\ present = g.candidate /\ ~ (c < DebounceSamples)
  <2>1. PICK s \in Snapshots : s = [g.snapshot EXCEPT !.charging = Charge(present, charger)]
    BY <1>2, <1>3
  <2>2. Monitored(g, present, charger) = [g EXCEPT !.stable = present, !.count = 0, !.snapshot = s]
    BY <1>4, <1>9, <2>1 DEF Monitored
  <2>3. 0 \in Nat
    OBVIOUS
  <2> QED
    BY <2>2, <2>3 DEF Monitors
<1> QED
  BY <1>5, <1>6, <1>7, <1>8, <1>9

\* A turn that reads these: it may fail no more often than the bound allows, and makes
\* this of the monitor.
TurnOf(vbus, charger, telemetry) ==
    LET failed == (IF vbus THEN 0 ELSE 1) + (IF telemetry = 0 THEN 1 ELSE 0)
        monitored == IF vbus THEN Monitored(gauge, supply, charger) ELSE gauge
        level == IF Due /\ telemetry # 0 THEN telemetry ELSE gauge.snapshot.level
        published == vbus /\ (Due => telemetry # 0) /\ Publishes(Due, monitored)
    IN  /\ batteryFailures + failed <= MaxBatteryFailures
        /\ batteryFailures' = batteryFailures + failed
        /\ gauge' = [monitored EXCEPT
              !.snapshot.level = level, !.force = FALSE,
              !.step = IF published THEN "cache" ELSE "wait",
              !.sampled = @ \/ (published /\ Due),
              !.since = IF published /\ Due THEN 0 ELSE @]

\* A turn ends waiting, or about to publish its snapshot; it publishes nothing itself.
LEMMA PollKeeps ==
    ASSUME BatteryInv, PollGauge
    PROVE  gauge' \in Monitors /\ gauge'.step \in {"wait", "cache"} /\ gauge.step = "poll"
<1>1. PICK vbus \in BOOLEAN, charger \in {"unknown", "no", "yes"}, telemetry \in {0, 1, 2} :
         TurnOf(vbus, charger, telemetry)
  BY Zenon DEF PollGauge, TurnOf
<1>2. PICK m \in Monitors : m = IF vbus THEN Monitored(gauge, supply, charger) ELSE gauge
  BY MonitoredKeeps DEF BatteryInv, BatteryShape
<1>3. PICK level \in 0 .. 2 : level = IF Due /\ telemetry # 0 THEN telemetry ELSE gauge.snapshot.level
  BY DEF BatteryInv, BatteryShape, Monitors, Snapshots
<1>4. PICK published \in BOOLEAN :
         published = (vbus /\ (Due => telemetry # 0) /\ Publishes(Due, m))
  BY DEF Publishes
<1>5. PICK due \in BOOLEAN : due = Due
  BY DEF Due
<1>6. PICK s \in Snapshots : s = [m.snapshot EXCEPT !.level = level]
  BY DEF Snapshots, Monitors
<1>7. gauge' = [m EXCEPT !.snapshot.level = level, !.force = FALSE,
                  !.step = IF published THEN "cache" ELSE "wait",
                  !.sampled = @ \/ (published /\ due),
                  !.since = IF published /\ due THEN 0 ELSE @]
  BY <1>1, <1>2, <1>3, <1>4, <1>5 DEF TurnOf
<1>8. gauge' = [m EXCEPT !.snapshot = s, !.force = FALSE,
                  !.step = IF published THEN "cache" ELSE "wait",
                  !.sampled = m.sampled \/ (published /\ due),
                  !.since = IF published /\ due THEN 0 ELSE m.since]
  BY <1>6, <1>7
<1>9. PICK step \in {"cache", "wait"} : step = IF published THEN "cache" ELSE "wait"
  OBVIOUS
<1>10. PICK sampled \in BOOLEAN : sampled = (m.sampled \/ (published /\ due))
  BY DEF Monitors
<1>11. PICK since \in Nat : since = IF published /\ due THEN 0 ELSE m.since
  BY DEF Monitors
<1>12. gauge' = [m EXCEPT !.snapshot = s, !.force = FALSE, !.step = step, !.sampled = sampled,
                   !.since = since]
  BY <1>8, <1>9, <1>10, <1>11
<1>13. gauge' \in Monitors /\ gauge'.step = step
  BY <1>12 DEF Monitors
<1> QED
  BY <1>9, <1>13 DEF PollGauge

\* Every step keeps the invariant.
LEMMA BatteryStep == ASSUME BatteryInv, BatteryNext \/ UNCHANGED batteryVars PROVE BatteryInv'
<1> USE DEF BatteryInv
<1>1. CASE Plug
  BY <1>1 DEF Plug, BatteryShape, PublishedInOrder, BatteryKnown
<1>2. CASE WakeGauge
  <2>1. PICK since \in Nat : since = IF nudged /\ subscribers = 0 /\ gauge.sampled THEN 0
                                     ELSE IF gauge.since < BackgroundInterval THEN gauge.since + 1
                                     ELSE gauge.since
    BY DEF BatteryShape, Monitors
  <2>2. PICK force \in BOOLEAN : force = (nudged /\ subscribers > 0)
    OBVIOUS
  <2>3. gauge' = [gauge EXCEPT !.step = "poll", !.force = force, !.since = since]
    BY <1>2, <2>1, <2>2 DEF WakeGauge
  <2>4. gauge' \in Monitors /\ gauge'.step = "poll" /\ gauge.step = "wait"
    BY <1>2, <2>3 DEF WakeGauge, BatteryShape, Monitors
  <2> QED
    BY <1>2, <2>4 DEF WakeGauge, gaugeOnly, BatteryShape, PublishedInOrder, BatteryKnown
<1>3. CASE PollGauge
  <2>1. gauge' \in Monitors /\ gauge'.step # "event" /\ gauge.step # "event"
    BY <1>3, PollKeeps
  <2>2. UNCHANGED <<batteryCache, batteryEvent, statusBar, batteryApp, supply>>
    BY <1>3 DEF PollGauge, gaugeOnly
  <2> QED
    BY <2>1, <2>2 DEF BatteryShape, PublishedInOrder, BatteryKnown
<1>4. CASE PublishCache
  <2>1. gauge' \in Monitors /\ gauge'.step = "event" /\ gauge'.snapshot = gauge.snapshot
    BY <1>4 DEF PublishCache, BatteryShape, Monitors
  <2>2. gauge.snapshot \in Snapshots
    BY DEF BatteryShape, Monitors
  <2> QED
    BY <1>4, <2>1, <2>2 DEF PublishCache, gaugeOnly, BatteryShape, PublishedInOrder, BatteryKnown
<1>5. CASE PublishEvent
  <2>1. gauge' \in Monitors /\ gauge'.step = "wait"
    BY <1>5 DEF PublishEvent, BatteryShape, Monitors
  <2>2. gauge.snapshot \in Snapshots /\ gauge.snapshot # NoEvent
    BY SnapshotIsOne DEF BatteryShape, Monitors
  <2> QED
    BY <1>5, <2>1, <2>2
       DEF PublishEvent, gaugeOnly, BatteryShape, PublishedInOrder, BatteryKnown
<1>6. CASE ChooseBattery \/ OpenBattery \/ LeaveBattery \/ CloseBattery
  <2>1. UNCHANGED <<supply, gauge, batteryCache, batteryEvent, statusBar>>
    BY <1>6 DEF ChooseBattery, OpenBattery, LeaveBattery, CloseBattery, followersOnly
  <2>2. /\ batteryApp' \in [state : {"closed", "opening", "open", "closing"},
                            snapshot : Snapshots \cup {NoEvent}]
        /\ batteryApp'.state = "open" => batteryApp'.snapshot = batteryCache
    BY <1>6 DEF ChooseBattery, OpenBattery, LeaveBattery, CloseBattery, SnapshotAtOpen, BatteryShape
  <2> QED
    BY <2>1, <2>2 DEF BatteryShape, PublishedInOrder, BatteryKnown
<1>7. CASE TakeSnapshot
  BY <1>7 DEF TakeSnapshot, followersOnly, BatteryShape, PublishedInOrder, BatteryKnown
<1>8. CASE UNCHANGED batteryVars
  BY <1>8 DEF batteryVars, BatteryShape, PublishedInOrder, BatteryKnown
<1> QED
  BY <1>1, <1>2, <1>3, <1>4, <1>5, <1>6, <1>7, <1>8 DEF BatteryNext, GaugeStep

\* Once the queue is empty and no publication is half done, the status bar and an open
\* battery app show the last snapshot of the task (publish_snapshot, on_open).
THEOREM FollowersKnowBattery == BatterySpec => []BatteryKnown
<1>1. BatteryInit => BatteryInv
  <2>1. NoSnapshot \in Snapshots
    BY DEF NoSnapshot, Snapshots
  <2> QED
    BY <2>1 DEF BatteryInit, BatteryInv, BatteryShape, PublishedInOrder, BatteryKnown, Monitors
<1>2. BatteryInv /\ [BatteryNext]_batteryVars => BatteryInv'
  BY BatteryStep
<1>3. BatteryInv => BatteryKnown
  BY DEF BatteryInv
<1> QED
  BY <1>1, <1>2, <1>3, PTL DEF BatterySpec

-----------------------------------------------------------------------------
(* The EPUB cache.  The file operations of a step are counted from the     *)
(* last: which of them are left says which files are already the book's.   *)
(* Metadata on the card is never of a newer version than the files it      *)
(* describes, and neither is newer than the book; as an edit that the      *)
(* fingerprint shows is not taken back, metadata with the fingerprint of   *)
(* the book vouch for files that are there at all.                         *)

EpubPhases == {"idle", "cover", "spine", "finalize", "validate", "save", "ready", "failed"}
Operations == {"write", "remove", "rename"} \X (Parts \cup {"metadata"})
Versioned == [Parts -> Versions \cup {Missing}]

EpubShape ==
    /\ card \in [version : Versions, stat : 0 .. 1, generation : Nat]
    /\ files \in Versioned /\ temps \in Versioned
    /\ saved \in Metadata \cup {Missing} /\ savedTemp \in Metadata \cup {Missing}
    /\ epub \in [phase : EpubPhases, generation : Nat, metadata : Metadata \cup {Missing},
                 spine : Nat, todo : Seq(Operations)]
    /\ paging \in 1 .. LastPaging

\* The operation that k others follow.
Operation(withCover, k) ==
    CASE k = 0 -> <<"rename", "metadata">>
      [] k = 1 -> <<"remove", "metadata">>
      [] k = 2 -> <<"write", "metadata">>
      [] k = 3 -> IF withCover THEN <<"rename", "cover">> ELSE <<"rename", "map">>
      [] k = 4 -> IF withCover THEN <<"remove", "cover">> ELSE <<"remove", "map">>
      [] k = 5 -> IF withCover THEN <<"rename", "map">> ELSE <<"rename", "content">>
      [] k = 6 -> IF withCover THEN <<"remove", "map">> ELSE <<"remove", "content">>
      [] k = 7 -> IF withCover THEN <<"rename", "content">> ELSE <<"write", "map">>
      [] k = 8 -> <<"remove", "content">>
      [] OTHER -> <<"write", "map">>

\* These n operations are followed by m others.
Run(ops, withCover, m, n) ==
    /\ ops \in Seq(Operations) /\ Len(ops) = n
    /\ \A i \in 1 .. n : ops[i] = Operation(withCover, m + n - i)

Extra(metadata) == IF metadata.cover THEN 2 ELSE 0

\* The operations left belong to the phase, and what the others did is done.
TodoFits ==
    LET ahead == Len(epub.todo)
        source == epub.metadata.source
        extra == Extra(epub.metadata)
    IN  /\ epub.phase \in {"idle", "cover", "spine", "ready", "failed"} => ahead = 0
        /\ epub.phase \in {"validate", "save"} => ahead \in 1 .. 3
        /\ epub.phase = "finalize" => ahead <= 8 + extra
        /\ epub.phase \in {"validate", "save", "finalize"} => 
              Run(epub.todo, epub.metadata.cover, 0, ahead)
        /\ ahead \in 1 .. 2 => savedTemp = epub.metadata
        /\ epub.phase = "spine" /\ epub.metadata.cover => temps["cover"] = source
        /\ epub.phase = "finalize" /\ ahead = 0 =>
              /\ temps["content"] = source
              /\ epub.metadata.cover => temps["cover"] = source
        /\ epub.phase = "finalize" /\ ahead > 0 =>
              /\ IF ahead > 5 + extra THEN temps["content"] = source ELSE files["content"] = source
              /\ ahead \in 4 + extra .. 7 + extra => temps["map"] = source
              /\ ahead <= 3 + extra => files["map"] = source
              /\ epub.metadata.cover =>
                    IF ahead > 3 THEN temps["cover"] = source ELSE files["cover"] = source

\* A metadata file is the book's or older, and older than no file it describes.
Vouched ==
    /\ \A p \in Parts : files[p] # Missing => files[p] <= card.version
    /\ saved # Missing =>
          /\ saved.source <= card.version /\ saved.place < ContentSize[saved.source]
          /\ \A p \in {"content", "map"} : files[p] # Missing => saved.source <= files[p]
          /\ saved.cover /\ files["cover"] # Missing => saved.source <= files["cover"]

\* The files are of the version that the metadata names or of later ones, the text as
\* long as it says.
FilesOf(metadata) ==
    /\ \A p \in {"content", "map"} : files[p] # Missing /\ metadata.source <= files[p]
    /\ ContentSize[files["content"]] = ContentSize[metadata.source]
    /\ metadata.cover => files["cover"] # Missing /\ metadata.source <= files["cover"]

\* The engine works for the book of its generation, and knows its files.
EngineKnows ==
    /\ epub.generation <= card.generation
    /\ epub.phase \notin {"idle", "failed"} =>
          /\ epub.metadata \in Metadata /\ epub.metadata.place < ContentSize[epub.metadata.source]
          /\ epub.metadata.paging = paging
          /\ MediaValid => Alike(epub.metadata.source, card.version)
    /\ epub.phase \in {"cover", "spine", "finalize"} /\ MediaValid =>
          epub.metadata.source = card.version
    /\ epub.phase \in {"ready", "save", "validate"} => FilesOf(epub.metadata)

EpubInv == EpubShape /\ TodoFits /\ Vouched /\ EngineKnows


\* Runs of operations join.
LEMMA RunsJoin ==
    ASSUME NEW withCover \in BOOLEAN, NEW m \in Nat, NEW k \in Nat, NEW n \in Nat,
           NEW later \in Nat, NEW all \in Nat, later = m + k, all = n + k, NEW s, NEW t,
           Run(s, withCover, later, n), Run(t, withCover, m, k)
    PROVE  Run(s \o t, withCover, m, all)
<1>1. s \in Seq(Operations) /\ t \in Seq(Operations) /\ Len(s) = n /\ Len(t) = k
  BY DEF Run
<1>2. s \o t \in Seq(Operations) /\ Len(s \o t) = all
  BY <1>1
<1>3. ASSUME NEW i \in 1 .. all
      PROVE  (s \o t)[i] = Operation(withCover, m + all - i)
  <2>1. CASE i <= n
    <3>1. (s \o t)[i] = s[i] /\ i \in 1 .. n
      BY <1>1, <2>1
    <3>2. later + n - i = m + all - i
      OBVIOUS
    <3> QED
      BY <3>1, <3>2 DEF Run
  <2>2. CASE i > n
    <3>1. (s \o t)[i] = t[i - n] /\ i - n \in 1 .. k
      BY <1>1, <2>2
    <3>2. m + k - (i - n) = m + all - i
      OBVIOUS
    <3> QED
      BY <3>1, <3>2 DEF Run
  <2>3. i <= n \/ i > n
    OBVIOUS
  <2> QED
    BY <2>1, <2>2, <2>3
<1> QED
  BY <1>2, <1>3 DEF Run

\* An operation is a run.
LEMMA RunOfOne ==
    ASSUME NEW withCover \in BOOLEAN, NEW m \in Nat, NEW op \in Operations,
           op = Operation(withCover, m)
    PROVE  Run(<<op>>, withCover, m, 1)
<1>1. \A i \in 1 .. 1 : i = 1 /\ m + 1 - i = m
  OBVIOUS
<1> QED
  BY <1>1 DEF Run

\* A file is replaced by two operations.
LEMMA Replaces ==
    ASSUME NEW withCover \in BOOLEAN, NEW m \in Nat, NEW name \in Parts \cup {"metadata"},
           <<"remove", name>> = Operation(withCover, m + 1),
           <<"rename", name>> = Operation(withCover, m)
    PROVE  Run(Replacing(name), withCover, m, 2)
<1>1. Replacing(name) \in Seq(Operations) /\ Len(Replacing(name)) = 2
  BY DEF Replacing, Operations
<1>2. Replacing(name)[1] = Operation(withCover, m + 2 - 1)
  BY DEF Replacing
<1>3. Replacing(name)[2] = Operation(withCover, m + 2 - 2)
  BY DEF Replacing
<1>4. \A i \in 1 .. 2 : i = 1 \/ i = 2
  OBVIOUS
<1> QED
  BY <1>1, <1>2, <1>3, <1>4 DEF Run

\* The last three operations replace the metadata,
LEMMA MetadataEnds ==
    ASSUME NEW withCover \in BOOLEAN PROVE Run(WriteMetadata, withCover, 0, 3)
<1>1. <<"write", "metadata">> \in Operations /\ <<"write", "metadata">> = Operation(withCover, 2)
  BY DEF Operations, Operation
<1>2. Run(<< <<"write", "metadata">> >>, withCover, 2, 1)
  BY <1>1, RunOfOne
<1>3. /\ <<"remove", "metadata">> = Operation(withCover, 0 + 1)
      /\ <<"rename", "metadata">> = Operation(withCover, 0)
  BY DEF Operation
<1>4. Run(Replacing("metadata"), withCover, 0, 2)
  BY <1>3, Replaces
<1> QED
  BY <1>2, <1>4, RunsJoin DEF WriteMetadata

\* after those that replace what it describes.
LEMMA PublishingEnds ==
    ASSUME NEW withCover \in BOOLEAN
    PROVE  Run(Publishing(withCover), withCover, 0, 8 + IF withCover THEN 2 ELSE 0)
<1>1. PICK d \in Nat : d = IF withCover THEN 2 ELSE 0
  OBVIOUS
<1>2. PICK image : image = IF withCover THEN Replacing("cover") ELSE <<>>
  OBVIOUS
<1>3. PICK op \in Operations : op = <<"write", "map">>
  <2>1. "write" \in {"write", "remove", "rename"} /\ "map" \in Parts \cup {"metadata"}
    BY DEF Parts
  <2> QED
    BY <2>1 DEF Operations
<1>4. Publishing(withCover) =
         (((<<op>> \o Replacing("content")) \o Replacing("map")) \o image) \o WriteMetadata
  BY <1>2, <1>3 DEF Publishing
<1>5. Run(WriteMetadata, withCover, 0, 3)
  BY MetadataEnds
<1>6. Run(image, withCover, 3, d)
  <2>1. CASE withCover
    <3>1. /\ <<"remove", "cover">> = Operation(withCover, 3 + 1)
          /\ <<"rename", "cover">> = Operation(withCover, 3)
      BY <2>1 DEF Operation
    <3>2. "cover" \in Parts \cup {"metadata"} /\ 3 \in Nat
      BY DEF Parts
    <3> QED
      BY <1>1, <1>2, <2>1, <3>1, <3>2, Replaces
  <2>2. CASE ~ withCover
    BY <1>1, <1>2, <2>2 DEF Run
  <2> QED
    BY <2>1, <2>2
<1>7. Run(Replacing("map"), withCover, 3 + d, 2)
  <2>1. /\ <<"remove", "map">> = Operation(withCover, 3 + d + 1)
        /\ <<"rename", "map">> = Operation(withCover, 3 + d)
    BY <1>1 DEF Operation
  <2>2. "map" \in Parts \cup {"metadata"} /\ 3 + d \in Nat
    BY DEF Parts
  <2> QED
    BY <2>1, <2>2, Replaces
<1>8. Run(Replacing("content"), withCover, 5 + d, 2)
  <2>1. /\ <<"remove", "content">> = Operation(withCover, 5 + d + 1)
        /\ <<"rename", "content">> = Operation(withCover, 5 + d)
    BY <1>1 DEF Operation
  <2>2. "content" \in Parts \cup {"metadata"} /\ 5 + d \in Nat
    BY DEF Parts
  <2> QED
    BY <2>1, <2>2, Replaces
<1>9. Run(<<op>>, withCover, 7 + d, 1)
  <2>1. op = Operation(withCover, 7 + d) /\ 7 + d \in Nat
    BY <1>1, <1>3 DEF Operation
  <2> QED
    BY <2>1, RunOfOne
<1>10. Run(<<op>> \o Replacing("content"), withCover, 5 + d, 3)
  <2>1. 7 + d = (5 + d) + 2 /\ 5 + d \in Nat /\ 7 + d \in Nat /\ 3 = 1 + 2
    OBVIOUS
  <2> QED
    BY <2>1, <1>8, <1>9, RunsJoin
<1>11. Run((<<op>> \o Replacing("content")) \o Replacing("map"), withCover, 3 + d, 5)
  <2>1. 5 + d = (3 + d) + 2 /\ 3 + d \in Nat /\ 5 + d \in Nat /\ 5 = 3 + 2
    OBVIOUS
  <2> QED
    BY <2>1, <1>7, <1>10, RunsJoin
<1>12. Run(((<<op>> \o Replacing("content")) \o Replacing("map")) \o image, withCover, 3, 5 + d)
  <2>1. 3 + d \in Nat /\ 5 + d \in Nat
    OBVIOUS
  <2> QED
    BY <2>1, <1>6, <1>11, RunsJoin
<1>13. Run((((<<op>> \o Replacing("content")) \o Replacing("map")) \o image) \o WriteMetadata,
           withCover, 0, 8 + d)
  <2>1. 5 + d \in Nat /\ 8 + d \in Nat /\ 8 + d = (5 + d) + 3
    OBVIOUS
  <2> QED
    BY <2>1, <1>5, <1>12, RunsJoin
<1> QED
  BY <1>1, <1>4, <1>13

-----------------------------------------------------------------------------
\* The operations on the metadata,
LEMMA UpToThree == ASSUME NEW n \in Nat, n # 0, n <= 3 PROVE n = 1 \/ n = 2 \/ n = 3
  OBVIOUS

\* and those on the parts.
LEMMA FourOrMore ==
    ASSUME NEW n \in Nat, NEW d \in {0, 2}, n > 3, n <= 8 + d
    PROVE  \/ n = 8 + d \/ n = 7 + d \/ n = 6 + d \/ n = 5 + d \/ n = 4 + d
           \/ (n = 5 /\ d = 2) \/ (n = 4 /\ d = 2)
  OBVIOUS

\* What the next operation is, and what is left after it.
LEMMA NextOperation ==
    ASSUME NEW withCover \in BOOLEAN, NEW n \in Nat \ {0}, NEW todo, Run(todo, withCover, 0, n)
    PROVE  /\ Head(todo) = Operation(withCover, n - 1) /\ todo # <<>>
           /\ Run(Tail(todo), withCover, 0, n - 1)
<1>1. todo \in Seq(Operations) /\ Len(todo) = n /\ todo # <<>>
  BY DEF Run
<1>2. Head(todo) = todo[1] /\ todo[1] = Operation(withCover, 0 + n - 1)
  BY <1>1 DEF Run
<1>3. Tail(todo) \in Seq(Operations) /\ Len(Tail(todo)) = n - 1
  BY <1>1
<1>4. ASSUME NEW i \in 1 .. n - 1
      PROVE  Tail(todo)[i] = Operation(withCover, 0 + (n - 1) - i)
  <2>1. Tail(todo)[i] = todo[i + 1] /\ i + 1 \in 1 .. n
    BY <1>1, <1>3
  <2>2. 0 + n - (i + 1) = 0 + (n - 1) - i
    OBVIOUS
  <2> QED
    BY <2>1, <2>2 DEF Run
<1> QED
  BY <1>1, <1>2, <1>3, <1>4 DEF Run

\* What holds while operations are left.
LEMMA Operating ==
    ASSUME EpubInv, FileOperation
    PROVE  /\ Len(epub.todo) \in Nat \ {0}
           /\ epub.phase \in {"validate", "save", "finalize"}
           /\ epub.phase # "finalize" => Len(epub.todo) <= 3
           /\ epub.metadata \in Metadata
           /\ epub.phase = "finalize" => epub.metadata.source = card.version
           /\ Run(epub.todo, epub.metadata.cover, 0, Len(epub.todo))
<1>1. epub.todo \in Seq(Operations) /\ epub.todo # <<>>
  BY DEF EpubInv, EpubShape, FileOperation
<1>2. Len(epub.todo) \in Nat \ {0}
  BY <1>1
<1>3. epub.phase \in {"validate", "save", "finalize"}
  BY <1>2 DEF EpubInv, EpubShape, TodoFits, EpubPhases
<1>4. /\ epub.metadata \in Metadata
      /\ epub.phase = "finalize" => epub.metadata.source = card.version
  BY <1>3 DEF EpubInv, EpubShape, EngineKnows, FileOperation
<1>5. epub.phase # "finalize" => Len(epub.todo) <= 3
  <2>1. epub.phase \in {"validate", "save"} => Len(epub.todo) \in 1 .. 3
    BY DEF EpubInv, TodoFits
  <2>2. epub.phase # "finalize" => epub.phase \in {"validate", "save"}
    BY <1>3
  <2>3. \A i \in 1 .. 3 : i <= 3
    OBVIOUS
  <2> QED
    BY <2>1, <2>2, <2>3
<1>6. Run(epub.todo, epub.metadata.cover, 0, Len(epub.todo))
  BY <1>3 DEF EpubInv, TodoFits
<1> QED
  BY <1>2, <1>3, <1>4, <1>5, <1>6

\* An operation takes itself off the list, and the last one makes the cache ready.
LEMMA EngineAfter ==
    ASSUME EpubInv, FileOperation, NEW n \in Nat, n = Len(epub.todo)
    PROVE  /\ epub' \in [phase : EpubPhases, generation : Nat, metadata : Metadata \cup {Missing},
                         spine : Nat, todo : Seq(Operations)]
           /\ epub'.phase = IF n = 1 THEN "ready" ELSE epub.phase
           /\ epub'.generation = epub.generation /\ epub'.metadata = epub.metadata
           /\ Len(epub'.todo) = n - 1
           /\ Run(epub'.todo, epub.metadata.cover, 0, n - 1)
<1>1. PICK todo : todo = Tail(epub.todo)
  OBVIOUS
<1>2. /\ Run(epub.todo, epub.metadata.cover, 0, n) /\ n \in Nat \ {0}
      /\ epub.metadata.cover \in BOOLEAN /\ epub.phase \in EpubPhases
  BY Operating DEF Metadata, EpubPhases
<1>3. Run(todo, epub.metadata.cover, 0, n - 1)
  BY <1>1, <1>2, NextOperation
<1>4. todo \in Seq(Operations) /\ Len(todo) = n - 1
  BY <1>3 DEF Run
<1>5. PICK phase \in EpubPhases : phase = IF n = 1 THEN "ready" ELSE epub.phase
  BY <1>2 DEF EpubPhases
<1>6. epub' = [epub EXCEPT !.todo = todo, !.phase = phase]
  BY <1>1, <1>5 DEF FileOperation
<1>7. epub' \in [phase : EpubPhases, generation : Nat, metadata : Metadata \cup {Missing},
                 spine : Nat, todo : Seq(Operations)]
      /\ epub'.phase = phase /\ epub'.todo = todo
      /\ epub'.generation = epub.generation /\ epub'.metadata = epub.metadata
  BY <1>4, <1>6 DEF EpubInv, EpubShape
<1> QED
  BY <1>3, <1>4, <1>5, <1>7

\* The last three operations publish the metadata.
LEMMA MetadataOperation ==
    ASSUME EpubInv, FileOperation, NEW n \in Nat, n = Len(epub.todo), n <= 3
    PROVE  /\ n \in 1 .. 3 /\ UNCHANGED <<files, temps>>
           /\ n = 3 => saved' = saved /\ savedTemp' = epub.metadata
           /\ n = 2 => saved' = Missing /\ savedTemp' = savedTemp
           /\ n = 1 => saved' = epub.metadata /\ savedTemp' = Missing
<1>1. /\ n \in Nat \ {0} /\ epub.metadata.cover \in BOOLEAN
      /\ Run(epub.todo, epub.metadata.cover, 0, n)
  BY Operating DEF Metadata
<1>2. n \in Nat \ {0} /\ Head(epub.todo) = Operation(epub.metadata.cover, n - 1)
  BY <1>1, NextOperation
<1>3. CASE n = 3
  <2>1. Head(epub.todo)[1] = "write" /\ Head(epub.todo)[2] = "metadata"
    BY <1>2, <1>3 DEF Operation
  <2> QED
    BY <1>3, <2>1 DEF FileOperation
<1>4. CASE n = 2
  <2>1. Head(epub.todo)[1] = "remove" /\ Head(epub.todo)[2] = "metadata"
    BY <1>2, <1>4 DEF Operation
  <2> QED
    BY <1>4, <2>1 DEF FileOperation
<1>5. CASE n = 1
  <2>1. Head(epub.todo)[1] = "rename" /\ Head(epub.todo)[2] = "metadata"
    BY <1>2, <1>5 DEF Operation
  <2>2. savedTemp = epub.metadata
    BY <1>5 DEF EpubInv, TodoFits
  <2> QED
    BY <1>5, <2>1, <2>2 DEF FileOperation
<1>6. n = 1 \/ n = 2 \/ n = 3
  <2>1. n # 0
    BY <1>1
  <2> QED
    BY <2>1, UpToThree
<1> QED
  BY <1>3, <1>4, <1>5, <1>6

\* What an operation on a file of the cache does.
Writes(p) == files' = files /\ temps' = [temps EXCEPT ![p] = epub.metadata.source]
Removes(p) == files' = [files EXCEPT ![p] = Missing] /\ temps' = temps
Renames(p) == /\ files' = [files EXCEPT ![p] = temps[p]]
              /\ temps' = [temps EXCEPT ![p] = Missing]

\* The operations before publish the text, the map and the cover in this order.
LEMMA PartOperation ==
    ASSUME EpubInv, FileOperation, NEW n \in Nat, n = Len(epub.todo), n > 3
    PROVE  /\ UNCHANGED <<saved, savedTemp>> /\ epub.phase = "finalize"
           /\ n <= 8 + Extra(epub.metadata)
           /\ n = 8 + Extra(epub.metadata) => Writes("map")
           /\ n = 7 + Extra(epub.metadata) => Removes("content")
           /\ n = 6 + Extra(epub.metadata) => Renames("content")
           /\ n = 5 + Extra(epub.metadata) => Removes("map")
           /\ n = 4 + Extra(epub.metadata) => Renames("map")
           /\ n = 5 /\ epub.metadata.cover => Removes("cover")
           /\ n = 4 /\ epub.metadata.cover => Renames("cover")
<1>1. /\ epub.phase = "finalize" /\ epub.metadata.cover \in BOOLEAN
      /\ Run(epub.todo, epub.metadata.cover, 0, n)
  BY Operating DEF Metadata
<1>2. n <= 8 + Extra(epub.metadata)
  BY <1>1 DEF EpubInv, TodoFits
<1>3. n \in Nat \ {0} /\ Head(epub.todo) = Operation(epub.metadata.cover, n - 1)
  BY <1>1, NextOperation
<1>4. Extra(epub.metadata) = IF epub.metadata.cover THEN 2 ELSE 0
  BY DEF Extra
<1>5. ASSUME NEW op \in {"write", "remove", "rename"}, NEW p \in Parts,
             Head(epub.todo) = <<op, p>>
      PROVE  /\ UNCHANGED <<saved, savedTemp>>
             /\ op = "write" => Writes(p)
             /\ op = "remove" => Removes(p)
             /\ op = "rename" => Renames(p)
  <2>1. Head(epub.todo)[1] = op /\ Head(epub.todo)[2] = p /\ p # "metadata"
    BY <1>5 DEF Parts
  <2> QED
    BY <2>1 DEF FileOperation, Writes, Removes, Renames
<1>6. {"content", "map", "cover"} = Parts
  BY DEF Parts
<1>7. CASE n = 8 + Extra(epub.metadata)
  <2>1. Head(epub.todo) = <<"write", "map">>
    BY <1>3, <1>4, <1>7 DEF Operation
  <2> QED
    BY <1>1, <1>2, <1>4, <1>5, <1>6, <1>7, <2>1
<1>8. CASE n = 7 + Extra(epub.metadata)
  <2>1. Head(epub.todo) = <<"remove", "content">>
    BY <1>3, <1>4, <1>8 DEF Operation
  <2> QED
    BY <1>1, <1>2, <1>4, <1>5, <1>6, <1>8, <2>1
<1>9. CASE n = 6 + Extra(epub.metadata)
  <2>1. Head(epub.todo) = <<"rename", "content">>
    BY <1>3, <1>4, <1>9 DEF Operation
  <2> QED
    BY <1>1, <1>2, <1>4, <1>5, <1>6, <1>9, <2>1
<1>10. CASE n = 5 + Extra(epub.metadata)
  <2>1. Head(epub.todo) = <<"remove", "map">>
    BY <1>3, <1>4, <1>10 DEF Operation
  <2> QED
    BY <1>1, <1>2, <1>4, <1>5, <1>6, <1>10, <2>1
<1>11. CASE n = 4 + Extra(epub.metadata)
  <2>1. Head(epub.todo) = <<"rename", "map">>
    BY <1>3, <1>4, <1>11 DEF Operation
  <2> QED
    BY <1>1, <1>2, <1>4, <1>5, <1>6, <1>11, <2>1
<1>12. CASE n = 5 /\ epub.metadata.cover
  <2>1. Head(epub.todo) = <<"remove", "cover">>
    BY <1>3, <1>4, <1>12 DEF Operation
  <2> QED
    BY <1>1, <1>2, <1>4, <1>5, <1>6, <1>12, <2>1
<1>13. CASE n = 4 /\ epub.metadata.cover
  <2>1. Head(epub.todo) = <<"rename", "cover">>
    BY <1>3, <1>4, <1>13 DEF Operation
  <2> QED
    BY <1>1, <1>2, <1>4, <1>5, <1>6, <1>13, <2>1
<1>14. PICK d \in {0, 2} : d = Extra(epub.metadata) /\ (d = 2 <=> epub.metadata.cover)
  BY <1>1, <1>4
<1>15. \/ n = 8 + d \/ n = 7 + d \/ n = 6 + d \/ n = 5 + d \/ n = 4 + d
       \/ (n = 5 /\ d = 2) \/ (n = 4 /\ d = 2)
  <2>1. n <= 8 + d
    BY <1>2, <1>14
  <2> QED
    BY <2>1, FourOrMore
<1> QED
  BY <1>14, <1>15, <1>7, <1>8, <1>9, <1>10, <1>11, <1>12, <1>13

\* An operation on the metadata: they get their name when all the parts are there.
LEMMA MetadataOperationKeeps ==
    ASSUME EpubInv, FileOperation, Len(epub.todo) <= 3 PROVE EpubInv'
<1>1. PICK n \in Nat : n = Len(epub.todo)
  BY Operating
<1>2. PICK source \in Versions : source = epub.metadata.source
  BY Operating DEF Metadata
<1>3. /\ epub.phase \in {"validate", "save", "finalize"} /\ n <= 3
      /\ epub.metadata \in Metadata
      /\ epub.metadata.place < ContentSize[source] /\ epub.metadata.paging = paging
  BY <1>1, <1>2, Operating DEF EpubInv, EngineKnows
<1>4. /\ n \in 1 .. 3 /\ UNCHANGED <<files, temps>>
      /\ n = 3 => saved' = saved /\ savedTemp' = epub.metadata
      /\ n = 2 => saved' = Missing /\ savedTemp' = savedTemp
      /\ n = 1 => saved' = epub.metadata /\ savedTemp' = Missing
  BY <1>1, <1>3, MetadataOperation
<1>5. UNCHANGED <<card, paging>> /\ MediaValid
  BY DEF FileOperation, cardOnly
<1>6. /\ epub' \in [phase : EpubPhases, generation : Nat, metadata : Metadata \cup {Missing},
                    spine : Nat, todo : Seq(Operations)]
      /\ epub'.phase = (IF n = 1 THEN "ready" ELSE epub.phase)
      /\ epub'.generation = epub.generation /\ epub'.metadata = epub.metadata
      /\ Len(epub'.todo) = n - 1
      /\ Run(epub'.todo, epub.metadata.cover, 0, n - 1)
  BY <1>1, EngineAfter
<1>7. n = 1 \/ n = 2 \/ n = 3
  BY <1>4, UpToThree
<1>8. FilesOf(epub.metadata) /\ source <= card.version
  <2>1. \A p \in Parts : files[p] # Missing => files[p] \in Int /\ files[p] <= card.version
    BY EpubAssumption DEF EpubInv, EpubShape, Versioned, Versions, Vouched
  <2>2. card.version \in Int /\ source \in Int /\ source # Missing /\ source <= source
    BY EpubAssumption DEF EpubInv, EpubShape, Versions
  <2>3. CASE epub.phase \in {"validate", "save"}
    <3>1. FilesOf(epub.metadata)
      BY <2>3 DEF EpubInv, EngineKnows
    <3>2. files["content"] # Missing /\ source <= files["content"] /\ "content" \in Parts
      BY <1>2, <3>1 DEF FilesOf, Parts
    <3> QED
      BY <2>1, <2>2, <3>1, <3>2
  <2>4. CASE epub.phase = "finalize"
    <3>1. Extra(epub.metadata) \in {0, 2}
      BY DEF Extra
    <3>2. /\ ~ (n > 5 + Extra(epub.metadata)) /\ n <= 3 + Extra(epub.metadata) /\ n > 0
          /\ ~ (n > 3)
      BY <1>3, <1>4, <3>1
    <3>3. /\ files["content"] = source /\ files["map"] = source
          /\ epub.metadata.cover => files["cover"] = source
      BY <1>1, <1>2, <2>4, <3>2 DEF EpubInv, TodoFits
    <3>4. source = card.version
      BY <1>2, <2>4, Operating
    <3> QED
      BY <1>2, <2>2, <3>3, <3>4 DEF FilesOf
  <2> QED
    BY <1>3, <2>3, <2>4
<1>9. EpubShape'
  <2>1. saved' \in Metadata \cup {Missing} /\ savedTemp' \in Metadata \cup {Missing}
    BY <1>3, <1>4, <1>7 DEF EpubInv, EpubShape
  <2> QED
    BY <1>4, <1>5, <1>6, <2>1 DEF EpubInv, EpubShape
<1>10. Vouched'
  <2>1. CASE saved' = saved \/ saved' = Missing
    BY <1>4, <1>5, <2>1 DEF EpubInv, Vouched
  <2>2. CASE saved' = epub.metadata
    <3>1. \A p \in {"content", "map"} : source <= files[p]
      BY <1>2, <1>8 DEF FilesOf
    <3>2. epub.metadata.cover => source <= files["cover"]
      BY <1>2, <1>8 DEF FilesOf
    <3>3. \A p \in Parts : files[p] # Missing => files[p] <= card.version
      BY DEF EpubInv, Vouched
    <3> QED
      BY <1>2, <1>3, <1>4, <1>5, <1>8, <2>2, <3>1, <3>2, <3>3 DEF Vouched
  <2> QED
    BY <1>4, <1>7, <2>1, <2>2
<1>11. EngineKnows'
  <2>1. epub'.generation <= card'.generation
    BY <1>5, <1>6 DEF EpubInv, EngineKnows
  <2>2. FilesOf(epub.metadata)'
    BY <1>4, <1>6, <1>8 DEF FilesOf
  <2>3. epub.phase = "finalize" /\ MediaValid => epub.metadata.source = card.version
    BY DEF EpubInv, EngineKnows
  <2>4. MediaValid => Alike(epub.metadata.source, card.version)
    BY <1>3 DEF EpubInv, EngineKnows
  <2> QED
    BY <1>2, <1>3, <1>5, <1>6, <2>1, <2>2, <2>3, <2>4 DEF EngineKnows, MediaValid, Alike
<1>12. TodoFits'
  <2>1. CASE n = 1
    <3>1. epub'.phase = "ready" /\ Len(epub'.todo) = 0
      BY <1>6, <2>1
    <3> QED
      BY <3>1 DEF TodoFits
  <2>2. CASE n = 2 \/ n = 3
    <3>1. epub'.phase = epub.phase /\ Len(epub'.todo) = n - 1 /\ n - 1 \in 1 .. 2
          /\ savedTemp' = epub.metadata
      <4>1. n = 2 => savedTemp = epub.metadata
        BY <1>1 DEF EpubInv, TodoFits
      <4> QED
        BY <1>4, <1>6, <2>2, <4>1
    <3>2. PICK d \in {0, 2} : d = Extra(epub.metadata)
      BY DEF Extra
    <3>3. /\ n - 1 \in 1 .. 3 /\ n - 1 <= 8 + d /\ ~ (n - 1 > 5 + d) /\ ~ (n - 1 > 3)
          /\ n - 1 \notin 4 + d .. 7 + d /\ n - 1 # 0
      BY <2>2, <3>2
    <3>4. Run(epub'.todo, epub'.metadata.cover, 0, Len(epub'.todo))
      BY <1>6
    <3>5. epub.phase = "finalize" =>
             /\ files["content"] = source /\ files["map"] = source
             /\ epub.metadata.cover => files["cover"] = source
      <4>1. /\ n > 0 /\ ~ (n > 5 + d) /\ n <= 3 + d /\ ~ (n > 3)
        BY <2>2, <3>2
      <4> QED
        BY <1>1, <1>2, <3>2, <4>1 DEF EpubInv, TodoFits
    <3> QED
      BY <1>2, <1>3, <1>4, <1>6, <3>1, <3>2, <3>3, <3>4, <3>5 DEF TodoFits
  <2> QED
    BY <1>7, <2>1, <2>2
<1> QED
  BY <1>9, <1>10, <1>11, <1>12 DEF EpubInv

\* An operation on a part: the metadata on the card, if there are any, stay older than
\* the parts or of their version.
LEMMA PartOperationKeeps ==
    ASSUME EpubInv, FileOperation, ~ (Len(epub.todo) <= 3) PROVE EpubInv'
<1>1. PICK n \in Nat : n = Len(epub.todo)
  BY Operating
<1>2. PICK source \in Versions : source = epub.metadata.source
  BY Operating DEF Metadata
<1>3. PICK d \in {0, 2} : d = Extra(epub.metadata) /\ (epub.metadata.cover => d = 2)
  BY DEF Extra
<1>4. /\ UNCHANGED <<saved, savedTemp>> /\ epub.phase = "finalize" /\ n <= 8 + d
      /\ n = 8 + d => Writes("map")
      /\ n = 7 + d => Removes("content")
      /\ n = 6 + d => Renames("content")
      /\ n = 5 + d => Removes("map")
      /\ n = 4 + d => Renames("map")
      /\ n = 5 /\ epub.metadata.cover => Removes("cover")
      /\ n = 4 /\ epub.metadata.cover => Renames("cover")
  <2>1. n > 3
    BY <1>1
  <2> QED
    BY <1>1, <1>3, <2>1, PartOperation
<1>5. /\ source = card.version /\ epub.metadata \in Metadata /\ n > 3
      /\ epub.metadata.place < ContentSize[source] /\ epub.metadata.paging = paging
  BY <1>1, <1>2, <1>4, Operating DEF EpubInv, EngineKnows
<1>6. UNCHANGED <<card, paging>> /\ MediaValid
  BY DEF FileOperation, cardOnly
<1>7. /\ epub' \in [phase : EpubPhases, generation : Nat, metadata : Metadata \cup {Missing},
                    spine : Nat, todo : Seq(Operations)]
      /\ epub'.phase = "finalize"
      /\ epub'.generation = epub.generation /\ epub'.metadata = epub.metadata
      /\ Len(epub'.todo) = n - 1
      /\ Run(epub'.todo, epub.metadata.cover, 0, n - 1)
  BY <1>1, <1>4, <1>5, EngineAfter
<1>8. /\ IF n > 5 + d THEN temps["content"] = source ELSE files["content"] = source
      /\ n \in 4 + d .. 7 + d => temps["map"] = source
      /\ n <= 3 + d => files["map"] = source
      /\ epub.metadata.cover => temps["cover"] = source
  BY <1>1, <1>2, <1>3, <1>4, <1>5 DEF EpubInv, TodoFits
<1>9. files \in Versioned /\ temps \in Versioned
  BY DEF EpubInv, EpubShape
<1>10. /\ files' \in Versioned /\ temps' \in Versioned
       /\ \A p \in Parts : files'[p] = files[p] \/ files'[p] = Missing \/ files'[p] = source
       /\ IF n - 1 > 5 + d THEN temps'["content"] = source ELSE files'["content"] = source
       /\ n - 1 \in 4 + d .. 7 + d => temps'["map"] = source
       /\ n - 1 <= 3 + d => files'["map"] = source
       /\ epub.metadata.cover =>
             IF n - 1 > 3 THEN temps'["cover"] = source ELSE files'["cover"] = source
  <2>1. CASE n = 8 + d
    BY <1>2, <1>3, <1>4, <1>8, <1>9, <2>1 DEF Writes, Versioned, Parts
  <2>2. CASE n = 7 + d
    BY <1>2, <1>3, <1>4, <1>8, <1>9, <2>2 DEF Removes, Versioned, Parts
  <2>3. CASE n = 6 + d
    BY <1>2, <1>3, <1>4, <1>8, <1>9, <2>3 DEF Renames, Versioned, Parts
  <2>4. CASE n = 5 + d
    BY <1>2, <1>3, <1>4, <1>8, <1>9, <2>4 DEF Removes, Versioned, Parts
  <2>5. CASE n = 4 + d
    BY <1>2, <1>3, <1>4, <1>8, <1>9, <2>5 DEF Renames, Versioned, Parts
  <2>6. CASE n = 5 /\ d = 2
    <3>1. epub.metadata.cover
      BY <1>3, <2>6 DEF Extra
    <3> QED
      BY <1>2, <1>3, <1>4, <1>8, <1>9, <2>6, <3>1 DEF Removes, Versioned, Parts
  <2>7. CASE n = 4 /\ d = 2
    <3>1. epub.metadata.cover
      BY <1>3, <2>7 DEF Extra
    <3> QED
      BY <1>2, <1>3, <1>4, <1>8, <1>9, <2>7, <3>1 DEF Renames, Versioned, Parts
  <2>8. \/ n = 8 + d \/ n = 7 + d \/ n = 6 + d \/ n = 5 + d \/ n = 4 + d
        \/ (n = 5 /\ d = 2) \/ (n = 4 /\ d = 2)
    BY <1>4, <1>5, FourOrMore
  <2> QED
    BY <2>1, <2>2, <2>3, <2>4, <2>5, <2>6, <2>7, <2>8
<1>11. EpubShape'
  BY <1>4, <1>6, <1>7, <1>10 DEF EpubInv, EpubShape
<1>12. Vouched'
  <2>1. source <= source /\ source # Missing
    BY EpubAssumption DEF Versions
  <2>2. \A p \in Parts : files'[p] # Missing => files'[p] <= card.version
    BY <1>5, <1>10, <2>1 DEF EpubInv, Vouched
  <2>3. saved # Missing =>
          /\ saved.source <= card.version /\ saved.place < ContentSize[saved.source]
          /\ \A p \in {"content", "map"} : files'[p] # Missing => saved.source <= files'[p]
          /\ saved.cover /\ files'["cover"] # Missing => saved.source <= files'["cover"]
    BY <1>5, <1>10, <2>1 DEF EpubInv, Vouched, Parts
  <2> QED
    BY <1>4, <1>6, <2>2, <2>3 DEF Vouched
<1>13. EngineKnows'
  <2>1. epub'.generation <= card'.generation
    BY <1>6, <1>7 DEF EpubInv, EngineKnows
  <2> QED
    BY <1>2, <1>5, <1>6, <1>7, <2>1 DEF EngineKnows, MediaValid, Alike
<1>14. TodoFits'
  <2>1. n - 1 # 0 /\ n - 1 > 0 /\ n - 1 <= 8 + d
        /\ (n - 1 \in 1 .. 2 => FALSE)
    BY <1>4, <1>5
  <2>2. Run(epub'.todo, epub'.metadata.cover, 0, Len(epub'.todo))
    BY <1>7
  <2>3. epub'.phase = "finalize" /\ Len(epub'.todo) = n - 1 /\ epub'.metadata.source = source
        /\ Extra(epub'.metadata) = d
    BY <1>2, <1>3, <1>7
  <2> QED
    BY <1>7, <1>10, <2>1, <2>2, <2>3 DEF TodoFits
<1> QED
  BY <1>11, <1>12, <1>13, <1>14 DEF EpubInv

\* The book has the version it had, or a later one on a card of another generation.
LEMMA CardKeeps ==
    ASSUME EpubInv, UNCHANGED <<files, temps, saved, savedTemp>>,
           card' \in [version : Versions, stat : 0 .. 1, generation : Nat],
           card.version <= card'.version
    PROVE  Vouched'
<1>1. /\ \A p \in Parts : files[p] # Missing => files[p] \in Int
      /\ card.version \in Int /\ card'.version \in Int
      /\ saved # Missing => saved.source \in Int
  <2>1. \A p \in Parts : files[p] # Missing => files[p] \in Versions
    BY DEF EpubInv, EpubShape, Versioned
  <2>2. card.version \in Versions /\ card'.version \in Versions
    BY DEF EpubInv, EpubShape
  <2>3. saved # Missing => saved.source \in Versions
    BY DEF EpubInv, EpubShape, Metadata
  <2>4. \A v \in Versions : v \in Int
    BY EpubAssumption DEF Versions
  <2> QED
    BY <2>1, <2>2, <2>3, <2>4
<1> QED
  BY <1>1 DEF EpubInv, Vouched

\* A build begins with nothing on the way.
LEMMA RebuildKeeps ==
    ASSUME EpubInv, Rebuild, UNCHANGED <<cardOnly, diskOnly>> PROVE EpubInv'
<1>1. PICK withCover \in BOOLEAN : withCover = (CoverSize[card.version] > 0)
  <2>1. CoverSize[card.version] \in Nat
    BY EpubAssumption DEF EpubInv, EpubShape
  <2>2. (CoverSize[card.version] > 0) \in BOOLEAN
    BY <2>1
  <2> QED
    BY <2>2, Zenon
<1>2. PICK metadata : metadata = [source |-> card.version, stat |-> card.stat,
                                  cover |-> withCover, place |-> 0, paging |-> paging]
  OBVIOUS
<1>3. metadata \in Metadata /\ 0 < ContentSize[card.version]
  <2>1. /\ 0 \in Nat /\ card.version \in Versions /\ card.stat \in 0 .. 1
        /\ paging \in 1 .. LastPaging
    BY DEF EpubInv, EpubShape
  <2>2. metadata \in Metadata
    BY <1>2, <2>1 DEF Metadata
  <2>3. 0 < ContentSize[card.version]
    <3>1. ContentSize[card.version] \in Nat /\ ContentSize[card.version] # 0
      BY <2>1, EpubAssumption
    <3> QED
      BY <3>1
  <2> QED
    BY <2>2, <2>3
<1>4. epub' = [phase |-> IF withCover THEN "cover" ELSE "spine",
               generation |-> card.generation, metadata |-> metadata, spine |-> 0,
               todo |-> <<>>]
  BY <1>1, <1>2 DEF Rebuild
<1>5. UNCHANGED <<card, files, temps, saved, savedTemp, paging>>
  BY DEF cardOnly, diskOnly
<1>6. EpubShape'
  BY <1>3, <1>4, <1>5 DEF EpubInv, EpubShape, EpubPhases
<1>7. Vouched'
  BY <1>5 DEF EpubInv, Vouched
<1>8. EngineKnows'
  <2>1. card.generation <= card.generation
    BY DEF EpubInv, EpubShape
  <2> QED
    BY <1>2, <1>3, <1>4, <1>5, <2>1 DEF EngineKnows, Alike
<1>9. TodoFits'
  <2>1. /\ epub'.phase \in {"cover", "spine"} /\ Len(epub'.todo) = 0
        /\ epub'.phase = "spine" => ~ epub'.metadata.cover
    BY <1>2, <1>4
  <2>2. 0 \notin 1 .. 2
    OBVIOUS
  <2> QED
    BY <2>1, <2>2 DEF TodoFits
<1> QED
  BY <1>6, <1>7, <1>8, <1>9 DEF EpubInv

\* A session that ended, or a power loss, leaves the files.
LEMMA FailedKeeps ==
    ASSUME EpubInv, Failed \/ epub' = IdleEpub, temps' \in Versioned,
           paging' \in 1 .. LastPaging, UNCHANGED <<card, files, saved, savedTemp>>
    PROVE  EpubInv'
<1>1. PICK phase \in {"idle", "failed"} :
         epub' = [phase |-> phase, generation |-> 0, metadata |-> Missing, spine |-> 0,
                  todo |-> <<>>]
  BY DEF Failed, IdleEpub
<1>2. EpubShape'
  BY <1>1 DEF EpubInv, EpubShape, EpubPhases
<1>3. Vouched'
  BY DEF EpubInv, Vouched
<1>4. EngineKnows'
  <2>1. 0 <= card.generation
    BY DEF EpubInv, EpubShape
  <2> QED
    BY <1>1, <2>1 DEF EngineKnows
<1>5. TodoFits'
  BY <1>1 DEF TodoFits
<1> QED
  BY <1>2, <1>3, <1>4, <1>5 DEF EpubInv

\* A cache that is opened has files that are the book's as far as the fingerprint tells.
LEMMA OpenValidKeeps == ASSUME EpubInv, OpenValid PROVE EpubInv'
<1>1. UNCHANGED <<card, files, temps, saved, savedTemp, paging>>
  BY DEF OpenValid, cardOnly, diskOnly
<1>2. /\ saved \in Metadata /\ Alike(saved.source, card.version) /\ saved # Missing
      /\ saved.place < ContentSize[saved.source] /\ saved.source \in Versions
  BY DEF OpenValid, Valid, EpubInv, EpubShape, Vouched, Metadata
<1>3. card \in [version : Versions, stat : 0 .. 1, generation : Nat]
      /\ paging \in 1 .. LastPaging
  BY DEF EpubInv, EpubShape
<1>4. FilesOf(saved)
  <2>1. \A p \in {"content", "map"} : p \in Parts /\ files[p] # Missing
    BY DEF OpenValid, Valid, Parts
  <2>2. saved.cover => files["cover"] # Missing
    BY DEF OpenValid, Valid
  <2>3. ContentSize[files["content"]] = ContentSize[saved.source]
    BY DEF OpenValid, Valid
  <2> QED
    BY <1>2, <2>1, <2>2, <2>3 DEF FilesOf, EpubInv, Vouched
<1>5. PICK place \in Nat : /\ place = IF saved.paging = paging THEN saved.place ELSE 0
                          /\ place < ContentSize[saved.source]
  <2>1. ContentSize[saved.source] \in Nat \ {0} /\ saved.place \in Nat
    BY <1>2, EpubAssumption DEF Metadata
  <2>2. 0 < ContentSize[saved.source] /\ 0 \in Nat
    BY <2>1
  <2> QED
    BY <1>2, <2>1, <2>2
<1>6. PICK metadata \in Metadata : /\ metadata = Renewed(saved)
                                 /\ metadata.source = saved.source
                                 /\ metadata.cover = saved.cover
                                 /\ metadata.place = place /\ metadata.paging = paging
  <2>1. Renewed(saved) = [saved EXCEPT !.stat = card.stat, !.paging = paging, !.place = place]
    BY <1>5 DEF Renewed
  <2>2. /\ Renewed(saved) \in Metadata /\ Renewed(saved).source = saved.source
        /\ Renewed(saved).cover = saved.cover
        /\ Renewed(saved).place = place /\ Renewed(saved).paging = paging
    BY <1>2, <1>3, <2>1 DEF Metadata
  <2> QED
    BY <2>2
<1>7. /\ Alike(metadata.source, card.version) /\ metadata.place < ContentSize[metadata.source]
      /\ metadata.cover \in BOOLEAN /\ FilesOf(metadata)
  BY <1>2, <1>4, <1>5, <1>6 DEF Metadata, FilesOf
<1>8. PICK same \in BOOLEAN : same = (saved = Renewed(saved))
  OBVIOUS
<1>9. PICK todo \in Seq(Operations) : todo = IF same THEN <<>> ELSE WriteMetadata
  <2>1. Run(WriteMetadata, TRUE, 0, 3)
    BY MetadataEnds
  <2>2. WriteMetadata \in Seq(Operations) /\ <<>> \in Seq(Operations)
    BY <2>1 DEF Run
  <2> QED
    BY <2>2
<1>10. epub' = [phase |-> IF same THEN "ready" ELSE "validate", generation |-> card.generation,
                metadata |-> metadata, spine |-> 0, todo |-> todo]
  BY <1>6, <1>8, <1>9 DEF OpenValid
<1>11. EpubShape'
  BY <1>1, <1>3, <1>10 DEF EpubInv, EpubShape, EpubPhases
<1>12. Vouched'
  BY <1>1 DEF EpubInv, Vouched
<1>13. EngineKnows'
  <2>1. card.generation <= card.generation
    BY <1>3
  <2>2. FilesOf(metadata)'
    BY <1>1, <1>7, <1>10 DEF FilesOf
  <2> QED
    BY <1>1, <1>6, <1>7, <1>10, <2>1, <2>2 DEF EngineKnows, Alike
<1>14. TodoFits'
  <2>1. CASE same
    BY <1>9, <1>10, <2>1 DEF TodoFits
  <2>2. CASE ~ same
    <3>1. epub'.phase = "validate" /\ epub'.metadata = metadata /\ epub'.todo = WriteMetadata
      BY <1>9, <1>10, <2>2
    <3>2. Run(WriteMetadata, metadata.cover, 0, 3) /\ Len(WriteMetadata) = 3
      BY <1>7, MetadataEnds DEF Run
    <3>3. Len(epub'.todo) = 3 /\ 3 \in 1 .. 3 /\ 3 \notin 1 .. 2
      BY <3>1, <3>2
    <3> QED
      BY <3>1, <3>2, <3>3 DEF TodoFits
  <2> QED
    BY <2>1, <2>2
<1> QED
  BY <1>11, <1>12, <1>13, <1>14 DEF EpubInv

\* An extraction changes the temporary files alone, and the phase.
LEMMA StepKeeps ==
    ASSUME EpubInv, CoverDone \/ CoverFails \/ SpineDone \/ SpineFails PROVE EpubInv'
<1>1. UNCHANGED <<card, files, saved, savedTemp, paging>> /\ epub.phase \in {"cover", "spine"}
      /\ MediaValid /\ Len(epub.todo) = 0
  BY DEF CoverDone, CoverFails, SpineDone, SpineFails, cardOnly, EpubInv, TodoFits
<1>2. epub.metadata \in Metadata /\ epub.metadata.source \in Versions
      /\ epub.metadata.source = card.version
      /\ epub.metadata.place < ContentSize[epub.metadata.source]
      /\ epub.metadata.paging = paging
  BY <1>1 DEF EpubInv, EngineKnows, Metadata
<1>3. temps' \in Versioned
  BY <1>1, <1>2
     DEF CoverDone, CoverFails, SpineDone, SpineFails, EpubInv, EpubShape, Versioned
<1>4. temps \in Versioned /\ epub \in [phase : EpubPhases, generation : Nat,
         metadata : Metadata \cup {Missing}, spine : Nat, todo : Seq(Operations)]
  BY DEF EpubInv, EpubShape
<1>5. Vouched'
  BY <1>1 DEF EpubInv, Vouched
<1>6. CASE CoverDone
  <2>1. /\ epub' \in [phase : EpubPhases, generation : Nat, metadata : Metadata \cup {Missing},
                      spine : Nat, todo : Seq(Operations)]
        /\ epub'.phase = "spine" /\ epub'.todo = epub.todo
        /\ epub'.metadata = epub.metadata /\ epub'.generation = epub.generation
    BY <1>4, <1>6 DEF CoverDone, EpubPhases
  <2>2. temps'["cover"] = epub.metadata.source
    BY <1>4, <1>6 DEF CoverDone, Versioned, Parts
  <2>3. EpubShape'
    BY <1>1, <1>3, <2>1 DEF EpubInv, EpubShape
  <2>4. EngineKnows'
    BY <1>1, <1>2, <2>1 DEF EpubInv, EngineKnows, MediaValid, Alike, FilesOf
  <2>5. TodoFits'
    <3>1. Len(epub'.todo) = 0 /\ 0 \notin 1 .. 2
      BY <1>1, <2>1
    <3> QED
      BY <2>1, <2>2, <3>1 DEF TodoFits
  <2> QED
    BY <1>5, <2>3, <2>4, <2>5 DEF EpubInv
<1>7. CASE CoverFails
  <2>1. PICK metadata \in Metadata : metadata = [epub.metadata EXCEPT !.cover = FALSE]
    BY <1>2 DEF Metadata
  <2>2. metadata.source = epub.metadata.source /\ metadata.place = epub.metadata.place
        /\ ~ metadata.cover /\ metadata.paging = epub.metadata.paging
    BY <1>2, <2>1 DEF Metadata
  <2>3. epub' = [epub EXCEPT !.phase = "spine", !.metadata = metadata]
    BY <1>7, <2>1 DEF CoverFails
  <2>4. /\ epub' \in [phase : EpubPhases, generation : Nat, metadata : Metadata \cup {Missing},
                      spine : Nat, todo : Seq(Operations)]
        /\ epub'.phase = "spine" /\ epub'.todo = epub.todo
        /\ epub'.metadata = metadata /\ epub'.generation = epub.generation
    BY <1>4, <2>3 DEF EpubPhases
  <2>5. EpubShape'
    BY <1>1, <1>3, <2>4 DEF EpubInv, EpubShape
  <2>6. EngineKnows'
    BY <1>1, <1>2, <2>2, <2>4 DEF EpubInv, EngineKnows, MediaValid, Alike, FilesOf
  <2>7. TodoFits'
    <3>1. Len(epub'.todo) = 0 /\ 0 \notin 1 .. 2 /\ ~ epub'.metadata.cover
      BY <1>1, <2>2, <2>4
    <3> QED
      BY <2>4, <3>1 DEF TodoFits
  <2> QED
    BY <1>5, <2>5, <2>6, <2>7 DEF EpubInv
<1>8. CASE SpineDone
  <2>1. PICK last \in BOOLEAN : last = (epub.spine + 1 = SpineItems)
    OBVIOUS
  <2>2. PICK phase \in {"finalize", "spine"} : phase = IF last THEN "finalize" ELSE "spine"
    OBVIOUS
  <2>3. PICK spine \in Nat : spine = epub.spine + 1
    BY <1>4
  <2>4. /\ epub' = [epub EXCEPT !.spine = spine, !.phase = phase]
        /\ temps' = [temps EXCEPT !["content"] =
                        IF last THEN epub.metadata.source ELSE Missing]
        /\ epub.phase = "spine"
    BY <1>8, <2>1, <2>2, <2>3 DEF SpineDone
  <2>5. /\ epub' \in [phase : EpubPhases, generation : Nat, metadata : Metadata \cup {Missing},
                      spine : Nat, todo : Seq(Operations)]
        /\ epub'.phase = phase /\ epub'.todo = epub.todo
        /\ epub'.metadata = epub.metadata /\ epub'.generation = epub.generation
    BY <1>4, <2>4 DEF EpubPhases
  <2>6. /\ temps'["cover"] = temps["cover"]
        /\ last => temps'["content"] = epub.metadata.source
    BY <1>4, <2>4 DEF Versioned, Parts
  <2>7. epub.metadata.cover => temps["cover"] = epub.metadata.source
    BY <2>4 DEF EpubInv, TodoFits
  <2>8. EpubShape'
    BY <1>1, <1>3, <2>5 DEF EpubInv, EpubShape
  <2>9. EngineKnows'
    BY <1>1, <1>2, <2>5 DEF EpubInv, EngineKnows, MediaValid, Alike, FilesOf
  <2>10. TodoFits'
    <3>1. PICK d \in {0, 2} : d = Extra(epub'.metadata)
      BY DEF Extra
    <3>2. Len(epub'.todo) = 0 /\ 0 <= 8 + d
      BY <1>1, <2>5
    <3>3. Run(epub'.todo, epub'.metadata.cover, 0, 0)
      BY <1>4, <2>5, <3>2 DEF Run
    <3> QED
      BY <2>2, <2>5, <2>6, <2>7, <3>1, <3>2, <3>3 DEF TodoFits
  <2> QED
    BY <1>5, <2>8, <2>9, <2>10 DEF EpubInv
<1>9. CASE SpineFails
  <2>1. paging' \in 1 .. LastPaging
    BY <1>1 DEF EpubInv, EpubShape
  <2> QED
    BY <1>1, <1>3, <1>9, <2>1, FailedKeeps DEF SpineFails
<1> QED
  BY <1>6, <1>7, <1>8, <1>9

\* The engine starts on a list of operations.
LEMMA StartKeeps == ASSUME EpubInv, Finalize \/ SavePlace PROVE EpubInv'
<1>1. UNCHANGED <<card, files, temps, saved, savedTemp, paging>>
  BY DEF Finalize, SavePlace, cardOnly, diskOnly
<1>2. epub \in [phase : EpubPhases, generation : Nat, metadata : Metadata \cup {Missing},
                spine : Nat, todo : Seq(Operations)]
  BY DEF EpubInv, EpubShape
<1>3. /\ epub.metadata \in Metadata /\ epub.metadata.cover \in BOOLEAN
      /\ epub.metadata.source \in Versions
  BY DEF Finalize, SavePlace, EpubInv, EngineKnows, Metadata
<1>4. Vouched'
  BY <1>1 DEF EpubInv, Vouched
<1>5. CASE Finalize
  <2>1. PICK todo : todo = Publishing(epub.metadata.cover)
    OBVIOUS
  <2>2. PICK d \in {0, 2} : d = Extra(epub.metadata) /\ (epub.metadata.cover => d = 2)
    BY DEF Extra
  <2>3. Run(todo, epub.metadata.cover, 0, 8 + d)
    BY <1>3, <2>1, <2>2, PublishingEnds DEF Extra
  <2>4. todo \in Seq(Operations) /\ Len(todo) = 8 + d
    BY <2>3 DEF Run
  <2>5. epub' = [epub EXCEPT !.todo = todo] /\ epub.phase = "finalize" /\ Len(epub.todo) = 0
    BY <1>5, <2>1 DEF Finalize
  <2>6. /\ epub' \in [phase : EpubPhases, generation : Nat, metadata : Metadata \cup {Missing},
                      spine : Nat, todo : Seq(Operations)]
        /\ epub'.phase = "finalize" /\ epub'.todo = todo
        /\ epub'.metadata = epub.metadata /\ epub'.generation = epub.generation
    BY <1>2, <2>4, <2>5
  <2>7. EpubShape'
    BY <1>1, <2>6 DEF EpubInv, EpubShape
  <2>8. EngineKnows'
    BY <1>1, <1>5, <2>6 DEF Finalize, EpubInv, EngineKnows, MediaValid
  <2>9. TodoFits'
    <3>1. /\ temps["content"] = epub.metadata.source
          /\ epub.metadata.cover => temps["cover"] = epub.metadata.source
      BY <2>5 DEF EpubInv, TodoFits
    <3>2. /\ 8 + d \notin 1 .. 2 /\ 8 + d # 0 /\ 8 + d <= 8 + d /\ 8 + d > 5 + d
          /\ 8 + d > 3 /\ 8 + d \notin 4 + d .. 7 + d /\ ~ (8 + d <= 3 + d)
      OBVIOUS
    <3>3. Len(epub'.todo) = 8 + d /\ Extra(epub'.metadata) = d
      BY <2>2, <2>4, <2>6
    <3> QED
      BY <1>1, <2>3, <2>6, <3>1, <3>2, <3>3 DEF TodoFits
  <2> QED
    BY <1>4, <2>7, <2>8, <2>9 DEF EpubInv
<1>6. CASE SavePlace
  <2>1. PICK place \in 0 .. ContentSize[epub.metadata.source] - 1 :
           epub' = [epub EXCEPT !.phase = "save", !.metadata.place = place,
                                !.todo = WriteMetadata]
    BY <1>6 DEF SavePlace
  <2>2. place \in Nat /\ place < ContentSize[epub.metadata.source]
    <3>1. ContentSize[epub.metadata.source] \in Nat
      BY <1>3, EpubAssumption
    <3> QED
      BY <3>1
  <2>3. PICK metadata : metadata = [epub.metadata EXCEPT !.place = place]
    OBVIOUS
  <2>4. /\ metadata \in Metadata /\ metadata.source = epub.metadata.source
        /\ metadata.place = place /\ metadata.cover = epub.metadata.cover
        /\ metadata.paging = epub.metadata.paging
    BY <1>3, <2>2, <2>3 DEF Metadata
  <2>5. PICK todo : todo = WriteMetadata
    OBVIOUS
  <2>6. Run(todo, epub.metadata.cover, 0, 3)
    BY <1>3, <2>5, MetadataEnds
  <2>7. todo \in Seq(Operations) /\ Len(todo) = 3
    BY <2>6 DEF Run
  <2>8. epub' = [epub EXCEPT !.phase = "save", !.metadata = metadata, !.todo = todo]
    BY <2>1, <2>3, <2>5
  <2>9. /\ epub' \in [phase : EpubPhases, generation : Nat, metadata : Metadata \cup {Missing},
                      spine : Nat, todo : Seq(Operations)]
        /\ epub'.phase = "save" /\ epub'.todo = todo
        /\ epub'.metadata = metadata /\ epub'.generation = epub.generation
    BY <1>2, <2>4, <2>7, <2>8 DEF EpubPhases
  <2>10. EpubShape'
    BY <1>1, <2>9 DEF EpubInv, EpubShape
  <2>11. EngineKnows'
    <3>1. epub.phase = "ready" /\ UNCHANGED <<card, files, paging>>
      BY <1>1, <1>6 DEF SavePlace
    <3>2. /\ epub.generation <= card.generation
          /\ epub.metadata.paging = paging /\ FilesOf(epub.metadata)
          /\ MediaValid => Alike(epub.metadata.source, card.version)
      BY <3>1 DEF EpubInv, EngineKnows
    <3>3. FilesOf(metadata)'
      BY <2>4, <3>1, <3>2 DEF FilesOf
    <3> QED
      BY <2>2, <2>4, <2>9, <3>1, <3>2, <3>3 DEF EngineKnows, MediaValid, Alike
  <2>12. TodoFits'
    <3>1. Len(epub'.todo) = 3 /\ 3 \notin 1 .. 2 /\ 3 \in 1 .. 3
      BY <2>7, <2>9
    <3>2. Run(epub'.todo, epub'.metadata.cover, 0, Len(epub'.todo))
      BY <2>4, <2>6, <2>9, <3>1
    <3> QED
      BY <2>9, <3>1, <3>2 DEF TodoFits
  <2> QED
    BY <1>4, <2>10, <2>11, <2>12 DEF EpubInv
<1> QED
  BY <1>5, <1>6

\* An operation fails: those before it are done, and those after it are not.
LEMMA FailsKeeps == ASSUME EpubInv, OperationFails PROVE EpubInv'
<1>1. UNCHANGED <<card, files, temps, saved, savedTemp, paging>>
  BY DEF OperationFails, cardOnly, diskOnly
<1>2. CASE Failed
  BY <1>1, <1>2, FailedKeeps DEF EpubInv, EpubShape
<1>3. CASE Rebuild
  BY <1>3, RebuildKeeps DEF OperationFails
<1>4. CASE epub.phase = "save" /\ epub' = [epub EXCEPT !.phase = "ready", !.todo = <<>>]
  <2>1. /\ epub' \in [phase : EpubPhases, generation : Nat, metadata : Metadata \cup {Missing},
                      spine : Nat, todo : Seq(Operations)]
        /\ epub'.phase = "ready" /\ epub'.todo = <<>>
        /\ epub'.metadata = epub.metadata /\ epub'.generation = epub.generation
    <3>1. epub \in [phase : EpubPhases, generation : Nat, metadata : Metadata \cup {Missing},
                    spine : Nat, todo : Seq(Operations)]
      BY DEF EpubInv, EpubShape
    <3>2. PICK none \in Seq(Operations) : none = <<>>
      <4>1. <<>> \in Seq(Operations)
        OBVIOUS
      <4> QED
        BY <4>1, Zenon
    <3>3. epub' = [epub EXCEPT !.phase = "ready", !.todo = none]
      BY <1>4, <3>2
    <3> QED
      BY <3>1, <3>2, <3>3 DEF EpubPhases
  <2>2. EpubShape'
    BY <1>1, <2>1 DEF EpubInv, EpubShape
  <2>3. EngineKnows'
    BY <1>1, <1>4, <2>1 DEF EpubInv, EngineKnows, MediaValid, Alike, FilesOf
  <2>4. TodoFits'
    <3>1. Len(epub'.todo) = 0 /\ 0 \notin 1 .. 2
      BY <2>1
    <3> QED
      BY <2>1, <3>1 DEF TodoFits
  <2>5. Vouched'
    BY <1>1 DEF EpubInv, Vouched
  <2> QED
    BY <2>2, <2>3, <2>4, <2>5 DEF EpubInv
<1> QED
  BY <1>2, <1>3, <1>4 DEF OperationFails

\* The card is exchanged or the book edited.
LEMMA SwapKeeps == ASSUME EpubInv, SwapCard PROVE EpubInv'
<1>1. PICK v \in card.version .. LastVersion, s \in 0 .. 1 :
         card' = [version |-> v, stat |-> s, generation |-> card.generation + 1]
  BY DEF SwapCard
<1>2. UNCHANGED <<epub, files, temps, saved, savedTemp, paging>>
  BY DEF SwapCard, diskOnly
<1>3. card.version \in Versions /\ card.version \in Nat /\ card.generation \in Nat
      /\ epub.generation \in Nat /\ LastVersion \in Nat
  BY EpubAssumption DEF EpubInv, EpubShape, Versions
<1>4. v \in Versions /\ card.version <= v
  BY <1>3 DEF Versions
<1>5. PICK g \in Nat : g = card.generation + 1
  BY <1>3
<1>6. card' = [version |-> v, stat |-> s, generation |-> g]
  BY <1>1, <1>5
<1>7. /\ card' \in [version : Versions, stat : 0 .. 1, generation : Nat]
      /\ card'.version = v /\ card'.generation = g
  BY <1>4, <1>6
<1>8. EpubShape'
  BY <1>2, <1>7 DEF EpubInv, EpubShape
<1>9. Vouched'
  BY <1>2, <1>4, <1>7, CardKeeps
<1>10. EngineKnows'
  <2>1. epub.generation <= g /\ epub.generation # g
    BY <1>3, <1>5 DEF EpubInv, EngineKnows
  <2> QED
    BY <1>2, <1>7, <2>1 DEF EpubInv, EngineKnows, MediaValid, FilesOf
<1>11. TodoFits'
  BY <1>2 DEF EpubInv, TodoFits
<1> QED
  BY <1>8, <1>9, <1>10, <1>11 DEF EpubInv

\* Every step keeps the invariant.
LEMMA EpubStep == ASSUME EpubInv, EpubNext \/ UNCHANGED epubVars PROVE EpubInv'
<1>1. CASE OpenRebuilds
  BY <1>1, RebuildKeeps DEF OpenRebuilds
<1>2. CASE FileOperation
  BY <1>2, MetadataOperationKeeps, PartOperationKeeps
<1>3. CASE CancelEpub \/ LosePower
  <2>1. /\ epub' = IdleEpub /\ UNCHANGED <<card, files, temps, saved, savedTemp>>
        /\ paging' \in 1 .. LastPaging
    BY <1>3, EpubAssumption
       DEF CancelEpub, LosePower, cardOnly, diskOnly, EpubInv, EpubShape
  <2> QED
    BY <2>1, FailedKeeps DEF EpubInv, EpubShape
<1>4. CASE UNCHANGED epubVars
  <2>1. UNCHANGED <<card, files, temps, saved, savedTemp, epub, paging>>
    BY <1>4 DEF epubVars
  <2>2. EpubShape'
    BY <2>1 DEF EpubInv, EpubShape
  <2>3. TodoFits'
    BY <2>1 DEF EpubInv, TodoFits
  <2>4. Vouched'
    BY <2>1 DEF EpubInv, Vouched
  <2>5. EngineKnows'
    BY <2>1 DEF EpubInv, EngineKnows, MediaValid, Alike, FilesOf
  <2> QED
    BY <2>2, <2>3, <2>4, <2>5 DEF EpubInv
<1> QED
  BY <1>1, <1>2, <1>3, <1>4, OpenValidKeeps, StepKeeps, StartKeeps, FailsKeeps, SwapKeeps
     DEF EpubNext

\* What lies between two versions with one fingerprint has it, too.
LEMMA ReadyIsSound == ASSUME EpubInv PROVE CacheSound
<1>1. SUFFICES ASSUME epub.phase \in {"ready", "save"}, MediaValid
               PROVE  /\ \A p \in {"content", "map"} :
                            files[p] # Missing /\ Alike(files[p], card.version)
                      /\ epub.metadata.cover =>
                            files["cover"] # Missing /\ Alike(files["cover"], card.version)
                      /\ epub.metadata.place < ContentSize[files["content"]]
                      /\ epub.metadata.paging = paging
  BY DEF CacheSound
<1>2. /\ epub.metadata \in Metadata /\ epub.metadata.paging = paging
      /\ epub.metadata.place < ContentSize[epub.metadata.source]
      /\ Alike(epub.metadata.source, card.version) /\ FilesOf(epub.metadata)
  BY <1>1 DEF EpubInv, EngineKnows
<1>3. epub.metadata.source \in Versions /\ card.version \in Versions
  BY <1>2 DEF Metadata, EpubInv, EpubShape
<1>4. ASSUME NEW p \in Parts, files[p] # Missing, epub.metadata.source <= files[p]
      PROVE  Alike(files[p], card.version)
  <2>1. files[p] \in Versions /\ files[p] <= card.version
    BY <1>4 DEF EpubInv, EpubShape, Versioned, Vouched
  <2>2. Alike(epub.metadata.source, files[p])
    BY <1>2, <1>3, <1>4, <2>1, EditAssumption
  <2> QED
    BY <1>2, <2>2 DEF Alike
<1> QED
  BY <1>2, <1>4 DEF FilesOf, Parts

\* A cache that is ready holds a text, a map and a cover that are the book's on the card
\* as far as its fingerprint tells, and a place in that text under the running
\* pagination, after any series of power losses, failed operations, edits and changes of
\* the firmware (finalize, validate_cached).
THEOREM EpubCacheSound == EpubSpec => []CacheSound
<1>1. EpubInit => EpubInv
  <2>1. SUFFICES ASSUME EpubInit PROVE EpubInv
    OBVIOUS
  <2>2. /\ card = [version |-> 1, stat |-> 0, generation |-> 1] /\ 1 \in Versions
        /\ files = [p \in Parts |-> Missing] /\ temps = [p \in Parts |-> Missing]
        /\ saved = Missing /\ savedTemp = Missing /\ paging = 1
        /\ epub = [phase |-> "idle", generation |-> 0, metadata |-> Missing, spine |-> 0,
                   todo |-> <<>>]
    BY <2>1, EpubAssumption DEF EpubInit, IdleEpub, Versions
  <2>3. EpubShape
    BY <2>2, EpubAssumption DEF EpubShape, Versioned, EpubPhases
  <2>4. TodoFits
    <3>1. Len(epub.todo) = 0 /\ 0 \notin 1 .. 2
      BY <2>2
    <3> QED
      BY <2>2, <3>1 DEF TodoFits
  <2>5. Vouched /\ EngineKnows
    BY <2>2 DEF Vouched, EngineKnows
  <2> QED
    BY <2>3, <2>4, <2>5 DEF EpubInv
<1>2. EpubInv /\ [EpubNext]_epubVars => EpubInv'
  BY EpubStep
<1>3. EpubInv => CacheSound
  BY ReadyIsSound
<1> QED
  BY <1>1, <1>2, <1>3, PTL DEF EpubSpec

-----------------------------------------------------------------------------
(* The calendar.  Within a month, over its end and over the end of a year  *)
(* the date that follows another has the next day number, which needs the  *)
(* leap years of the century to be where the quotients of the day number   *)
(* change.  How far several days lead is an induction, carried out on the  *)
(* least counterexample.                                                   *)

\* Numbers have a least one.
LEMMA LeastNumber ==
    ASSUME NEW T, T \subseteq Nat, T # {}
    PROVE  \E x \in T : \A y \in T : x <= y
<1> DEFINE R == {ss \in Nat \X Nat : ss[1] < ss[2]}
<1>1. IsWellFoundedOn(R, Nat)
  BY NatLessThanWellFounded DEF OpToRel
<1>2. PICK x \in T : \A y \in T : ~ (<<y, x>> \in R)
  <2> HIDE DEF R
  <2> QED
    BY <1>1, WFMin
<1>3. ASSUME NEW y \in T PROVE x <= y
  <2>1. x \in Nat /\ y \in Nat
    OBVIOUS
  <2>2. ~ (y < x)
    BY <1>2, <2>1
  <2> QED
    BY <2>1, <2>2
<1> QED
  BY <1>3

\* The dates there are, and their numbers.
YearSet == 2000 .. 2099
MonthSet == 1 .. 12
DaySet == 1 .. 31
Days == {d \in [year : YearSet, month : MonthSet, day : DaySet] :
            d.day <= DaysInMonth(d.year, d.month)}
Number(d) == DayNumber(d.year, d.month, d.day)

\* The lengths of the months.
LEMMA MonthLengths ==
    /\ \A y : DaysInMonth(y, 2) = IF IsLeapYear(y) THEN 29 ELSE 28
    /\ \A y : \A m \in {1, 3, 5, 7, 8, 10, 12} : DaysInMonth(y, m) = 31
    /\ \A y : \A m \in {4, 6, 9, 11} : DaysInMonth(y, m) = 30
BY DEF DaysInMonth, MonthDays

\* A hundred years and their 25 leap days.
LEMMA CenturyIs == Century = 36525
BY DEF Century, DayNumber

\* A year is longer by the day that the quotients count.
LEMMA LeapYears ==
    ASSUME NEW y \in YearSet
    PROVE  365 * y + y \div 4 - y \div 100 + y \div 400
             = 365 * (y - 1) + (y - 1) \div 4 - (y - 1) \div 100 + (y - 1) \div 400
               + (IF IsLeapYear(y) THEN 366 ELSE 365)
BY DEF IsLeapYear, YearSet

\* The day after another is of the next number,
LEMMA NextDay ==
    ASSUME NEW y \in YearSet, NEW m \in MonthSet, NEW d \in Int
    PROVE  DayNumber(y, m, d) \in Int /\ DayNumber(y, m, d + 1) = DayNumber(y, m, d) + 1
<1>1. PICK z \in Int : z = IF m > 2 THEN y ELSE y - 1
  BY DEF YearSet, MonthSet
<1>2. PICK k \in Int : k = (153 * ((m + 9) % 12) + 2) \div 5
  BY DEF MonthSet
<1>3. \A e \in Int : DayNumber(y, m, e)
                       = 365 * z + z \div 4 - z \div 100 + z \div 400 + k + e
  BY <1>1, <1>2 DEF DayNumber
<1> QED
  BY <1>3

\* over the end of a month
LEMMA NextMonth ==
    ASSUME NEW y \in YearSet, NEW m \in 1 .. 11
    PROVE  DayNumber(y, m + 1, 1) = DayNumber(y, m, DaysInMonth(y, m)) + 1
<1>1. m \in {1, 2, 3, 4, 5, 6, 7, 8, 9, 10, 11}
  OBVIOUS
<1>2. PICK a, b \in Int :
        /\ a = 365 * y + y \div 4 - y \div 100 + y \div 400
        /\ b = 365 * (y - 1) + (y - 1) \div 4 - (y - 1) \div 100 + (y - 1) \div 400
  BY DEF YearSet
<1>3. a = b + (IF IsLeapYear(y) THEN 366 ELSE 365)
  BY <1>2, LeapYears
<1>4. /\ DayNumber(y, 1, 31) = b + 337 /\ DayNumber(y, 2, 1) = b + 338
      /\ DayNumber(y, 2, 28) = b + 365 /\ DayNumber(y, 2, 29) = b + 366
      /\ DayNumber(y, 3, 1) = a + 1 /\ DayNumber(y, 3, 31) = a + 31
      /\ DayNumber(y, 4, 1) = a + 32 /\ DayNumber(y, 4, 30) = a + 61
      /\ DayNumber(y, 5, 1) = a + 62 /\ DayNumber(y, 5, 31) = a + 92
      /\ DayNumber(y, 6, 1) = a + 93 /\ DayNumber(y, 6, 30) = a + 122
      /\ DayNumber(y, 7, 1) = a + 123 /\ DayNumber(y, 7, 31) = a + 153
      /\ DayNumber(y, 8, 1) = a + 154 /\ DayNumber(y, 8, 31) = a + 184
      /\ DayNumber(y, 9, 1) = a + 185 /\ DayNumber(y, 9, 30) = a + 214
      /\ DayNumber(y, 10, 1) = a + 215 /\ DayNumber(y, 10, 31) = a + 245
      /\ DayNumber(y, 11, 1) = a + 246 /\ DayNumber(y, 11, 30) = a + 275
      /\ DayNumber(y, 12, 1) = a + 276
  BY <1>2 DEF DayNumber
<1>5. CASE m = 2
  BY <1>3, <1>4, <1>5, MonthLengths
<1>6. CASE m \in {1, 3, 5, 7, 8, 10}
  <2>1. DaysInMonth(y, m) = 31
    BY <1>6, MonthLengths
  <2>2. /\ DayNumber(y, 2, 1) = DayNumber(y, 1, 31) + 1
        /\ DayNumber(y, 4, 1) = DayNumber(y, 3, 31) + 1
        /\ DayNumber(y, 6, 1) = DayNumber(y, 5, 31) + 1
        /\ DayNumber(y, 8, 1) = DayNumber(y, 7, 31) + 1
        /\ DayNumber(y, 9, 1) = DayNumber(y, 8, 31) + 1
        /\ DayNumber(y, 11, 1) = DayNumber(y, 10, 31) + 1
    BY <1>4
  <2>3. \A n \in {1, 3, 5, 7, 8, 10} : DayNumber(y, n + 1, 1) = DayNumber(y, n, 31) + 1
    BY <2>2
  <2> QED
    BY <1>6, <2>1, <2>3
<1>7. CASE m \in {4, 6, 9, 11}
  <2>1. DaysInMonth(y, m) = 30
    BY <1>7, MonthLengths
  <2>2. /\ DayNumber(y, 5, 1) = DayNumber(y, 4, 30) + 1
        /\ DayNumber(y, 7, 1) = DayNumber(y, 6, 30) + 1
        /\ DayNumber(y, 10, 1) = DayNumber(y, 9, 30) + 1
        /\ DayNumber(y, 12, 1) = DayNumber(y, 11, 30) + 1
    BY <1>4
  <2>3. \A n \in {4, 6, 9, 11} : DayNumber(y, n + 1, 1) = DayNumber(y, n, 30) + 1
    BY <2>2
  <2> QED
    BY <1>7, <2>1, <2>3
<1> QED
  BY <1>1, <1>5, <1>6, <1>7

\* and of a year; the century ends where it began.
LEMMA NextYear ==
    ASSUME NEW y \in YearSet
    PROVE  DayNumber(AfterYear(y), 1, 1) = DayNumber(y, 12, 31) + 1
               - (IF y = 2099 THEN Century ELSE 0)
<1>1. CASE y = 2099
  BY <1>1, CenturyIs DEF DayNumber, AfterYear
<1>2. CASE y # 2099
  BY <1>2 DEF DayNumber, AfterYear, YearSet
<1> QED
  BY <1>1, <1>2

\* In all, the date advanced has the next number, but for a century.
LEMMA DayAfter ==
    ASSUME NEW d \in Days
    PROVE  /\ Advanced(d) \in Days /\ Number(d) \in Int /\ Number(Advanced(d)) \in Int
           /\ \/ Number(Advanced(d)) = Number(d) + 1
              \/ Number(Advanced(d)) = Number(d) + 1 - Century
<1>1. PICK y \in YearSet, m \in MonthSet, k \in DaySet :
        y = d.year /\ m = d.month /\ k = d.day
  <2>1. d \in [year : YearSet, month : MonthSet, day : DaySet]
    BY DEF Days
  <2>2. d.year \in YearSet /\ d.month \in MonthSet /\ d.day \in DaySet
    BY <2>1
  <2>3. PICK y \in YearSet : y = d.year
    BY <2>2
  <2>4. PICK m \in MonthSet : m = d.month
    BY <2>2
  <2>5. PICK k \in DaySet : k = d.day
    BY <2>2
  <2> QED
    BY <2>3, <2>4, <2>5
<1>2. d = [year |-> y, month |-> m, day |-> k] /\ k <= DaysInMonth(y, m)
  BY <1>1 DEF Days
<1>3. DaysInMonth(y, m) \in 28 .. 31 /\ \A z : DaysInMonth(z, 1) = 31
  <2>1. m \in {1, 2, 3, 4, 5, 6, 7, 8, 9, 10, 11, 12}
    BY <1>1 DEF MonthSet
  <2> QED
    BY <2>1, MonthLengths
<1>4. Number(d) = DayNumber(y, m, k) /\ DayNumber(y, m, k) \in Int
  <2>1. k \in Int
    BY <1>1 DEF DaySet
  <2>2. DayNumber(y, m, k) \in Int
    BY <1>1, <2>1, NextDay, Zenon
  <2> QED
    BY <1>1, <2>2 DEF Number
<1>5. CASE k < DaysInMonth(y, m)
  <2>1. PICK e : e = Advanced(d)
    OBVIOUS
  <2>2. e = [year |-> y, month |-> m, day |-> k + 1]
    BY <1>1, <1>2, <1>5, <2>1 DEF Advanced
  <2>3. e \in Days
    <3>1. k + 1 \in DaySet /\ k + 1 <= DaysInMonth(y, m)
      BY <1>1, <1>3, <1>5 DEF DaySet
    <3> QED
      BY <1>1, <2>2, <3>1 DEF Days
  <2>4. Number(e) = DayNumber(y, m, k) + 1
    <3>1. k \in Int /\ e.year = y /\ e.month = m /\ e.day = k + 1
      BY <1>1, <2>2 DEF DaySet
    <3>2. DayNumber(y, m, k + 1) = DayNumber(y, m, k) + 1
      BY <1>1, <3>1, NextDay, Zenon
    <3> QED
      BY <3>1, <3>2 DEF Number
  <2> QED
    BY <1>4, <2>1, <2>3, <2>4
<1>6. CASE ~ (k < DaysInMonth(y, m)) /\ m < 12
  <2>1. PICK e : e = Advanced(d)
    OBVIOUS
  <2>2. e = [year |-> y, month |-> m + 1, day |-> 1]
    BY <1>1, <1>6, <2>1 DEF Advanced
  <2>3. 1 <= DaysInMonth(y, m + 1)
    <3>1. m + 1 \in {2, 3, 4, 5, 6, 7, 8, 9, 10, 11, 12}
      BY <1>1, <1>6 DEF MonthSet
    <3> QED
      BY <3>1, MonthLengths
  <2>4. e \in Days
    <3>1. m + 1 \in MonthSet /\ 1 \in DaySet
      BY <1>1, <1>6 DEF MonthSet, DaySet
    <3> QED
      BY <1>1, <2>2, <2>3, <3>1 DEF Days
  <2>5. k = DaysInMonth(y, m)
    BY <1>1, <1>2, <1>3, <1>6 DEF DaySet
  <2>6. Number(e) = DayNumber(y, m, k) + 1
    <3>1. DayNumber(y, m + 1, 1) = DayNumber(y, m, k) + 1
      <4>1. m \in 1 .. 11
        BY <1>1, <1>6 DEF MonthSet
      <4> QED
        BY <1>1, <2>5, <4>1, NextMonth
    <3> QED
      BY <2>2, <3>1 DEF Number
  <2> QED
    BY <1>4, <2>1, <2>4, <2>6
<1>7. CASE ~ (k < DaysInMonth(y, m)) /\ m = 12
  <2>1. PICK e : e = Advanced(d)
    OBVIOUS
  <2>2. e = [year |-> AfterYear(y), month |-> 1, day |-> 1]
    <3>1. ~ (d.day < DaysInMonth(d.year, d.month)) /\ ~ (d.month < 12)
      BY <1>1, <1>7
    <3> QED
      BY <1>1, <2>1, <3>1 DEF Advanced
  <2>3. AfterYear(y) \in YearSet
    BY <1>1 DEF AfterYear, YearSet
  <2>4. e \in Days
    <3>1. 1 \in MonthSet /\ 1 \in DaySet /\ 1 <= DaysInMonth(AfterYear(y), 1)
      BY <1>3 DEF MonthSet, DaySet
    <3> QED
      BY <2>2, <2>3, <3>1 DEF Days
  <2>5. k = 31
    <3>1. DaysInMonth(y, m) = 31
      BY <1>7, MonthLengths
    <3> QED
      BY <1>1, <1>2, <1>7, <3>1 DEF DaySet
  <2>6. /\ Number(e) = DayNumber(y, m, k) + 1 - (IF y = 2099 THEN Century ELSE 0)
        /\ Century \in Int
    BY <1>7, <2>2, <2>5, NextYear, CenturyIs DEF Number
  <2> QED
    BY <1>4, <2>1, <2>4, <2>6
<1>8. m < 12 \/ m = 12
  BY <1>1 DEF MonthSet
<1> QED
  BY <1>5, <1>6, <1>7, <1>8

\* The function that AdvancedBy is defined by exists for every number of days,
Walk(d, n, f) == [k \in 0 .. n |-> IF k = 0 THEN d ELSE Advanced(f[k - 1])]

\* The function that walks day by day exists, for any number of days.
LEMMA WalkExists ==
    ASSUME NEW d, NEW n \in Nat
    PROVE  \E f : f = Walk(d, n, f)
<1> DEFINE T == {x \in Nat : ~ \E f : f = Walk(d, x, f)}
<1>1. ASSUME T # {}
      PROVE  FALSE
  <2>1. T \subseteq Nat
    OBVIOUS
  <2>2. PICK x \in T : \A y \in T : x <= y
    <3> HIDE DEF T
    <3> QED
      BY <1>1, <2>1, LeastNumber
  <2>3. x \in Nat /\ ~ \E f : f = Walk(d, x, f)
    BY <2>2
  <2>4. CASE x = 0
    <3>1. PICK f : f = [k \in 0 .. 0 |-> d]
      OBVIOUS
    <3>2. f = Walk(d, 0, f)
      BY <3>1 DEF Walk
    <3> QED
      BY <2>3, <2>4, <3>2
  <2>5. CASE x # 0
    <3>1. x - 1 \in Nat /\ x - 1 \notin T
      BY <2>2, <2>3, <2>5
    <3>2. PICK f : f = Walk(d, x - 1, f)
      BY <3>1
    <3>3. PICK g : g = [k \in 0 .. x |-> IF k = 0 THEN d ELSE Advanced(f[k - 1])]
      OBVIOUS
    <3>4. ASSUME NEW k \in 0 .. x, k # 0
          PROVE  g[k - 1] = f[k - 1]
      <4>1. k - 1 \in 0 .. x /\ k - 1 \in 0 .. x - 1
        BY <2>3, <3>4
      <4>2. g[k - 1] = IF k - 1 = 0 THEN d ELSE Advanced(f[k - 1 - 1])
        BY <3>3, <4>1
      <4>3. f[k - 1] = IF k - 1 = 0 THEN d ELSE Advanced(f[k - 1 - 1])
        BY <3>2, <4>1 DEF Walk
      <4> QED
        BY <4>2, <4>3
    <3>5. g = Walk(d, x, g)
      BY <3>3, <3>4 DEF Walk
    <3> QED
      BY <2>3, <3>5
  <2> QED
    BY <2>4, <2>5
<1> QED
  BY <1>1

\* and its last value is the date after so many days.
LEMMA AdvancedByIs ==
    ASSUME NEW d, NEW n \in Nat
    PROVE  \E f : f = Walk(d, n, f) /\ AdvancedBy(d, n) = f[n]
<1> DEFINE after == CHOOSE f :
        f = [k \in 0 .. n |-> IF k = 0 THEN d ELSE Advanced(f[k - 1])]
<1>1. AdvancedBy(d, n) = after[n]
  BY DEF AdvancedBy
<1>2. after = Walk(d, n, after)
  <2>1. \E f : f = [k \in 0 .. n |-> IF k = 0 THEN d ELSE Advanced(f[k - 1])]
    BY WalkExists DEF Walk
  <2> QED
    BY <2>1 DEF Walk
<1> QED
  BY <1>1, <1>2

\* A number of days later the date is one of a number that much larger.
LEMMA DaysAfter ==
    ASSUME NEW d \in Days, NEW n \in Nat
    PROVE  /\ AdvancedBy(d, n) \in Days
           /\ Number(AdvancedBy(d, n)) \in Int
           /\ (Number(AdvancedBy(d, n)) - Number(d) - n) % Century = 0
<1>1. PICK f : f = Walk(d, n, f) /\ AdvancedBy(d, n) = f[n]
  BY AdvancedByIs
<1>2. f[0] = d /\ \A k \in 1 .. n : f[k] = Advanced(f[k - 1])
  BY <1>1 DEF Walk
<1> DEFINE Fits(k) == f[k] \in Days /\ (Number(f[k]) - Number(d) - k) % Century = 0
           T == {k \in 0 .. n : ~ Fits(k)}
<1>3. ASSUME T # {}
      PROVE  FALSE
  <2>1. T \subseteq Nat
    OBVIOUS
  <2>2. PICK x \in T : \A y \in T : x <= y
    <3> HIDE DEF T
    <3> QED
      BY <1>3, <2>1, LeastNumber
  <2>3. x \in 0 .. n /\ ~ Fits(x)
    BY <2>2
  <2>4. CASE x = 0
    <3>1. PICK c \in Int : c = Number(d)
      BY DayAfter
    <3>2. (c - c - 0) % Century = 0
      BY <3>1, CenturyIs
    <3> QED
      BY <1>2, <2>3, <2>4, <3>1, <3>2
  <2>5. CASE x # 0
    <3>1. x - 1 \in 0 .. n /\ x \in 1 .. n /\ x - 1 \notin T
      BY <2>2, <2>3, <2>5
    <3>2. Fits(x - 1)
      BY <3>1
    <3>3. PICK e : e = f[x - 1] /\ f[x] = Advanced(e) /\ e \in Days
      BY <1>2, <3>1, <3>2
    <3>4. PICK a, b, c \in Int : a = Number(d) /\ b = Number(e) /\ c = Number(f[x])
      BY <3>3, DayAfter
    <3>5. c = b + 1 \/ c = b + 1 - 36525
      BY <3>3, <3>4, DayAfter, CenturyIs
    <3>6. (b - a - (x - 1)) % 36525 = 0
      BY <3>2, <3>3, <3>4, CenturyIs
    <3>7. (c - a - x) % 36525 = 0
      BY <3>4, <3>5, <3>6, <2>3
    <3>8. f[x] \in Days
      BY <3>3, DayAfter
    <3> QED
      BY <2>3, <3>4, <3>7, <3>8, CenturyIs
  <2> QED
    BY <2>4, <2>5
<1>4. Fits(n)
  BY <1>3
<1> QED
  BY <1>1, <1>4, DayAfter

\* The date is the one so many days after the start, but for centuries.
CalendarInv ==
    /\ date \in Days /\ start \in Years /\ walked \in 0 .. MaxWalk
    /\ (Number(date) - DayNumber(start, 1, 1) - walked) % Century = 0

\* A walk starts with the first of January.
LEMMA FirstOfYear ==
    ASSUME NEW y \in Years, NEW d, d = [year |-> y, month |-> 1, day |-> 1]
    PROVE  /\ d \in Days /\ Number(d) = DayNumber(y, 1, 1)
           /\ DayNumber(y, 1, 1) \in Int
<1>1. y \in YearSet /\ 1 \in MonthSet /\ 1 \in DaySet /\ 1 <= DaysInMonth(y, 1)
  BY CalendarAssumption, MonthLengths DEF YearSet, MonthSet, DaySet
<1> QED
  BY <1>1, NextDay DEF Days, Number

\* A walk begins on the first of January,
LEMMA CalendarInitInv == CalendarInit => CalendarInv
<1> SUFFICES ASSUME CalendarInit
             PROVE  CalendarInv
  OBVIOUS
<1>1. PICK d : d = date
  OBVIOUS
<1>2. d = [year |-> start, month |-> 1, day |-> 1] /\ start \in Years /\ walked = 0
  BY <1>1 DEF CalendarInit
<1>3. PICK c \in Int : c = DayNumber(start, 1, 1) /\ Number(d) = c /\ d \in Days
  BY <1>2, FirstOfYear
<1>4. (c - c - 0) % Century = 0 /\ 0 \in 0 .. MaxWalk
  BY CenturyIs, CalendarAssumption
<1> QED
  BY <1>1, <1>2, <1>3, <1>4 DEF CalendarInv

\* However many days the clock advances at once.
LEMMA ElapseKeeps ==
    ASSUME CalendarInv, NEW n \in Nat, Elapse(n)
    PROVE  CalendarInv'
<1>1. PICK d, e : d = date /\ e = AdvancedBy(d, n)
  OBVIOUS
<1>2. PICK s, w \in Nat : s = start /\ w = walked
  BY CalendarAssumption DEF CalendarInv
<1>3. /\ d \in Days /\ s \in Years /\ w \in 0 .. MaxWalk
      /\ (Number(d) - DayNumber(s, 1, 1) - w) % Century = 0
  BY <1>1, <1>2 DEF CalendarInv
<1>4. /\ e \in Days /\ Number(e) \in Int
      /\ (Number(e) - Number(d) - n) % Century = 0
  BY <1>1, <1>3, DaysAfter
<1>5. PICK a, b, c \in Int : a = Number(d) /\ b = Number(e) /\ c = DayNumber(s, 1, 1)
  BY <1>3, <1>4, DayAfter, FirstOfYear
<1>6. (a - c - w) % 36525 = 0 /\ (b - a - n) % 36525 = 0
  BY <1>3, <1>4, <1>5, CenturyIs
<1>7. (b - c - (w + n)) % 36525 = 0
  <2>1. PICK x, y \in Int : x = a - c - w /\ y = b - a - n
    BY <1>2, <1>5
  <2>2. x % 36525 = 0 /\ y % 36525 = 0
    BY <1>6, <2>1
  <2>3. (x + y) % 36525 = 0
    BY <2>1, <2>2
  <2>4. b - c - (w + n) = x + y
    BY <1>2, <1>5, <2>1
  <2> QED
    BY <2>3, <2>4
<1>8. date' = e /\ start' = s /\ walked' = w + n /\ w + n <= MaxWalk
  BY <1>1, <1>2 DEF Elapse
<1>9. w + n \in 0 .. MaxWalk
  BY <1>2, <1>8, CalendarAssumption
<1> QED
  BY <1>3, <1>4, <1>5, <1>7, <1>8, <1>9, CenturyIs DEF CalendarInv

\* and every step keeps the date and its number.
LEMMA CalendarStepInv == CalendarInv /\ [CalendarNext]_calendarVars => CalendarInv'
<1> SUFFICES ASSUME CalendarInv, [CalendarNext]_calendarVars
             PROVE  CalendarInv'
  OBVIOUS
<1>1. CASE Elapse(1)
  <2>1. 1 \in Nat
    OBVIOUS
  <2> QED
    BY <1>1, <2>1, ElapseKeeps
<1>2. CASE Elapse(31)
  <2>1. 31 \in Nat
    OBVIOUS
  <2> QED
    BY <1>2, <2>1, ElapseKeeps
<1>3. CASE UNCHANGED calendarVars
  BY <1>3 DEF CalendarInv, calendarVars
<1> QED
  BY <1>1, <1>2, <1>3 DEF CalendarNext

\* The setting app accepts the dates there are, and the last day of a month is the
\* last that it accepts.
LEMMA DaysAccepted ==
    ASSUME NEW d \in Days
    PROVE  /\ Accepted(d.year, d.month, d.day)
           /\ Accepted(d.year, d.month, d.day + 1) <=> Advanced(d).day # 1
<1>1. d \in [year : YearSet, month : MonthSet, day : DaySet]
      /\ d.day <= DaysInMonth(d.year, d.month)
  BY DEF Days
<1>2. PICK y \in YearSet, m \in MonthSet, k \in DaySet :
        y = d.year /\ m = d.month /\ k = d.day
  BY <1>1
<1>3. k \in Int /\ k >= 1
  BY <1>2 DEF DaySet
<1>4. DaysInMonth(y, m) \in Int
  <2>1. m \in {1, 2, 3, 4, 5, 6, 7, 8, 9, 10, 11, 12}
    BY <1>2 DEF MonthSet
  <2> QED
    BY <2>1, MonthLengths
<1>5. \A e \in Int : Accepted(y, m, e) <=> e >= 1 /\ e <= DaysInMonth(y, m)
  BY <1>2 DEF Accepted, YearSet, MonthSet
<1>6. Accepted(y, m, k)
  BY <1>1, <1>2, <1>3, <1>5
<1>7. Accepted(y, m, k + 1) <=> k < DaysInMonth(y, m)
  <2>1. k + 1 \in Int /\ k + 1 >= 1
    BY <1>3
  <2>2. Accepted(y, m, k + 1) <=> k + 1 <= DaysInMonth(y, m)
    BY <1>5, <2>1
  <2> QED
    BY <1>3, <1>4, <2>2
<1>8. k < DaysInMonth(y, m) <=> Advanced(d).day # 1
  <2>1. CASE k < DaysInMonth(y, m)
    <3>1. Advanced(d) = [d EXCEPT !.day = @ + 1]
      BY <1>2, <2>1 DEF Advanced
    <3>2. Advanced(d).day = k + 1
      BY <1>1, <1>2, <3>1
    <3> QED
      BY <1>3, <2>1, <3>2
  <2>2. CASE ~ (k < DaysInMonth(y, m))
    <3>1. ~ (d.day < DaysInMonth(d.year, d.month))
      BY <1>2, <2>2
    <3>2. Advanced(d).day = 1
      BY <3>1 DEF Advanced
    <3> QED
      BY <2>2, <3>2
  <2> QED
    BY <2>1, <2>2
<1> QED
  BY <1>2, <1>6, <1>7, <1>8

\* The date that the clock service shows after some days is the date so many days
\* later, over leap years and the end of the century, and the setting app accepts
\* every such date and no day after the last one of a month (CalendarExact): from
\* any year of the century and for walks of any length.
THEOREM CalendarAlwaysExact == CalendarSpec => []CalendarExact
<1>1. CalendarInv => CalendarExact
  <2> SUFFICES ASSUME CalendarInv
               PROVE  CalendarExact
    OBVIOUS
  <2>1. date \in Days /\ (Number(date) - DayNumber(start, 1, 1) - walked) % Century = 0
    BY DEF CalendarInv
  <2>2. /\ Accepted(date.year, date.month, date.day)
        /\ Accepted(date.year, date.month, date.day + 1) <=> Advanced(date).day # 1
    BY <2>1, DaysAccepted
  <2> QED
    BY <2>1, <2>2 DEF CalendarExact, Number
<1> QED
  BY <1>1, CalendarInitInv, CalendarStepInv, PTL DEF CalendarSpec
=============================================================================
