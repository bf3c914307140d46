--------------------------- MODULE WorkspaceProofs ---------------------------
(***************************************************************************)
(* Proofs about Workspace, for every number of panels.                     *)
(***************************************************************************)
EXTENDS Workspace, TLAPS

-----------------------------------------------------------------------------
(* The inductive invariant *)

\* Between two sync() calls of closeEvent the save that was started is that of the
\* window, and the pins of the panels before saveNext are on disk.
HalfSaved ==
    run = "saving" =>
        /\ started = Window
        /\ \A panel \in Panels : panel < saveNext =>
             (panel \in disk.pins <=> panel \in pinned)

\* A save that is going on, or was cut short, has its layout on disk, and the pins
\* of its first panels.
DiskHoldsStarted ==
    started.known =>
        /\ run \in {"off", "saving"} /\ torn
        /\ disk.geometry = "good"
        /\ disk.layout = [present |-> TRUE, readable |-> TRUE,
                          shown |-> started.shown, floating |-> started.floating]
        /\ disk.maximized = started.maximized
        /\ saved.known => \E next \in Panels : /\ disk.pins = MixedPins(next)
                                               /\ run = "saving" => next = saveNext

\* Otherwise the disk holds the last complete save, unless it was damaged, and then
\* it holds what the next launch throws away.
DiskHoldsSaved ==
    ~started.known =>
        /\ run # "saving"
        /\ ~saved.known => RestoreStatus(disk) # "Restored"
        /\ saved.known =>
             /\ saved.pinned = disk.pins
             /\ RestoreStatus(disk) # "InvalidState"
             /\ RestoreStatus(disk) = "Restored" =>
                  /\ saved.shown = disk.layout.shown \cup disk.pins
                  /\ saved.floating = disk.layout.floating
                  /\ saved.maximized = disk.maximized
             /\ RestoreStatus(disk) = "NoSavedState" => saved = EmptySnapshot

\* The pins belong to the layout as long as no save has been cut short, also while
\* the window is open: a crash does not touch the disk.
PinsBelong ==
    ~torn => disk.pins \subseteq IF disk.layout.present THEN disk.layout.shown ELSE {}

IInv ==
    /\ TypeOK
    /\ PanelStatesValid
    /\ HalfSaved
    /\ DiskHoldsStarted
    /\ DiskHoldsSaved
    /\ PinsBelong

-----------------------------------------------------------------------------
(* Lemmas about the settings group *)

\* The group that reset leaves is a group, and no layout is read from it.
LEMMA NothingFromNoGroup ==
    /\ NoGroup \in Groups /\ NoGroup.pins = {} /\ ~NoGroup.layout.present
    /\ RestoreStatus(NoGroup) = "NoSavedState"
BY DEF NoGroup, Groups, Layouts, Absent, RestoreStatus, HasGeometry, HasState

\* The three results of restore().
LEMMA StatusCases ==
    ASSUME NEW group
    PROVE  /\ RestoreStatus(group) \in {"NoSavedState", "Restored", "InvalidState"}
           /\ RestoreStatus(group) = "Restored" =>
                /\ group.geometry = "good"
                /\ group.layout.present /\ group.layout.readable
BY DEF RestoreStatus, HasGeometry, HasState

\* A layout that is present has its two sets of panels.
LEMMA PresentLayout ==
    ASSUME NEW layout \in Layouts, layout.present
    PROVE  layout.shown \subseteq Panels /\ layout.floating \subseteq Panels
<1>1. layout # Absent
  BY DEF Absent
<1>2. layout \in [present : {TRUE}, readable : BOOLEAN, shown : SUBSET Panels,
                   floating : SUBSET Panels]
  BY <1>1 DEF Layouts
<1> QED
  BY <1>2

\* A window starts with no panel, or with those of the layout it restores; a
\* restored window is maximized exactly when it was, --windowed or not.
LEMMA LaunchShows ==
    ASSUME TypeOK, NEW reset \in BOOLEAN, NEW windowed \in BOOLEAN,
           NEW smoke \in BOOLEAN, Launch(reset, windowed, smoke)
    PROVE  LET group == IF reset THEN NoGroup ELSE disk
           IN  /\ group \in Groups
               /\ status' = RestoreStatus(group)
               /\ disk' = IF status' = "InvalidState" THEN NoGroup ELSE group
               /\ status' = "Restored" =>
                    /\ shown' = group.layout.shown \cup group.pins
                    /\ floating' = group.layout.floating /\ pinned' = group.pins
                    /\ maximized' = group.maximized
               /\ status' # "Restored" =>
                    shown' = {} /\ floating' = {} /\ pinned' = {}
               /\ maximized' \in BOOLEAN
<1> DEFINE group == IF reset THEN NoGroup ELSE disk
<1>1. group \in Groups
  BY NothingFromNoGroup DEF TypeOK
<1>2. /\ RestoreWorkspace(group) /\ status' = RestoreStatus(group)
      /\ disk' = AfterRestore(group)
      /\ maximized' = (GeometryMaximizes(group)
                       \/ (ShouldStartMaximized(group) /\ ~windowed /\ ~smoke))
  BY DEF Launch, Cleared
<1>3. group.maximized \in BOOLEAN
  BY <1>1 DEF Groups
<1>4. status' = "Restored" => maximized' = group.maximized
  BY <1>2, <1>3, StatusCases DEF GeometryMaximizes, ShouldStartMaximized, HasState
<1>5. maximized' \in BOOLEAN
  BY <1>2
<1> QED
  BY <1>1, <1>2, <1>4, <1>5
     DEF RestoreWorkspace, ApplyDefaultWorkspace, AfterRestore, Cleared

\* The snapshots of the model.
LEMMA SnapshotCases ==
    /\ NoSnapshot \in Snapshots /\ ~NoSnapshot.known
    /\ EmptySnapshot \in Snapshots /\ EmptySnapshot.known
    /\ EmptySnapshot.shown = {} /\ EmptySnapshot.floating = {}
    /\ EmptySnapshot.pinned = {}
    /\ \A snapshot \in Snapshots : snapshot.known =>
         /\ snapshot.shown \subseteq Panels /\ snapshot.floating \subseteq Panels
         /\ snapshot.pinned \subseteq Panels /\ snapshot.maximized \in BOOLEAN
<1>1. NoSnapshot \in Snapshots /\ ~NoSnapshot.known
  BY DEF Snapshots, NoSnapshot
<1>2. /\ EmptySnapshot \in Snapshots /\ EmptySnapshot.known
      /\ EmptySnapshot.shown = {} /\ EmptySnapshot.floating = {}
      /\ EmptySnapshot.pinned = {}
  BY DEF Snapshots, EmptySnapshot
<1>3. ASSUME NEW snapshot \in Snapshots, snapshot.known
      PROVE  /\ snapshot.shown \subseteq Panels /\ snapshot.floating \subseteq Panels
             /\ snapshot.pinned \subseteq Panels /\ snapshot.maximized \in BOOLEAN
  <2>1. snapshot # NoSnapshot
    BY <1>1, <1>3
  <2> QED
    BY <2>1 DEF Snapshots
<1> QED
  BY <1>1, <1>2, <1>3

\* Each pin that is written moves the border by one panel.
LEMMA PinsMove ==
    ASSUME NEW next \in Panels, next + 1 \in Panels
    PROVE  MixedPins(next + 1) = IF next \in started.pinned
                                 THEN MixedPins(next) \cup {next}
                                 ELSE MixedPins(next) \ {next}
<1>1. \A panel \in Panels : panel < next + 1 <=> panel < next \/ panel = next
  BY DEF Panels
<1>2. ASSUME NEW panel \in Panels
      PROVE  panel \in MixedPins(next + 1) <=>
               panel \in IF next \in started.pinned THEN MixedPins(next) \cup {next}
                                                   ELSE MixedPins(next) \ {next}
  <2>1. CASE panel = next
    BY <1>1, <2>1 DEF MixedPins, Panels
  <2>2. CASE panel # next
    BY <1>1, <2>2 DEF MixedPins
  <2> QED
    BY <2>1, <2>2
<1>3. \A n : MixedPins(n) \subseteq Panels
  BY DEF MixedPins
<1> QED
  BY <1>2, <1>3

-----------------------------------------------------------------------------
(* One lemma for each action *)

\* The initial states satisfy the inductive invariant.
LEMMA InitIInv == ASSUME Init PROVE IInv
<1>1. EmptySnapshot \in Snapshots /\ NoSnapshot \in Snapshots
  BY SnapshotCases
<1>2. TypeOK
  <2>1. 1 \in Panels
    BY PanelsAssumption DEF Panels
  <2> QED
    BY <1>1, <2>1, NothingFromNoGroup DEF Init, TypeOK
<1>3. DiskHoldsSaved /\ DiskHoldsStarted
  BY NothingFromNoGroup, SnapshotCases DEF Init, DiskHoldsSaved, DiskHoldsStarted
<1>4. PanelStatesValid /\ HalfSaved /\ PinsBelong
  BY NothingFromNoGroup DEF Init, PanelStatesValid, HalfSaved, PinsBelong
<1> QED
  BY <1>2, <1>3, <1>4 DEF IInv

\* A launch shows what is saved and known, and throws away what is unusable.
LEMMA LaunchIInv ==
    ASSUME IInv, NEW reset \in BOOLEAN, NEW windowed \in BOOLEAN,
           NEW smoke \in BOOLEAN, Launch(reset, windowed, smoke)
    PROVE  IInv'
<1> DEFINE group == IF reset THEN NoGroup ELSE disk
<1>1. /\ group \in Groups
      /\ status' = RestoreStatus(group)
      /\ disk' = IF status' = "InvalidState" THEN NoGroup ELSE group
      /\ status' = "Restored" =>
           /\ shown' = group.layout.shown \cup group.pins
           /\ floating' = group.layout.floating /\ pinned' = group.pins
           /\ maximized' = group.maximized
      /\ status' # "Restored" =>
           shown' = {} /\ floating' = {} /\ pinned' = {}
      /\ maximized' \in BOOLEAN
  BY LaunchShows DEF IInv
<1> DEFINE window2 == [known |-> TRUE, shown |-> shown', floating |-> floating',
                       pinned |-> pinned', maximized |-> maximized']
<1>2. /\ run' \in {"open", "smoke"} /\ saveNext' = saveNext
      /\ saved' = IF reset \/ status' = "InvalidState" THEN EmptySnapshot
                  ELSE IF status' = "Restored" THEN window2 ELSE saved
      /\ started' = NoSnapshot
      /\ torn' = (torn /\ disk' # NoGroup)
  BY DEF Launch, Window
<1>3. TypeOK'
  <2>1. disk' \in Groups
    BY <1>1, NothingFromNoGroup
  <2>2. shown' \subseteq Panels /\ floating' \subseteq Panels /\ pinned' \subseteq Panels
    <3>1. group.pins \subseteq Panels /\ group.layout \in Layouts
      BY <1>1 DEF Groups
    <3> QED
      BY <1>1, <3>1, StatusCases, PresentLayout
  <2>3. saved' \in Snapshots
    <3>1. window2 \in Snapshots
      BY <1>1, <2>2 DEF Snapshots
    <3> HIDE DEF window2
    <3> QED
      BY <1>2, <3>1, SnapshotCases DEF IInv, TypeOK
  <2> QED
    BY <1>1, <1>2, <2>1, <2>2, <2>3, StatusCases, SnapshotCases DEF IInv, TypeOK
<1>4. PanelStatesValid'
  BY <1>1 DEF PanelStatesValid
<1>5. HalfSaved'
  BY <1>2 DEF HalfSaved
<1>6. DiskHoldsSaved' /\ DiskHoldsStarted'
  <2>1. CASE reset \/ status' = "InvalidState"
    <3>1. disk' = NoGroup /\ saved' = EmptySnapshot
      BY <1>1, <1>2, <2>1, NothingFromNoGroup
    <3> QED
      BY <1>2, <3>1, NothingFromNoGroup, SnapshotCases DEF DiskHoldsSaved, DiskHoldsStarted
  <2>2. CASE ~(reset \/ status' = "InvalidState") /\ status' = "Restored"
    <3>1. disk' = disk /\ RestoreStatus(disk) = "Restored" /\ saved' = window2
      BY <1>1, <1>2, <2>2
    <3> QED
      BY <1>1, <1>2, <2>2, <3>1, SnapshotCases DEF DiskHoldsSaved, DiskHoldsStarted
  <2>3. CASE ~(reset \/ status' = "InvalidState") /\ status' # "Restored"
    <3>1. /\ disk' = disk /\ RestoreStatus(disk) = "NoSavedState" /\ saved' = saved
      BY <1>1, <1>2, <2>3, StatusCases
    <3>2. ~started.known
      BY <3>1 DEF IInv, DiskHoldsStarted, RestoreStatus, HasState
    <3> QED
      BY <1>2, <3>1, <3>2, SnapshotCases DEF IInv, DiskHoldsSaved, DiskHoldsStarted
  <2> QED
    BY <2>1, <2>2, <2>3
<1>7. PinsBelong'
  BY <1>1, <1>2, NothingFromNoGroup DEF IInv, PinsBelong
<1> QED
  BY <1>3, <1>4, <1>5, <1>6, <1>7 DEF IInv

\* What the user does to a panel or to the window leaves the disk alone, and a
\* pinned panel visible.
LEMMA PanelStepIInv ==
    ASSUME IInv, NEW panel \in Panels,
           TogglePanel(panel) \/ TogglePin(panel) \/ FloatPanel(panel)
    PROVE  IInv'
<1>1. run = "open"
      /\ UNCHANGED <<run, maximized, status, saveNext, disk, saved, started, torn>>
  BY DEF TogglePanel, TogglePin, FloatPanel
<1>2. /\ shown' \subseteq Panels /\ floating' \subseteq Panels
      /\ pinned' \subseteq Panels /\ pinned' \subseteq shown'
  BY <1>1 DEF IInv, TypeOK, PanelStatesValid, TogglePanel, HiddenUnlessPinned,
              TogglePin, SetPinned, FloatPanel
<1> QED
  BY <1>1, <1>2
     DEF IInv, TypeOK, PanelStatesValid, HalfSaved, DiskHoldsStarted, DiskHoldsSaved,
         MixedPins, PinsBelong

\* So does a change of the window's size.
LEMMA ResizeWindowIInv == ASSUME IInv, ResizeWindow PROVE IInv'
BY DEF ResizeWindow, IInv, TypeOK, PanelStatesValid, HalfSaved, DiskHoldsStarted,
       DiskHoldsSaved, MixedPins, PinsBelong

\* A reset clears the window and the group.
LEMMA ResetWorkspaceIInv == ASSUME IInv, ResetWorkspace PROVE IInv'
<1>1. /\ run = "open" /\ UNCHANGED <<run, maximized, saveNext, started>>
      /\ disk' = NoGroup /\ status' = "NoSavedState"
      /\ shown' = {} /\ floating' = {} /\ pinned' = {}
      /\ saved' = EmptySnapshot /\ torn' = FALSE
  BY DEF ResetWorkspace, Cleared, ApplyDefaultWorkspace
<1>2. EmptySnapshot \in Snapshots
  BY SnapshotCases
<1>3. TypeOK'
  BY <1>1, <1>2, NothingFromNoGroup DEF IInv, TypeOK
<1>4. ~started.known
  BY <1>1 DEF IInv, DiskHoldsStarted
<1>5. DiskHoldsSaved' /\ DiskHoldsStarted'
  BY <1>1, <1>4, NothingFromNoGroup, SnapshotCases DEF DiskHoldsSaved, DiskHoldsStarted
<1> QED
  BY <1>1, <1>3, <1>5, NothingFromNoGroup
     DEF IInv, PanelStatesValid, HalfSaved, PinsBelong

\* The first sync() of a save puts the layout of the window on disk.
LEMMA SaveLayoutIInv == ASSUME IInv, SaveLayout PROVE IInv'
<1> DEFINE layout == [present |-> TRUE, readable |-> TRUE, shown |-> shown,
                      floating |-> floating]
<1>1. /\ run # "off" /\ run' = "saving" /\ saveNext' = 1
      /\ disk' = [disk EXCEPT !.geometry = "good", !.layout = layout,
                              !.maximized = maximized]
      /\ started' = Window /\ torn' = TRUE
      /\ UNCHANGED <<shown, floating, pinned, maximized, status, saved>>
  BY DEF SaveLayout, window
<1>2. layout \in Layouts
  BY DEF IInv, TypeOK, Layouts
<1>3. /\ disk' \in Groups
      /\ disk'.geometry = "good" /\ disk'.layout = layout
      /\ disk'.maximized = maximized /\ disk'.pins = disk.pins
  BY <1>1, <1>2 DEF IInv, TypeOK, Groups
<1>4. Window \in Snapshots /\ Window.known /\ Window' = Window
  BY <1>1 DEF IInv, TypeOK, Snapshots, Window
<1>5. TypeOK'
  BY <1>1, <1>3, <1>4, PanelsAssumption DEF IInv, TypeOK, Panels
<1>6. HalfSaved'
  BY <1>1, <1>4, PanelsAssumption DEF HalfSaved, Panels
<1>7. 1 \in Panels
  BY PanelsAssumption DEF Panels
<1>8. ~started.known
  BY <1>1 DEF IInv, DiskHoldsStarted, SaveLayout
<1>9. saved.known => disk.pins = {panel \in Panels : panel \in saved.pinned}
  BY <1>8, SnapshotCases DEF IInv, TypeOK, DiskHoldsSaved
<1>10. \A panel \in Panels : ~(panel < 1)
  BY DEF Panels
<1>11. saved.known => disk'.pins = MixedPins(1)'
  BY <1>1, <1>3, <1>9, <1>10 DEF MixedPins
<1>12. DiskHoldsStarted'
  <2>1. /\ started'.shown = shown /\ started'.floating = floating
        /\ started'.maximized = maximized
    BY <1>1 DEF Window
  <2> QED
    BY <1>1, <1>3, <1>7, <1>11, <2>1 DEF DiskHoldsStarted
<1> QED
  BY <1>1, <1>4, <1>5, <1>6, <1>12
     DEF IInv, PanelStatesValid, DiskHoldsSaved, PinsBelong

\* Each further sync() puts one pin on disk, and the last one completes the save.
LEMMA SavePinIInv == ASSUME IInv, SavePin PROVE IInv'
<1> DEFINE pins == IF saveNext \in pinned THEN disk.pins \cup {saveNext}
                                         ELSE disk.pins \ {saveNext}
<1>1. /\ run = "saving" /\ disk' = [disk EXCEPT !.pins = pins]
      /\ UNCHANGED <<shown, floating, pinned, maximized, status>>
      /\ saveNext = PanelCount => /\ run' = "off" /\ saveNext' = 1
                                  /\ saved' = started /\ started' = NoSnapshot
                                  /\ torn' = FALSE
      /\ saveNext # PanelCount => /\ saveNext' = saveNext + 1
                                  /\ UNCHANGED <<run, saved, started, torn>>
  BY DEF SavePin, LastPin, window
<1>2. pins \subseteq Panels
  BY DEF IInv, TypeOK, Groups
<1>3. /\ disk' \in Groups /\ disk'.pins = pins /\ disk'.geometry = disk.geometry
      /\ disk'.layout = disk.layout /\ disk'.maximized = disk.maximized
  BY <1>1, <1>2 DEF IInv, TypeOK, Groups
<1>4. \A panel \in Panels : panel <= saveNext =>
        (panel \in pins <=> panel \in pinned)
  BY <1>1, PanelsAssumption DEF IInv, TypeOK, HalfSaved, Panels
<1>5. /\ started = Window /\ started.known /\ started.shown = shown
      /\ started.floating = floating /\ started.pinned = pinned
      /\ started.maximized = maximized
  BY <1>1 DEF IInv, HalfSaved, Window
<1>6. CASE saveNext # PanelCount
  <2>1. saveNext' = saveNext + 1 /\ saveNext \in Panels /\ saveNext + 1 \in Panels
    BY <1>1, <1>6, PanelsAssumption DEF IInv, TypeOK, Panels
  <2>2. TypeOK'
    BY <1>1, <1>3, <1>6, <2>1 DEF IInv, TypeOK
  <2>3. HalfSaved'
    <3>1. \A panel \in Panels : panel < saveNext + 1 => panel <= saveNext
      BY <2>1 DEF Panels
    <3>2. Window' = Window
      BY <1>1 DEF Window
    <3> HIDE DEF pins
    <3> QED
      BY <1>1, <1>3, <1>4, <1>5, <1>6, <2>1, <3>1, <3>2 DEF HalfSaved
  <2>4. saved.known => disk'.pins = MixedPins(saveNext + 1)
    <3>1. saved.known => disk.pins = MixedPins(saveNext)
      BY <1>1, <1>5 DEF IInv, DiskHoldsStarted
    <3>2. MixedPins(saveNext + 1) = IF saveNext \in started.pinned
                                    THEN MixedPins(saveNext) \cup {saveNext}
                                    ELSE MixedPins(saveNext) \ {saveNext}
      BY <2>1, PinsMove
    <3> QED
      BY <1>3, <1>5, <3>1, <3>2
  <2>5. \A n \in Panels : MixedPins(n)' = MixedPins(n)
    <3>1. saved' = saved /\ started' = started
      BY <1>1, <1>6
    <3> QED
      BY <3>1 DEF MixedPins
  <2>6. DiskHoldsStarted'
    <3>1. saved'.known => \E next \in Panels : /\ disk'.pins = MixedPins(next)'
                                              /\ next = saveNext'
      <4>1. saved' = saved
        BY <1>1, <1>6
      <4>2. SUFFICES ASSUME saved.known
                     PROVE  \E next \in Panels : /\ disk'.pins = MixedPins(next)'
                                                 /\ next = saveNext'
        BY <4>1
      <4>3. PICK n \in Panels : n = saveNext + 1
        BY <2>1
      <4>4. disk'.pins = MixedPins(n)' /\ n = saveNext'
        BY <2>1, <2>4, <2>5, <4>2, <4>3
      <4> QED
        BY <4>4
    <3>2. /\ started' = started /\ run' = "saving" /\ torn' /\ disk'.geometry = "good"
          /\ disk'.layout = [present |-> TRUE, readable |-> TRUE,
                             shown |-> started.shown, floating |-> started.floating]
          /\ disk'.maximized = started.maximized
      BY <1>1, <1>3, <1>5, <1>6 DEF IInv, DiskHoldsStarted
    <3> QED
      BY <3>1, <3>2 DEF DiskHoldsStarted
  <2> QED
    BY <1>1, <1>5, <1>6, <2>2, <2>3, <2>6
       DEF IInv, PanelStatesValid, DiskHoldsStarted, DiskHoldsSaved, PinsBelong
<1>7. CASE saveNext = PanelCount
  <2>1. pins = pinned
    <3>1. \A panel \in Panels : panel \in pins <=> panel \in pinned
      BY <1>4, <1>7, PanelsAssumption DEF Panels
    <3>2. pinned \subseteq Panels
      BY DEF IInv, TypeOK
    <3> HIDE DEF pins
    <3> QED
      BY <1>2, <3>1, <3>2
  <2>2. TypeOK'
    <3>1. 1 \in Panels
      BY PanelsAssumption DEF Panels
    <3> HIDE DEF pins
    <3> QED
      BY <1>1, <1>3, <1>7, <3>1, SnapshotCases DEF IInv, TypeOK
  <2>3. pinned \subseteq shown
    BY <1>1 DEF IInv, PanelStatesValid
  <2>4. /\ disk'.geometry = "good"
        /\ disk'.layout = [present |-> TRUE, readable |-> TRUE, shown |-> shown,
                           floating |-> floating]
        /\ disk'.maximized = maximized /\ disk'.pins = pinned
    BY <1>1, <1>3, <1>5, <2>1 DEF IInv, DiskHoldsStarted
  <2>5. RestoreStatus(disk') = "Restored"
    BY <2>4 DEF RestoreStatus, HasState, HasGeometry
  <2>6. RestoreStatus(disk)' = RestoreStatus(disk')
    BY DEF RestoreStatus, HasState, HasGeometry
  <2>7. DiskHoldsSaved'
    <3>1. saved' = started /\ run' = "off"
      BY <1>1, <1>7
    <3>2. disk'.layout.shown = shown /\ disk'.layout.floating = floating
      BY <2>4
    <3> QED
      BY <1>5, <2>3, <2>4, <2>5, <2>6, <3>1, <3>2 DEF DiskHoldsSaved
  <2>8. DiskHoldsStarted' /\ HalfSaved' /\ PanelStatesValid'
    BY <1>1, <1>7, SnapshotCases DEF DiskHoldsStarted, HalfSaved, PanelStatesValid
  <2>9. PinsBelong'
    BY <2>3, <2>4 DEF PinsBelong
  <2> QED
    BY <2>2, <2>7, <2>8, <2>9 DEF IInv
<1> QED
  BY <1>6, <1>7

\* A crash leaves what was synced, and no window.
LEMMA CrashIInv == ASSUME IInv, Crash PROVE IInv'
<1>1. /\ run' = "off" /\ saveNext' = 1 /\ run # "off"
      /\ UNCHANGED <<shown, floating, pinned, maximized, status, disk, saved, started,
                     torn>>
  BY DEF Crash, window
<1>2. TypeOK'
  BY <1>1, PanelsAssumption DEF IInv, TypeOK, Panels
<1>3. DiskHoldsStarted'
  BY <1>1 DEF IInv, DiskHoldsStarted, MixedPins
<1> QED
  BY <1>1, <1>2, <1>3
     DEF IInv, PanelStatesValid, HalfSaved, DiskHoldsSaved, PinsBelong

\* A damaged file is a group still, of which nothing is claimed.
LEMMA DamageIInv == ASSUME IInv, Damage PROVE IInv'
<1>1. /\ run = "off" /\ saved' = NoSnapshot /\ started' = NoSnapshot /\ torn' = TRUE
      /\ UNCHANGED <<run, shown, floating, pinned, maximized, status, saveNext>>
  BY DEF Damage, window
<1>2. disk' \in Groups
  <2>1. disk.layout.present =>
          [disk.layout EXCEPT !.readable = FALSE] \in Layouts
    <3>1. SUFFICES ASSUME disk.layout.present
                   PROVE  [disk.layout EXCEPT !.readable = FALSE] \in Layouts
      OBVIOUS
    <3>2. disk.layout # Absent /\ disk.layout \in Layouts
      BY <3>1 DEF IInv, TypeOK, Groups, Absent
    <3> QED
      BY <3>2 DEF Layouts
  <2>2. Absent \in Layouts
    BY DEF Layouts
  <2> QED
    BY <2>1, <2>2 DEF Damage, IInv, TypeOK, Groups
<1>3. RestoreStatus(disk') # "Restored"
  <2>1. /\ disk \in Groups /\ disk.geometry \in {"absent", "good", "bad"}
        /\ disk.layout \in Layouts
    BY DEF IInv, TypeOK, Groups
  <2>2. disk.layout.present =>
          /\ [disk.layout EXCEPT !.readable = FALSE].present
          /\ ~[disk.layout EXCEPT !.readable = FALSE].readable
    BY <2>1 DEF Layouts, Absent
  <2>3. \/ disk'.geometry # "good"
        \/ ~disk'.layout.present
        \/ ~disk'.layout.readable
    <3>1. CASE disk' = [disk EXCEPT !.geometry = "bad"]
      BY <2>1, <3>1 DEF Groups
    <3>2. CASE disk' = [disk EXCEPT !.geometry = "absent"]
      BY <2>1, <3>2 DEF Groups
    <3>3. CASE disk' = [disk EXCEPT !.layout = Absent]
      BY <2>1, <3>3 DEF Groups, Absent
    <3>4. CASE disk.layout.present /\ disk' = [disk EXCEPT !.layout.readable = FALSE]
      <4>1. disk'.layout = [disk.layout EXCEPT !.readable = FALSE]
        BY <2>1, <3>4 DEF Groups
      <4> QED
        BY <2>2, <3>4, <4>1
    <3> QED
      BY <3>1, <3>2, <3>3, <3>4 DEF Damage
  <2> QED
    BY <2>3, StatusCases
<1>4. RestoreStatus(disk)' = RestoreStatus(disk')
  BY DEF RestoreStatus, HasState, HasGeometry
<1> QED
  BY <1>1, <1>2, <1>3, <1>4, SnapshotCases
     DEF IInv, TypeOK, PanelStatesValid, HalfSaved, DiskHoldsStarted, DiskHoldsSaved,
         PinsBelong

\* The invariant is preserved by every step.
LEMMA NextIInv == ASSUME IInv, [Next]_vars PROVE IInv'
<1>1. CASE Next
  BY <1>1, LaunchIInv, PanelStepIInv, ResizeWindowIInv, ResetWorkspaceIInv,
     SaveLayoutIInv, SavePinIInv, CrashIInv, DamageIInv DEF Next
<1>2. CASE UNCHANGED vars
  BY <1>2 DEF vars, window, Window, IInv, TypeOK, PanelStatesValid, HalfSaved,
              DiskHoldsStarted, DiskHoldsSaved, MixedPins, PinsBelong
<1> QED
  BY <1>1, <1>2

\* What a launch shows, by what it finds.
LEMMA LaunchRoundTrip ==
    ASSUME IInv, NEW reset \in BOOLEAN, NEW windowed \in BOOLEAN,
           NEW smoke \in BOOLEAN, Launch(reset, windowed, smoke)
    PROVE  IF reset THEN Shows(EmptySnapshot)
           ELSE IF started.known THEN ShowsTorn
           ELSE Shows(IF saved.known THEN saved ELSE EmptySnapshot)
<1> DEFINE group == IF reset THEN NoGroup ELSE disk
<1>1. /\ status' = RestoreStatus(group)
      /\ status' = "Restored" =>
           /\ shown' = group.layout.shown \cup group.pins
           /\ floating' = group.layout.floating /\ pinned' = group.pins
           /\ maximized' = group.maximized
      /\ status' # "Restored" =>
           shown' = {} /\ floating' = {} /\ pinned' = {}
  BY LaunchShows DEF IInv
<1>2. CASE reset
  BY <1>1, <1>2, NothingFromNoGroup, SnapshotCases DEF Shows
<1>3. CASE ~reset /\ started.known
  <2>1. /\ disk.geometry = "good"
        /\ disk.layout = [present |-> TRUE, readable |-> TRUE,
                          shown |-> started.shown, floating |-> started.floating]
        /\ disk.maximized = started.maximized
        /\ saved.known => \E next \in Panels : disk.pins = MixedPins(next)
    BY <1>3 DEF IInv, DiskHoldsStarted
  <2>2. RestoreStatus(disk) = "Restored"
    BY <2>1 DEF RestoreStatus, HasState, HasGeometry
  <2>3. disk.layout.shown = started.shown /\ disk.layout.floating = started.floating
    BY <2>1
  <2>4. /\ shown' = started.shown \cup disk.pins /\ pinned' = disk.pins
        /\ floating' = started.floating /\ maximized' = started.maximized
    BY <1>1, <1>3, <2>1, <2>2, <2>3
  <2> QED
    BY <1>3, <2>1, <2>4 DEF ShowsTorn
<1>4. CASE ~reset /\ ~started.known /\ saved.known
  BY <1>1, <1>4, StatusCases, SnapshotCases DEF IInv, DiskHoldsSaved, Shows
<1>5. CASE ~reset /\ ~started.known /\ ~saved.known
  BY <1>1, <1>5, SnapshotCases DEF IInv, DiskHoldsSaved, Shows
<1> QED
  BY <1>2, <1>3, <1>4, <1>5

-----------------------------------------------------------------------------
(* The theorems *)

\* The inductive invariant holds in every reachable state.
LEMMA Invariance == Spec => []IInv
<1>1. Init => IInv
  BY InitIInv
<1>2. IInv /\ [Next]_vars => IInv'
  BY NextIInv
<1> QED
  BY <1>1, <1>2, PTL DEF Spec

\* The variables of the workspace keep their types.
THEOREM TypeCorrect == Spec => []TypeOK
<1>1. IInv => TypeOK
  BY DEF IInv
<1> QED
  BY <1>1, Invariance, PTL

\* A pinned panel is visible, through toggles, resets, and restores of a layout
\* that does not show it (panel_state.cpp:10-15).
THEOREM PanelStatesValidHolds == Spec => []PanelStatesValid
<1>1. IInv => PanelStatesValid
  BY DEF IInv
<1> QED
  BY <1>1, Invariance, PTL

\* Unless a save was cut short, the pins on disk belong to the layout on disk.
THEOREM PinsMatchLayoutHolds == Spec => []PinsMatchLayout
<1>1. IInv => PinsMatchLayout
  BY DEF IInv, PinsBelong, PinsMatchLayout
<1> QED
  BY <1>1, Invariance, PTL

\* A launch shows what the last complete save held, whatever crashes, smoke tests
\* and --windowed came in between, an empty window after a reset or over a damaged
\* file, and after a save that was cut short the layout of that save with its pins
\* for some first panels and the older pins for the rest (workspace_settings.cpp:54-76,
\* studio_main_window.cpp:61-66, 113-118).
THEOREM RoundTripHolds == Spec => RoundTrip
<1> DEFINE Right ==
      \A reset, windowed, smoke \in BOOLEAN : Launch(reset, windowed, smoke) =>
        IF reset THEN Shows(EmptySnapshot)
        ELSE IF started.known THEN ShowsTorn
        ELSE Shows(IF saved.known THEN saved ELSE EmptySnapshot)
<1>1. IInv => Right
  BY LaunchRoundTrip
<1>2. IInv /\ [Next]_vars => [Right]_vars
  BY <1>1
<1> QED
  BY <1>2, Invariance, PTL DEF Spec, RoundTrip
=============================================================================
