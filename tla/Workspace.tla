------------------------------ MODULE Workspace ------------------------------
(***************************************************************************)
(* The panels of the main window and the settings that outlive it          *)
(* (packages/shell): docking panels that are shown, floated and pinned,    *)
(* the workspace written to QSettings when the window closes, and read     *)
(* back when the next one opens.                                           *)
(*                                                                         *)
(* A QSettings group reaches the disk as a whole at each sync(), and a     *)
(* crash may fall between two of them.  The view action of a panel is      *)
(* checked exactly when its panel is shown (visibilityChanged), so it has  *)
(* no variable of its own.                                                 *)
(***************************************************************************)
EXTENDS Naturals

CONSTANT PanelCount    \* the panels, in the order of their IDs

ASSUME PanelsAssumption == PanelCount \in Nat \ {0}

Panels == 1 .. PanelCount

VARIABLES
    run,        \* "off", "open", "smoke" in the shell smoke test, or "saving"
                \* inside closeEvent
    shown, floating, pinned,
    maximized,
    status,     \* restoreStatus_
    saveNext,   \* the next panel whose pin saveWorkspace writes
    disk,       \* the "workspace" group of the settings file
    \* history
    saved,      \* what the last complete save held, unless the file was damaged
    started,    \* the save that is going on, or was cut short
    torn        \* the last save was cut short, or the file was damaged outside

window == <<shown, floating, pinned, maximized, status>>
vars == <<run, window, saveNext, disk, saved, started, torn>>

Absent == [present |-> FALSE]
Layouts == {Absent} \cup
           [present : {TRUE}, readable : BOOLEAN, shown : SUBSET Panels,
            floating : SUBSET Panels]

\* workspace/geometry, workspace/mainWindowState, workspace/maximized and
\* workspace/panels/*/pinned.
Groups == [geometry : {"absent", "good", "bad"}, layout : Layouts,
           maximized : BOOLEAN, pins : SUBSET Panels]

NoGroup == [geometry |-> "absent", layout |-> Absent, maximized |-> TRUE, pins |-> {}]

NoSnapshot == [known |-> FALSE]
Snapshots == {NoSnapshot} \cup [known : {TRUE}, shown : SUBSET Panels,
                                floating : SUBSET Panels, pinned : SUBSET Panels,
                                maximized : BOOLEAN]

\* What a launch has to show when nothing was saved, or the save is unusable.
EmptySnapshot == [known |-> TRUE, shown |-> {}, floating |-> {}, pinned |-> {},
                  maximized |-> TRUE]

Window == [known |-> TRUE, shown |-> shown, floating |-> floating,
           pinned |-> pinned, maximized |-> maximized]

Init ==
    /\ run = "off"
    /\ shown = {} /\ floating = {} /\ pinned = {}
    /\ maximized = FALSE /\ status = "NoSavedState"
    /\ saveNext = 1
    /\ disk = NoGroup
    /\ saved = EmptySnapshot /\ started = NoSnapshot /\ torn = FALSE

-----------------------------------------------------------------------------
(* WorkspaceSettings *)

LayoutOnly(group) ==    \* mutant: the pins stay behind
    [group EXCEPT !.geometry = "absent", !.layout = Absent]

\* clearLayout() removes the whole group, whatever it held.
Cleared(group) == NoGroup

HasGeometry(group) == group.geometry # "absent"
HasState(group) == group.layout.present

\* restore(): what it finds, and what the group is afterwards.
RestoreStatus(group) ==
    IF ~HasGeometry(group) /\ ~HasState(group) THEN "NoSavedState"
    ELSE IF HasGeometry(group) /\ HasState(group)
              /\ group.geometry = "good" /\ group.layout.readable
         THEN "Restored"
         ELSE "InvalidState"

AfterRestore(group) ==
    IF RestoreStatus(group) = "InvalidState" THEN Cleared(group) ELSE group

-----------------------------------------------------------------------------
(* StudioDockWidget and StudioMainWindow *)

PinnedAsIs(panel, pin) ==    \* mutant: pinning does not show the panel
    /\ pinned' = IF pin THEN pinned \cup {panel} ELSE pinned \ {panel}
    /\ UNCHANGED shown

\* setPinned(): a pinned panel is shown and loses its close button.
SetPinned(panel, pin) ==
    /\ pinned' = IF pin THEN pinned \cup {panel} ELSE pinned \ {panel}
    /\ shown' = IF pin THEN shown \cup {panel} ELSE shown

ApplyDefaultWorkspace == shown' = {} /\ floating' = {} /\ pinned' = {}

\* The end of the constructor, the pins read back over the restored layout.
RestoreWorkspace(group) ==
    IF RestoreStatus(group) = "Restored"
    THEN /\ shown' = group.layout.shown \cup group.pins
         /\ floating' = group.layout.floating /\ pinned' = group.pins
    ELSE ApplyDefaultWorkspace

ShouldStartMaximized(group) ==
    IF RestoreStatus(group) = "Restored" THEN group.maximized ELSE TRUE

\* restoreGeometry() brings back the window state with the geometry, also when
\* the layout that comes with it is unusable.
GeometryMaximizes(group) ==
    HasState(group) /\ group.geometry = "good" /\ group.maximized

\* main(): --reset-workspace clears the group first; --windowed and the shell
\* smoke test do not maximize the window, and do not undo that it is.
Launch(reset, windowed, smoke) ==
    /\ run = "off"
    /\ run' = IF smoke THEN "smoke" ELSE "open"
    /\ LET group == IF reset THEN Cleared(disk) ELSE disk
       IN  /\ RestoreWorkspace(group)
           /\ status' = RestoreStatus(group)
           /\ disk' = AfterRestore(group)
           /\ maximized' = (GeometryMaximizes(group)
                            \/ (ShouldStartMaximized(group) /\ ~windowed /\ ~smoke))
    /\ saved' = IF reset \/ status' = "InvalidState" THEN EmptySnapshot
                ELSE IF status' = "Restored" THEN Window' ELSE saved
    /\ started' = NoSnapshot
    /\ torn' = (torn /\ disk' # NoGroup)
    /\ UNCHANGED saveNext

HiddenAnyway(panel) == shown \ {panel}    \* mutant: the pin is not looked at

\* What is shown once the view action of a shown panel was unchecked.
HiddenUnlessPinned(panel) == IF panel \in pinned THEN shown ELSE shown \ {panel}

\* The view action of a panel.
TogglePanel(panel) ==
    /\ run = "open"
    /\ shown' = IF panel \in shown THEN HiddenUnlessPinned(panel) ELSE shown \cup {panel}
    /\ UNCHANGED <<run, floating, pinned, maximized, status, saveNext, disk,
                   saved, started, torn>>

\* The close button of a panel, which a pinned one does not have, does the same
\* as the view action; the pin action is another matter.
TogglePin(panel) ==
    /\ run = "open"
    /\ SetPinned(panel, panel \notin pinned)
    /\ UNCHANGED <<run, floating, maximized, status, saveNext, disk, saved,
                   started, torn>>

FloatPanel(panel) ==
    /\ run = "open" /\ panel \in shown
    /\ floating' = IF panel \in floating THEN floating \ {panel}
                                         ELSE floating \cup {panel}
    /\ UNCHANGED <<run, shown, pinned, maximized, status, saveNext, disk, saved,
                   started, torn>>

ResizeWindow ==
    /\ run = "open"
    /\ maximized' = ~maximized
    /\ UNCHANGED <<run, shown, floating, pinned, status, saveNext, disk, saved,
                   started, torn>>

ResetWorkspace ==
    /\ run = "open"
    /\ disk' = Cleared(disk)
    /\ ApplyDefaultWorkspace
    /\ status' = "NoSavedState"
    /\ saved' = EmptySnapshot /\ torn' = FALSE
    /\ UNCHANGED <<run, maximized, saveNext, started>>

\* closeEvent() up to the first sync(): the layout is written, the pins are not.
\* The smoke test closes its window too, over the settings of the user.
SaveLayout ==
    /\ run \in {"open", "smoke"}
    /\ run' = "saving" /\ saveNext' = 1
    /\ disk' = [disk EXCEPT !.geometry = "good",
                            !.layout = [present |-> TRUE, readable |-> TRUE,
                                        shown |-> shown, floating |-> floating],
                            !.maximized = maximized]
    /\ started' = Window /\ torn' = TRUE
    /\ UNCHANGED <<window, saved>>

LastPinSkipped == saveNext + 1 >= PanelCount    \* mutant: the loop ends early
LoopTooLong == saveNext > PanelCount            \* mutant: one panel too many

LastPin == saveNext = PanelCount

\* savePanelPinned() of the next panel, each with a sync() of its own; after the
\* last one the window is gone.
SavePin ==
    /\ run = "saving"
    /\ disk' = [disk EXCEPT !.pins = IF saveNext \in pinned
                                     THEN @ \cup {saveNext} ELSE @ \ {saveNext}]
    /\ IF LastPin
       THEN /\ run' = "off" /\ saveNext' = 1
            /\ saved' = started /\ started' = NoSnapshot /\ torn' = FALSE
       ELSE saveNext' = saveNext + 1 /\ UNCHANGED <<run, saved, started, torn>>
    /\ UNCHANGED window

\* The process dies; what was synced stays.
Crash ==
    /\ run # "off"
    /\ run' = "off" /\ saveNext' = 1
    /\ UNCHANGED <<window, disk, saved, started, torn>>

\* The settings file is edited or truncated while the application is not running.
Damage ==
    /\ run = "off"
    /\ \/ disk' = [disk EXCEPT !.geometry = "bad"]
       \/ disk' = [disk EXCEPT !.geometry = "absent"]
       \/ disk' = [disk EXCEPT !.layout = Absent]
       \/ disk.layout.present /\ disk' = [disk EXCEPT !.layout.readable = FALSE]
    /\ saved' = NoSnapshot /\ started' = NoSnapshot /\ torn' = TRUE
    /\ UNCHANGED <<run, window, saveNext>>

-----------------------------------------------------------------------------
Next ==
    \/ \E reset, windowed, smoke \in BOOLEAN : Launch(reset, windowed, smoke)
    \/ \E panel \in Panels : TogglePanel(panel) \/ TogglePin(panel) \/ FloatPanel(panel)
    \/ ResizeWindow \/ ResetWorkspace
    \/ SaveLayout \/ SavePin \/ Crash \/ Damage

Spec == Init /\ [][Next]_vars

-----------------------------------------------------------------------------
(* Properties *)

TypeOK ==
    /\ run \in {"off", "open", "smoke", "saving"}
    /\ shown \subseteq Panels /\ floating \subseteq Panels /\ pinned \subseteq Panels
    /\ maximized \in BOOLEAN
    /\ status \in {"NoSavedState", "Restored", "InvalidState"}
    /\ saveNext \in Panels
    /\ disk \in Groups
    /\ saved \in Snapshots /\ started \in Snapshots /\ torn \in BOOLEAN

\* Every panel state is valid in the sense of PanelState::isValid
\* (packages/inspector/src/panel_state.cpp:10-15): a pinned panel is visible,
\* through toggles, resets, and restores of a layout that does not show it.
PanelStatesValid == run # "off" => pinned \subseteq shown

Shows(snapshot) ==
    /\ shown' = snapshot.shown /\ floating' = snapshot.floating
    /\ pinned' = snapshot.pinned
    /\ status' = "Restored" => maximized' = snapshot.maximized

\* The pins when the save that was started had come to the panel next.
MixedPins(next) ==
    {panel \in Panels : panel \in (IF panel < next THEN started ELSE saved).pinned}

ShowsTorn ==
    /\ shown' = started.shown \cup pinned' /\ floating' = started.floating
    /\ maximized' = started.maximized
    /\ saved.known => \E next \in Panels : pinned' = MixedPins(next)

\* A launch shows what the last complete save held, whatever crashes, smoke tests
\* and --windowed came in between, and an empty window after a reset or over a
\* damaged file.  After a save that was cut short it shows a mixture, and no
\* other: the layout of that save, its pins for some first panels, and the pins of
\* what was there before for the rest (workspace_settings.cpp:54-76,
\* studio_main_window.cpp:61-66, 113-118).
RoundTrip ==
    [][\A reset, windowed, smoke \in BOOLEAN : Launch(reset, windowed, smoke) =>
         IF reset THEN Shows(EmptySnapshot)
         ELSE IF started.known THEN ShowsTorn
         ELSE Shows(IF saved.known THEN saved ELSE EmptySnapshot)]_vars

\* Unless a save was cut short, the pins on disk belong to the layout on disk.
PinsMatchLayout ==
    run = "off" /\ ~torn =>
        disk.pins \subseteq IF disk.layout.present THEN disk.layout.shown ELSE {}
=============================================================================
