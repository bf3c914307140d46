-------------------------------- MODULE Theme --------------------------------
(***************************************************************************)
(* The appearance of the application: ThemeController and ThemeSettings    *)
(* (packages/themes), the window that draws with their tokens and the      *)
(* group of theme actions in its View menu (packages/shell), and the       *)
(* --theme option of apps/studio/main.cpp.                                 *)
(*                                                                         *)
(* Qt learns of a change of the desktop's color scheme through the event   *)
(* loop: until then colorScheme() is the old one, and the user may choose  *)
(* another mode first.                                                     *)
(***************************************************************************)

ThemeModes == {"system", "light", "dark"}
EffectiveModes == {"light", "dark"}
ColorSchemes == {"unknown", "light", "dark"}

VARIABLES
    run,            \* the controller and its window exist
    desktop,        \* the color scheme of the desktop
    scheme,         \* colorScheme() as Qt last heard of it
    requestedMode, effectiveMode,
    canvasTokens,   \* the palette the drawing workspace paints with
    checkedAction,  \* the checked action of the theme group
    stored,         \* appearance/theme in the settings file
    choice          \* history: the last mode anyone chose and kept

vars == <<run, desktop, scheme, requestedMode, effectiveMode, canvasTokens,
          checkedAction, stored, choice>>

window == <<canvasTokens, checkedAction>>

-----------------------------------------------------------------------------
(* ThemeSettings and the detection of the system's appearance *)

LoadUnparsed(value) == IF value = "absent" THEN "system" ELSE value    \* mutant

\* loadMode(): an absent or unreadable value means "system".
LoadMode(value) == IF value \in ThemeModes THEN value ELSE "system"

DetectSystemMode(colors) == IF colors = "dark" THEN "dark" ELSE "light"

Resolve(mode, colors) == IF mode = "system" THEN DetectSystemMode(colors) ELSE mode

SaveBeforeAssigned(mode, persist) ==    \* mutant: saves the mode it replaces
    IF persist THEN stored' = requestedMode ELSE UNCHANGED stored

\* saveMode(), when applyTheme is to persist.
SaveMode(mode, persist) == IF persist THEN stored' = mode ELSE UNCHANGED stored

NotifyChange(changed, persist) == changed    \* mutant

\* The condition under which applyTheme emits themeChanged.
Notify(changed, persist) == changed \/ persist

\* The drawing workspace takes the tokens; those of either mode are valid.
SetThemeTokens(effective) == canvasTokens' = effective

\* The window follows themeChanged: updateTheme, then updateThemeActions.
UpdateWindow(mode, effective) == SetThemeTokens(effective) /\ checkedAction' = mode

\* applyTheme() for a mode that was just requested or kept.
ApplyTheme(mode, colors, persist) ==
    LET next == Resolve(mode, colors)
    IN  /\ SaveMode(mode, persist)
        /\ requestedMode' = mode /\ effectiveMode' = next
        /\ IF Notify(next # effectiveMode, persist)
           THEN UpdateWindow(mode, next) ELSE UNCHANGED window

-----------------------------------------------------------------------------
(* Actions *)

Init ==
    /\ run = FALSE
    /\ desktop \in ColorSchemes /\ scheme = desktop
    /\ requestedMode = "system" /\ effectiveMode = "light"
    /\ canvasTokens = "light" /\ checkedAction = "system"
    /\ stored \in {"absent", "invalid"} \cup ThemeModes
    /\ choice = LoadMode(stored)

\* main() constructs the controller, applies --theme when it is given, and
\* constructs the window, which reads the controller.
Launch(themeOption) ==
    /\ ~run
    /\ run' = TRUE /\ scheme' = desktop
    /\ LET mode == IF themeOption = "none" THEN LoadMode(stored) ELSE themeOption
       IN  /\ SaveMode(mode, themeOption # "none")
           /\ requestedMode' = mode
           /\ effectiveMode' = Resolve(mode, desktop)
           /\ UpdateWindow(mode, Resolve(mode, desktop))
           /\ choice' = mode
    /\ UNCHANGED desktop

\* An action of the View/Theme menu, setRequestedMode().
SelectTheme(mode) ==
    /\ run
    /\ ApplyTheme(mode, scheme, TRUE)
    /\ choice' = mode
    /\ UNCHANGED <<run, desktop, scheme>>

DesktopSwitches(colors) ==
    /\ colors # desktop
    /\ desktop' = colors
    /\ UNCHANGED <<run, scheme, requestedMode, effectiveMode, window, stored, choice>>

FollowsUnlessDark(mode) == mode = "system" /\ effectiveMode = "light"    \* mutant

FollowsSystem(mode) == mode = "system"

\* Qt hears of it and emits colorSchemeChanged: refreshSystemAppearance().
ColorSchemeChanged ==
    /\ run /\ scheme # desktop
    /\ scheme' = desktop
    /\ IF FollowsSystem(requestedMode)
       THEN ApplyTheme(requestedMode, desktop, FALSE)
       ELSE UNCHANGED <<requestedMode, effectiveMode, window, stored>>
    /\ UNCHANGED <<run, desktop, choice>>

\* The process ends, in whatever way.
Quit ==
    /\ run
    /\ run' = FALSE
    /\ UNCHANGED <<desktop, scheme, requestedMode, effectiveMode, window, stored, choice>>

\* The settings file is edited while the application is not running.
EditSettings(value) ==
    /\ ~run
    /\ stored' = value /\ choice' = LoadMode(value)
    /\ UNCHANGED <<run, desktop, scheme, requestedMode, effectiveMode, window>>

Next ==
    \/ \E option \in ThemeModes \cup {"none"} : Launch(option)
    \/ \E mode \in ThemeModes : SelectTheme(mode)
    \/ \E colors \in ColorSchemes : DesktopSwitches(colors)
    \/ ColorSchemeChanged
    \/ Quit
    \/ \E value \in {"absent", "invalid"} \cup ThemeModes : EditSettings(value)

Spec == Init /\ [][Next]_vars

-----------------------------------------------------------------------------
(* Properties *)

\* The values every variable of the theme subsystem may take
\* (packages/themes/include/aimora/studio/themes).
TypeOK ==
    /\ run \in BOOLEAN
    /\ desktop \in ColorSchemes /\ scheme \in ColorSchemes
    /\ requestedMode \in ThemeModes /\ effectiveMode \in EffectiveModes
    /\ canvasTokens \in EffectiveModes /\ checkedAction \in ThemeModes
    /\ stored \in {"absent", "invalid"} \cup ThemeModes
    /\ choice \in ThemeModes

\* The drawing is painted with the effective theme and the menu shows the
\* requested mode, though themeChanged is not emitted by every applyTheme()
\* (theme_system.cpp:249-273).
WindowShowsTheme == run => canvasTokens = effectiveMode /\ checkedAction = requestedMode

\* The effective mode is the requested one or, in system mode, that of the
\* desktop as Qt knows it, however choices and changes of the desktop
\* interleave: a mode chosen late does not keep an old appearance
\* (theme_system.cpp:210-220, 235-258).
FollowsDesktop == run => effectiveMode = Resolve(requestedMode, scheme)

\* The mode a launch starts with is the last one chosen, whenever the last run
\* ended: the choice is on disk by the time it shows, and a change of the
\* desktop's scheme is never taken for one (theme_system.cpp:235-253).
ChoiceRemembered == LoadMode(stored) = choice /\ (run => requestedMode = choice)
=============================================================================
