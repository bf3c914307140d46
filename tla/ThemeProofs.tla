----------------------------- MODULE ThemeProofs -----------------------------
(***************************************************************************)
(* Proofs about Theme: whatever is chosen, whatever the desktop does and   *)
(* whenever Qt hears of it, the window, the settings and the effective     *)
(* mode agree.  None of the three invariants is inductive alone.           *)
(***************************************************************************)
EXTENDS Theme, TLAPS

IInv ==
    /\ TypeOK
    /\ WindowShowsTheme
    /\ FollowsDesktop
    /\ ChoiceRemembered

-----------------------------------------------------------------------------
(* Lemmas about the operators *)

\* Whatever the settings file holds, what is loaded from it is a mode, and a mode
\* is loaded as itself.
LEMMA LoadModeLoads ==
    ASSUME NEW value
    PROVE  /\ LoadMode(value) \in ThemeModes
           /\ value \in ThemeModes => LoadMode(value) = value
BY DEF LoadMode, ThemeModes

\* A requested mode always resolves to one of the two that can be drawn.
LEMMA ResolveResolves ==
    ASSUME NEW mode \in ThemeModes, NEW colors
    PROVE  Resolve(mode, colors) \in EffectiveModes
BY DEF Resolve, DetectSystemMode, ThemeModes, EffectiveModes

\* After applyTheme() the window shows the mode applied, also when themeChanged is
\* not emitted: then it showed that mode before.
LEMMA ApplyThemeShows ==
    ASSUME TypeOK, NEW mode \in ThemeModes, NEW colors, NEW persist \in BOOLEAN,
           ApplyTheme(mode, colors, persist),
           persist \/ (canvasTokens = effectiveMode /\ checkedAction = mode)
    PROVE  /\ requestedMode' = mode
           /\ effectiveMode' = Resolve(mode, colors)
           /\ canvasTokens' = effectiveMode' /\ checkedAction' = mode
           /\ stored' = IF persist THEN mode ELSE stored
BY DEF ApplyTheme, SaveMode, Notify, UpdateWindow, SetThemeTokens, window

-----------------------------------------------------------------------------
(* One lemma for each action *)

\* The initial states satisfy the inductive invariant.
LEMMA InitIInv == ASSUME Init PROVE IInv
BY LoadModeLoads
   DEF Init, IInv, TypeOK, WindowShowsTheme, FollowsDesktop, ChoiceRemembered,
       ColorSchemes, ThemeModes, EffectiveModes

\* A launch reads the settings or obeys --theme, and shows the result.
LEMMA LaunchIInv ==
    ASSUME IInv, NEW option \in ThemeModes \cup {"none"}, Launch(option)
    PROVE  IInv'
<1> DEFINE mode == IF option = "none" THEN LoadMode(stored) ELSE option
<1>1. mode \in ThemeModes
  BY LoadModeLoads
<1>2. /\ run' = TRUE /\ scheme' = desktop /\ desktop' = desktop
      /\ requestedMode' = mode /\ effectiveMode' = Resolve(mode, desktop)
      /\ canvasTokens' = Resolve(mode, desktop) /\ checkedAction' = mode
      /\ choice' = mode
      /\ stored' = IF option # "none" THEN mode ELSE stored
  BY DEF Launch, SaveMode, UpdateWindow, SetThemeTokens
<1>3. TypeOK'
  BY <1>1, <1>2, ResolveResolves DEF IInv, TypeOK
<1>4. LoadMode(stored') = mode
  BY <1>1, <1>2, LoadModeLoads
<1> QED
  BY <1>2, <1>3, <1>4
     DEF IInv, WindowShowsTheme, FollowsDesktop, ChoiceRemembered

\* A choice in the menu is shown and saved at once.
LEMMA SelectThemeIInv ==
    ASSUME IInv, NEW mode \in ThemeModes, SelectTheme(mode) PROVE IInv'
<1>1. /\ run' = run /\ scheme' = scheme /\ desktop' = desktop /\ choice' = mode
      /\ requestedMode' = mode /\ effectiveMode' = Resolve(mode, scheme)
      /\ canvasTokens' = effectiveMode' /\ checkedAction' = mode
      /\ stored' = mode
  BY ApplyThemeShows DEF IInv, SelectTheme
<1> QED
  BY <1>1, ResolveResolves, LoadModeLoads
     DEF IInv, TypeOK, WindowShowsTheme, FollowsDesktop, ChoiceRemembered

\* A change of the desktop's scheme is followed in system mode, and never saved.
LEMMA ColorSchemeChangedIInv ==
    ASSUME IInv, ColorSchemeChanged PROVE IInv'
<1>1. /\ run /\ run' = run /\ scheme' = desktop /\ desktop' = desktop
      /\ choice' = choice
  BY DEF ColorSchemeChanged
<1>2. CASE FollowsSystem(requestedMode)
  <2>1. /\ requestedMode' = requestedMode
        /\ effectiveMode' = Resolve(requestedMode, desktop)
        /\ canvasTokens' = effectiveMode' /\ checkedAction' = requestedMode
        /\ stored' = stored
    BY <1>1, <1>2, ApplyThemeShows
       DEF IInv, TypeOK, WindowShowsTheme, ColorSchemeChanged
  <2> QED
    BY <1>1, <2>1, ResolveResolves
       DEF IInv, TypeOK, WindowShowsTheme, FollowsDesktop, ChoiceRemembered
<1>3. CASE ~FollowsSystem(requestedMode)
  BY <1>1, <1>3
     DEF ColorSchemeChanged, FollowsSystem, window, IInv, TypeOK,
         WindowShowsTheme, FollowsDesktop, ChoiceRemembered, Resolve
<1> QED
  BY <1>2, <1>3

\* The other actions leave the controller alone, or happen without one.
LEMMA OtherStepsIInv ==
    ASSUME IInv,
           \/ \E colors \in ColorSchemes : DesktopSwitches(colors)
           \/ Quit
           \/ \E value \in {"absent", "invalid"} \cup ThemeModes : EditSettings(value)
           \/ UNCHANGED vars
    PROVE  IInv'
<1> USE DEF IInv, TypeOK, WindowShowsTheme, FollowsDesktop, ChoiceRemembered, window
<1>1. CASE \E colors \in ColorSchemes : DesktopSwitches(colors)
  BY <1>1 DEF DesktopSwitches
<1>2. CASE Quit
  BY <1>2 DEF Quit
<1>3. CASE \E value \in {"absent", "invalid"} \cup ThemeModes : EditSettings(value)
  BY <1>3, LoadModeLoads DEF EditSettings
<1>4. CASE UNCHANGED vars
  BY <1>4 DEF vars
<1> QED
  BY <1>1, <1>2, <1>3, <1>4

\* The invariant is preserved by every step.
LEMMA NextIInv == ASSUME IInv, [Next]_vars PROVE IInv'
BY LaunchIInv, SelectThemeIInv, ColorSchemeChangedIInv, OtherStepsIInv DEF Next

-----------------------------------------------------------------------------
(* The theorems *)

\* The inductive invariant holds in every reachable state.
LEMMA Invariance == Spec => []IInv
<1>1. Init => IInv
  BY InitIInv
<1>2. IInv /\ [Next]_vars => IInv'
  BY NextIInv
<1> QED
  BY <1>1, <1>2, PTL DEF Spec

\* The variables of the theme subsystem keep their types.
THEOREM TypeCorrect == Spec => []TypeOK
<1>1. IInv => TypeOK
  BY DEF IInv
<1> QED
  BY <1>1, Invariance, PTL

\* The drawing and the menu show the controller's modes (theme_system.cpp:249-273).
THEOREM WindowShowsThemeHolds == Spec => []WindowShowsTheme
<1>1. IInv => WindowShowsTheme
  BY DEF IInv
<1> QED
  BY <1>1, Invariance, PTL

\* The effective mode is the requested one or that of the desktop, in whatever
\* order choices and changes come (theme_system.cpp:210-220, 235-258).
THEOREM FollowsDesktopHolds == Spec => []FollowsDesktop
<1>1. IInv => FollowsDesktop
  BY DEF IInv
<1> QED
  BY <1>1, Invariance, PTL

\* The settings file holds the last choice whenever the process ends
\* (theme_system.cpp:235-253).
THEOREM ChoiceRememberedHolds == Spec => []ChoiceRemembered
<1>1. IInv => ChoiceRemembered
  BY DEF IInv
<1> QED
  BY <1>1, Invariance, PTL
=============================================================================
