\* The desktop switches between, during and after the choices of the user.
SPECIFICATION Spec
INVARIANTS
    TypeOK
    WindowShowsTheme
    FollowsDesktop
    ChoiceRemembered
