CONSTANTS
    reset = reset
    provide = provide
    delegate = delegate
    setup = setup
    Request = {reset, provide, delegate, setup}
    NoRequest = NoRequest
    Screens <- PromptScreens
    Failing <- FailingValues
    MaxScreens = 7
    PROMPT_CYCLES = 3
    IdleScreens = 3

SPECIFICATION FairSpec

INVARIANTS
    TypeOK
    ButtonsAnswerWhatIsShown
    NoCallbackOutlivesItsPrompt
    ShownInTurn

PROPERTIES
    TimesOutOnlyWhenShown
    EveryPromptEnds
