CONSTANTS
    reset = reset
    provide = provide
    setup = setup
    Request = {reset, provide, setup}
    NoRequest = NoRequest
    Screens <- PromptScreens
    Failing <- FailingValues
    Writes = {reset, setup}
    Contents = {1, 2}
    MaxScreens = 5
    IdleSteps = 3

SPECIFICATION Spec

INVARIANTS
    DisplaysTheRequest
    AcceptedAfterAllScreens
    ButtonsAnswerOnce
    IdleShowsFlash
