SPECIFICATION Spec
CONSTANTS
    w1 = w1
    w2 = w2
    home = home
    other = other
    leak = leak
    crash = crash
    flaky = flaky
    e1 = e1
    kaizen = kaizen
    auth = auth
    p1 = p1
    Nothing = Nothing
    Worker = {w1, w2}
    Repo = {home, other}
    Home = home
    Registered = {home, other}
    Title = {leak, crash, flaky}
    Evidence = {e1}
    Report <- MCReport
    Yields <- MCYields
    Label = {kaizen, auth, p1}
    Known <- MCKnown
    Required = {kaizen}
    Auth = auth
    Monitors = {flaky}
    Legacy <- MCLegacy
    Rounds = 2
    Runs = 2
    Faults = 1
CONSTRAINT Attempts
INVARIANTS OneIssuePerBug FiledOnce LabelsGranted
CHECK_DEADLOCK FALSE
