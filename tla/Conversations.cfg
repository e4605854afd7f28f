SPECIFICATION FairSpec
CONSTANTS
    NWorkers = 2
    ask = ask
    take = take
    m1 = m1
    m2 = m2
    add = add
    reply = reply
    choice = choice
    step = step
    remove = remove
    Messages <- MCMessages
    Handlers <- MCHandlers
    Groups <- MCGroups
    Accepts <- MCAccepts
    Editors <- MCEditors
    Edits <- MCEdits
    Listeners <- MCListeners
    Asks <- MCAsks
    NextSteps = {step}
    Unfiltered = {step}
    Timed = {choice}
    Matches <- MCMatches
    Allows <- MCAllows
    Specificity <- MCSpecificity
INVARIANTS TakesOneMessage StopDrains
PROPERTIES EditsExclude AllHandled
CHECK_DEADLOCK FALSE
