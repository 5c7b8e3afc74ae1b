SPECIFICATION Spec
CONSTANTS
    Calls = {c1}
    menu = menu
    note = note
    desk = desk
    bye = bye
    hours = hours
    switch = switch
    spin = spin
    NoNode = NoNode
    Missing = Missing
    Prompts = {note}
    Collects = {menu}
    Terminals = {desk}
    Hangups = {bye}
    Silents = {hours, switch, spin}
    Entry = hours
    OnDone <- MCOnDone
    OnTimeout <- MCOnTimeout
    Branches <- MCBranches
    WalkLimit = 3
    MaxSteps = 6
    MaxEntries = 2
INVARIANTS InStep ReplayIsPath
PROPERTIES CompletedIsFinal HangupEndsScript
CHECK_DEADLOCK FALSE
