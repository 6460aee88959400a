\* A single reduce solve, a recurring one, a naive one, one SIGINT.
SPECIFICATION FairSpec
CONSTANTS
    End = End
    Main = Main
    Handles = {Main, s1, s2}
    EventOf <- MCEventOf
    Solves = {s1, s2, n}
    Searching = {s1, s2}
    Recurring = {s2}
    MaxSignals = 1
    MaxBranches = 2
INVARIANTS AnswerNotLost SatHasModel CrashOnlyByRace
PROPERTY ProgramExits
