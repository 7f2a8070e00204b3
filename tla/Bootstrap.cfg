\* Three starts of two processes, each with any of six configurations, dying anywhere.
SPECIFICATION Spec
CONSTANTS
    p1 = p1  p2 = p2
    Processes = {p1, p2}
    Ids <- MCIds
    Below = 0
    Configs <- MCConfigs
    Generated <- MCGenerated
    TrimLeft <- MCTrimLeft
    TrimRight <- MCTrimRight
    MaxStarts = 3
SYMMETRY ProcessSymmetry
INVARIANTS TypeOK SequentialStartsReuse OnlyRacesCollide LoggedKeyWorks NoKeyIsLost
