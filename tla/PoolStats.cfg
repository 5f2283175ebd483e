\* Three overlapping requests, three snapshots, two failures.
CONSTANTS
    Requests = {1, 2, 3}
    MaxSnapshots = 3
    MaxFaults = 2
SPECIFICATION Spec
PROPERTY FiguresCatchUp
