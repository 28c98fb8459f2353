SPECIFICATION Spec
CONSTANTS
    Posters = {p1, p2}
    Events <- RaceEvents
PROPERTIES
    ChangesFollowTable
