\* The fill of a new link, started by its shortening, comes after its deletion.
CONSTANTS
    Codes <- OneCode
    Urls = {u1}
    Users = {alice}
    Shorteners = {s1}
    Visitors = {}
    Deleters = {d1}
    Base = 2
    CodeLength = 2
    Draws = 5
SPECIFICATION Spec
PROPERTIES
    InvalidationLasts
CHECK_DEADLOCK FALSE
