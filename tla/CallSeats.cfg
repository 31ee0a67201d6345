CONSTANTS
    ann = ann
    ben1 = ben1
    ben2 = ben2
    Ann = Ann
    Ben = Ben
    east = east
    west = west
    none = none
    Client = {ann, ben1, ben2}
    Node = {east, west}
    User = {Ann, Ben}
    UserOf <- MCUserOf
    HomeOf <- MCHomeOf
    MaxFrames <- MCMaxFrames
SPECIFICATION Spec
CHECK_DEADLOCK FALSE
INVARIANTS
    OneSeat
    NoGhosts
    SeatsKnown
