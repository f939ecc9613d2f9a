\* Two requests change the flags of two users.
CONSTANTS
    u1 = u1  u2 = u2  q1 = q1  q2 = q2
    Users = {u1, u2}
    Requests = {q1, q2}
    NoUser = NoUser  NoRequest = NoRequest
SPECIFICATION Spec
SYMMETRY Symmetry
INVARIANTS SysadminUnlessOvertaken
CHECK_DEADLOCK FALSE
