\* Two requests at a time over two projects and two users: one asks for anything for u1, the
\* other demotes u2 or promotes u1.  Operators do what viewers do.
CONSTANTS
    p1 = p1  p2 = p2  u1 = u1  u2 = u2  q1 = q1  q2 = q2
    Projects = {p1, p2}
    Users = {u1, u2}
    Requests = {q1, q2}
    LesserRoles = {"viewer"}
    Asked <- TwoMembers
    NoRequest = NoRequest  NoProject = NoProject  NoUser = NoUser
SPECIFICATION FairSpec
INVARIANTS AdminUnlessOvertaken
PROPERTY RequestsEnd
