CHECK_DEADLOCK FALSE
SPECIFICATION SessionSpec
CONSTANTS
    Workers = {w1, w2, w3}
    c1 = c1  c2 = c2  c3 = c3
    Conns = {c1, c2, c3}
    Fds = {f1, f2, f3}
    None = None
    Lengths = {"length"}
    MaxUnread = 2
    Script <- MCScript
    Rounds = 2
PROPERTY ListingReturns
