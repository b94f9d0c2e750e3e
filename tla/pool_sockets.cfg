SPECIFICATION ServedSpec
CONSTANTS
    Workers = {w1, w2}
    Conns = {c1, c2}
    Fds = {f1, f2}
    None = None
    Lengths = {"length", "zero"}
    MaxUnread = 1
INVARIANTS
    SocketsInOnePlace
    QueuedAreAnswered
    LeaksAreForgotten
PROPERTIES
    ChannelSpec
    QueuedAreServed
    StopReturns
