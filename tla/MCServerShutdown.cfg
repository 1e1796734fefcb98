SPECIFICATION ServerSpec
CONSTANTS
    web = web
    raw = raw
    c1 = c1
    c2 = c2
    c3 = c3
    Listeners = {web, raw}
    Connections = {c1, c2, c3}
    ListenerOf <- MCListenerOf
    ShutdownTimeout = 2
    HandshakeTimeout = 1
    ConfigFiles <- MCTypical
INVARIANT
    InFlightConnectionsGetTheTimeout
CHECK_DEADLOCK FALSE
