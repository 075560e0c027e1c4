SPECIFICATION Spec
CONSTANTS
    s1 = s1  s2 = s2  p1 = p1  p2 = p2
    Socket = {s1, s2}
    Peer = {p1, p2}
    NoSocket = NoSocket
    NoPeer = NoPeer
    Signal = {"page", "viewport"}
    MaxFaults = 2
    MaxTimers = 2
INVARIANTS OneStream QuietWhenAway
PROPERTIES Streams
