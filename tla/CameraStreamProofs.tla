------------------------- MODULE CameraStreamProofs -------------------------
(***************************************************************************)
(* The camera card, for any number of sockets, peers, timers and faults.   *)
(***************************************************************************)
EXTENDS CameraStream, TLAPS

\* The connections are what they can be.
Connections ==
    /\ ws \in Socket \cup {NoSocket}
    /\ socket \in [Socket -> {"closed", "connecting", "open", "mute", "playing", "closing"}]
    /\ pc \in Peer \cup {NoPeer}
    /\ peer \in [Peer -> {"closed", "new", "answered", "connected"}]

LEMMA ConnectionsStep == Connections /\ [Next]_vars => Connections'
<1> SUFFICES ASSUME Connections, [Next]_vars PROVE Connections'
  OBVIOUS
<1> USE DEF Connections, page, net, tids, sign
<1>1. CASE Attach
  BY <1>1 DEF Attach, Connected, OnConnect
<1>2. CASE Detach
  BY <1>2 DEF Detach, Disconnected
<1>3. ASSUME NEW g \in Signal, Appear(g) PROVE Connections'
  BY <1>3 DEF Appear, Connected, OnConnect
<1>4. ASSUME NEW g \in Signal, Vanish(g) PROVE Connections'
  BY <1>4 DEF Vanish, Disconnected
<1>5. CASE Click
  BY <1>5 DEF Click, OnDisconnect
<1>6. CASE Leave
  BY <1>6 DEF Leave, OnDisconnect
<1>7. CASE Reconnect
  BY <1>7 DEF Reconnect, OnConnect
<1>8. CASE Reload
  BY <1>8 DEF Reload, OnConnect
<1>9. CASE Signed
  BY <1>9 DEF Signed
<1>10. CASE SignFails
  BY <1>10 DEF SignFails
<1>11. ASSUME NEW s \in Socket, Opens(s) PROVE Connections'
  BY <1>11 DEF Opens
<1>12. ASSUME NEW s \in Socket, Drops(s) PROVE Connections'
  BY <1>12 DEF Drops
<1>13. ASSUME NEW s \in Socket, Closes(s) PROVE Connections'
  BY <1>13 DEF Closes
<1>14. CASE VideoError
  BY <1>14 DEF VideoError
<1>15. CASE MediaStarts
  BY <1>15 DEF MediaStarts
<1>16. CASE MediaRefused
  BY <1>16 DEF MediaRefused
<1>17. CASE Answered
  BY <1>17 DEF Answered
<1>18. CASE OfferRefused
  BY <1>18 DEF OfferRefused
<1>19. ASSUME NEW p \in Peer, PeerConnects(p) PROVE Connections'
  BY <1>19 DEF PeerConnects
<1>20. ASSUME NEW p \in Peer, PeerFails(p) PROVE Connections'
  BY <1>20 DEF PeerFails, OnConnect
<1>21. ASSUME NEW p \in Peer, PeerVideo(p) PROVE Connections'
  BY <1>21 DEF PeerVideo
<1>22. CASE AssignHass
  BY <1>22 DEF AssignHass
<1>23. CASE UNCHANGED vars
  BY <1>23 DEF vars
<1> QED
  BY <1>1, <1>2, <1>3, <1>4, <1>5, <1>6, <1>7, <1>8, <1>9, <1>10, <1>11,
     <1>12, <1>13, <1>14, <1>15, <1>16, <1>17, <1>18, <1>19, <1>20, <1>21, <1>22, <1>23 DEF Next

\* What this.ws and this.pc hold is not said to be closed.
StatesFit ==
    /\ ws # NoSocket => wsState # "closed"
    /\ pc # NoPeer => pcState # "closed"

Quiet == StatesFit /\ QuietWhenAway

LEMMA QuietStep == Quiet /\ [Next]_vars => Quiet'
<1> SUFFICES ASSUME Quiet, [Next]_vars PROVE Quiet'
  OBVIOUS
<1> USE DEF Quiet, StatesFit, QuietWhenAway, page, net, tids, sign
<1>1. CASE Attach
  BY <1>1 DEF Attach, Connected, OnConnect
<1>2. CASE Detach
  BY <1>2 DEF Detach, Disconnected
<1>3. ASSUME NEW g \in Signal, Appear(g) PROVE Quiet'
  BY <1>3 DEF Appear, Connected, OnConnect
<1>4. ASSUME NEW g \in Signal, Vanish(g) PROVE Quiet'
  BY <1>4 DEF Vanish, Disconnected
<1>5. CASE Click
  BY <1>5 DEF Click, OnDisconnect
<1>6. CASE Leave
  BY <1>6 DEF Leave, OnDisconnect
<1>7. CASE Reconnect
  BY <1>7 DEF Reconnect, OnConnect
<1>8. CASE Reload
  BY <1>8 DEF Reload, OnConnect
<1>9. CASE Signed
  BY <1>9 DEF Signed
<1>10. CASE SignFails
  BY <1>10 DEF SignFails
<1>11. ASSUME NEW s \in Socket, Opens(s) PROVE Quiet'
  BY <1>11 DEF Opens
<1>12. ASSUME NEW s \in Socket, Drops(s) PROVE Quiet'
  BY <1>12 DEF Drops
<1>13. ASSUME NEW s \in Socket, Closes(s) PROVE Quiet'
  BY <1>13 DEF Closes
<1>14. CASE VideoError
  BY <1>14 DEF VideoError
<1>15. CASE MediaStarts
  BY <1>15 DEF MediaStarts
<1>16. CASE MediaRefused
  BY <1>16 DEF MediaRefused
<1>17. CASE Answered
  BY <1>17 DEF Answered
<1>18. CASE OfferRefused
  BY <1>18 DEF OfferRefused
<1>19. ASSUME NEW p \in Peer, PeerConnects(p) PROVE Quiet'
  BY <1>19 DEF PeerConnects
<1>20. ASSUME NEW p \in Peer, PeerFails(p) PROVE Quiet'
  BY <1>20 DEF PeerFails, OnConnect
<1>21. ASSUME NEW p \in Peer, PeerVideo(p) PROVE Quiet'
  BY <1>21 DEF PeerVideo
<1>22. CASE AssignHass
  BY <1>22 DEF AssignHass
<1>23. CASE UNCHANGED vars
  BY <1>23 DEF vars
<1> QED
  BY <1>1, <1>2, <1>3, <1>4, <1>5, <1>6, <1>7, <1>8, <1>9, <1>10, <1>11,
     <1>12, <1>13, <1>14, <1>15, <1>16, <1>17, <1>18, <1>19, <1>20, <1>21, <1>22, <1>23 DEF Next

\* While no close was taken for another's, what is live is this.ws and this.pc,
\* and a socket that is not open yet has no peer beside it.
Single ==
    "close" \notin mishaps =>
      /\ \A s \in Socket : Live(s) => s = ws
      /\ \A p \in Peer : peer[p] # "closed" => p = pc
      /\ ws # NoSocket /\ socket[ws] = "connecting" => pc = NoPeer

LEMMA SingleStep == Connections /\ StatesFit /\ Single /\ [Next]_vars => Single'
<1> SUFFICES ASSUME Connections, StatesFit, Single, [Next]_vars PROVE Single'
  OBVIOUS
<1> USE CameraAssumption DEF Connections, StatesFit, Single, Live, page, net, tids, sign
<1>1. CASE Attach
  BY <1>1 DEF Attach, Connected, OnConnect
<1>2. CASE Detach
  BY <1>2 DEF Detach, Disconnected
<1>3. ASSUME NEW g \in Signal, Appear(g) PROVE Single'
  BY <1>3 DEF Appear, Connected, OnConnect
<1>4. ASSUME NEW g \in Signal, Vanish(g) PROVE Single'
  BY <1>4 DEF Vanish, Disconnected
<1>5. CASE Click
  BY <1>5 DEF Click, OnDisconnect
<1>6. CASE Leave
  BY <1>6 DEF Leave, OnDisconnect
<1>7. CASE Reconnect
  BY <1>7 DEF Reconnect, OnConnect
<1>8. CASE Reload
  BY <1>8 DEF Reload, OnConnect
<1>9. CASE Signed
  BY <1>9 DEF Signed
<1>10. CASE SignFails
  BY <1>10 DEF SignFails
<1>11. ASSUME NEW s \in Socket, Opens(s) PROVE Single'
  BY <1>11 DEF Opens
<1>12. ASSUME NEW s \in Socket, Drops(s) PROVE Single'
  BY <1>12 DEF Drops
<1>13. ASSUME NEW s \in Socket, Closes(s) PROVE Single'
  BY <1>13 DEF Closes
<1>14. CASE VideoError
  BY <1>14 DEF VideoError
<1>15. CASE MediaStarts
  BY <1>15 DEF MediaStarts
<1>16. CASE MediaRefused
  BY <1>16 DEF MediaRefused
<1>17. CASE Answered
  BY <1>17 DEF Answered
<1>18. CASE OfferRefused
  BY <1>18 DEF OfferRefused
<1>19. ASSUME NEW p \in Peer, PeerConnects(p) PROVE Single'
  BY <1>19 DEF PeerConnects
<1>20. ASSUME NEW p \in Peer, PeerFails(p) PROVE Single'
  BY <1>20 DEF PeerFails, OnConnect
<1>21. ASSUME NEW p \in Peer, PeerVideo(p) PROVE Single'
  BY <1>21 DEF PeerVideo
<1>22. CASE AssignHass
  BY <1>22 DEF AssignHass
<1>23. CASE UNCHANGED vars
  BY <1>23 DEF vars
<1> QED
  BY <1>1, <1>2, <1>3, <1>4, <1>5, <1>6, <1>7, <1>8, <1>9, <1>10, <1>11,
     <1>12, <1>13, <1>14, <1>15, <1>16, <1>17, <1>18, <1>19, <1>20, <1>21, <1>22, <1>23 DEF Next

LEMMA CameraInit == Init => Connections /\ Quiet /\ Single
BY CameraAssumption DEF Init, Connections, Quiet, StatesFit, QuietWhenAway, Single, Live

\* A card that was taken out of the page and whose stop is over holds no
\* connection (video-rtc.js, disconnectedCallback), whatever was under way.
THEOREM CameraQuietWhenAway == Spec => []QuietWhenAway
<1>1. Quiet => QuietWhenAway
  BY DEF Quiet
<1> QED
  BY <1>1, CameraInit, QuietStep, PTL DEF Spec

\* No socket and no peer is left running that the card does not know, but for
\* a close that was taken for another's (video-rtc.js, onclose).
THEOREM CameraOneStream == Spec => []OneStream
<1>1. Single => OneStream
  BY DEF Single, OneStream
<1>2. Quiet => StatesFit
  BY DEF Quiet
<1> QED
  BY <1>1, <1>2, CameraInit, ConnectionsStep, QuietStep, SingleStep, PTL DEF Spec
=============================================================================
