--------------------------- MODULE CameraStream ---------------------------
(***************************************************************************)
(* One camera card of a dashboard: WebRTCCamera (webrtc-camera.js) over    *)
(* VideoRTC (video-rtc.js).  The card asks Home Assistant to sign a path,  *)
(* opens a web socket on it, plays the media the server sends over it and  *)
(* at the same time negotiates a peer connection that takes over if it is  *)
(* the better stream.  Everything happens in callbacks: of the page (the   *)
(* card is put in and taken out, the tab is hidden, the card is scrolled   *)
(* away), of timers, of the signing request, of sockets and of peers, and  *)
(* none of them knows which connection the element was on when it was set. *)
(*                                                                         *)
(* Left out: the codecs and the bytes (a socket that plays is "playing",   *)
(* by MSE, HLS, MP4 or MJPEG alike), the microphone, pan, zoom and PTZ,    *)
(* the `background' option (no dashboard sets it) and a card without url.  *)
(***************************************************************************)
EXTENDS Naturals, FiniteSets

CONSTANTS
    Socket, Peer,        \* identities of web sockets and peer connections
    NoSocket, NoPeer,    \* null
    Signal,              \* what shows and hides the card: the page, the viewport
    MaxFaults,           \* bound: failures and clicks on the mode label
    MaxTimers            \* bound: reconnection timers pending at once

ASSUME CameraAssumption ==
    /\ NoSocket \notin Socket
    /\ NoPeer \notin Peer
    /\ MaxFaults \in Nat
    /\ MaxTimers \in Nat

VARIABLES
    attached,     \* isConnected: the element is in the document
    shown,        \* which of the page and the viewport show the card
    hass,         \* this.hass: "none", "there", or "late": there, but nothing
                  \* has made the card connect since it came
    ws, wsState,  \* this.ws, this.wsState
    socket,       \* what each web socket is at
    pc, pcState,  \* this.pc, this.pcState
    peer,         \* what each peer connection is at
    status,       \* the text of the mode label
    signs,        \* auth/sign_path requests in flight
    leaving,      \* disconnectTID is set
    reconnects,   \* reconnection timers pending
    clearable,    \* reconnectTID is set: one of them can be cleared
    reloads,      \* nextStream's timers pending
    mse,          \* mseCodecs is not empty
    mishaps,      \* history: "close", a socket's close taken for another's;
                  \* "gone", a peer given up for a socket that was gone
    faults        \* failures and clicks so far

page == <<attached, shown>>
net  == <<ws, wsState, socket, pc, pcState, peer>>
tids == <<leaving, reconnects, clearable, reloads>>
sign == <<hass, status, signs>>
vars == <<page, net, mse, tids, sign, mishaps, faults>>

Loading == {"Loading..", "Loading..."}

Init ==
    /\ attached = FALSE /\ shown \in SUBSET Signal /\ hass = "none"
    /\ ws = NoSocket /\ wsState = "closed" /\ socket = [s \in Socket |-> "closed"]
    /\ pc = NoPeer /\ pcState = "closed" /\ peer = [p \in Peer |-> "closed"]
    /\ status = "" /\ signs = 0
    /\ leaving = FALSE /\ reconnects = 0 /\ clearable = FALSE /\ reloads = 0
    /\ mse = FALSE /\ mishaps = {} /\ faults = 0

(***************************************************************************)
(* The pieces the callbacks are made of.                                   *)
(***************************************************************************)

\* setStatus('error'): shown only over one of the two loading texts.
ErrorOver(text) == IF text \in Loading THEN "error" ELSE text

\* WebRTCCamera.onconnect up to its request, on the values a callback leaves
\* in isConnected, this.ws and this.pc.
OnConnect(isConnected, w, p) ==
    IF /\ hass # "none"
       /\ isConnected /\ w = NoSocket /\ p = NoPeer
       /\ status # "Loading.."
    THEN status' = "Loading.." /\ signs' = signs + 1 /\ hass' = "there"
    ELSE UNCHANGED sign

\* Mutant: the socket is forgotten and not closed.
OnDisconnectKeepsSocket ==
    /\ wsState' = "closed" /\ ws' = NoSocket /\ UNCHANGED socket
    /\ pcState' = "closed" /\ pc' = NoPeer
    /\ peer' = [p \in Peer |-> IF p = pc THEN "closed" ELSE peer[p]]

OnDisconnect ==
    /\ wsState' = "closed" /\ ws' = NoSocket
    /\ socket' = [s \in Socket |->
                    IF s = ws /\ socket[s] # "closed" THEN "closing" ELSE socket[s]]
    /\ pcState' = "closed" /\ pc' = NoPeer
    /\ peer' = [p \in Peer |-> IF p = pc THEN "closed" ELSE peer[p]]

\* connectedCallback: the stop is called off and the card connects.
\* Mutant: the stop is not called off.
ConnectedKeepsTimer(isConnected) ==
    OnConnect(isConnected, ws, pc) /\ UNCHANGED leaving

Connected(isConnected) ==
    leaving' = FALSE /\ OnConnect(isConnected, ws, pc)

\* disconnectedCallback: unless it is under way or nothing runs, a stop is due
\* in DISCONNECT_TIMEOUT.
\* Mutant: one of the two that is closed is taken for both.
DisconnectedEither ==
    leaving' = (leaving \/ ~(wsState = "closed" \/ pcState = "closed"))

Disconnected ==
    leaving' = (leaving \/ ~(wsState = "closed" /\ pcState = "closed"))

Fault == faults < MaxFaults /\ faults' = faults + 1

(***************************************************************************)
(* The page.                                                               *)
(***************************************************************************)

Attach ==
    /\ ~attached /\ attached' = TRUE
    /\ Connected(TRUE)
    /\ UNCHANGED <<shown, net, mse, reconnects, clearable, reloads, mishaps, faults>>

Detach ==
    /\ attached /\ attached' = FALSE
    /\ Disconnected
    /\ UNCHANGED <<shown, net, mse, reconnects, clearable, reloads, sign, mishaps, faults>>

\* `hass' is assigned, before or after the card is put in ("if card in vertical
\* stack"); the setter makes nothing connect.
AssignHass ==
    /\ hass = "none"
    /\ hass' = IF attached THEN "late" ELSE "there"
    /\ UNCHANGED <<page, net, mse, tids, status, signs, mishaps, faults>>

\* visibilitychange or the intersection observer, which oninit registers at
\* the first attachment; neither looks at the other.
Appear(g) ==
    /\ g \notin shown /\ shown' = shown \cup {g}
    /\ IF attached THEN Connected(TRUE) ELSE UNCHANGED <<leaving, sign>>
    /\ UNCHANGED <<attached, net, mse, reconnects, clearable, reloads, mishaps, faults>>

Vanish(g) ==
    /\ g \in shown /\ shown' = shown \ {g}
    /\ Disconnected
    /\ UNCHANGED <<attached, net, mse, reconnects, clearable, reloads, sign, mishaps, faults>>

\* A click on the mode label: nextStream(true).
Click ==
    /\ attached /\ Fault
    /\ OnDisconnect
    /\ reloads' = reloads + 1
    /\ UNCHANGED <<page, mse, leaving, reconnects, clearable, sign, mishaps>>

(***************************************************************************)
(* Timers.                                                                 *)
(***************************************************************************)

\* The stop that disconnectedCallback set.
Leave ==
    /\ leaving /\ leaving' = FALSE
    /\ reconnects' = IF clearable THEN reconnects - 1 ELSE reconnects
    /\ clearable' = FALSE
    /\ OnDisconnect
    /\ UNCHANGED <<page, mse, reloads, sign, mishaps, faults>>

\* A reconnection timer, reconnectTID's or one it was set over, puts
\* reconnectTID to 0.
Reconnect ==
    /\ reconnects > 0 /\ reconnects' = reconnects - 1
    /\ clearable' = FALSE
    /\ OnConnect(attached, ws, pc)
    /\ UNCHANGED <<page, net, mse, leaving, reloads, mishaps, faults>>

\* "wait ws.close event": 100 ms after the click.
Reload ==
    /\ reloads > 0 /\ reloads' = reloads - 1
    /\ OnConnect(attached, ws, pc)
    /\ UNCHANGED <<page, net, mse, leaving, reconnects, clearable, mishaps, faults>>

(***************************************************************************)
(* The signing request.                                                    *)
(***************************************************************************)

\* The path is signed; VideoRTC.onconnect looks at the element again and
\* opens a socket.
Signed ==
    /\ signs > 0 /\ signs' = signs - 1
    /\ IF attached /\ ws = NoSocket /\ pc = NoPeer
       THEN \E s \in {t \in Socket : socket[t] = "closed"} :
              /\ ws' = s /\ wsState' = "connecting"
              /\ socket' = [socket EXCEPT ![s] = "connecting"]
              /\ status' = "Loading..."
       ELSE status' = ErrorOver(status) /\ UNCHANGED <<ws, wsState, socket>>
    /\ UNCHANGED <<page, hass, pc, pcState, peer, mse, tids, mishaps, faults>>

SignFails ==
    /\ signs > 0 /\ signs' = signs - 1
    /\ Fault
    /\ status' = ErrorOver(status)
    /\ UNCHANGED <<page, hass, net, mse, tids, mishaps>>

(***************************************************************************)
(* Web sockets.                                                            *)
(***************************************************************************)

\* onopen, which is not told which socket opened.  With this.ws null it
\* throws when it adds its listener; otherwise onwebrtc starts a peer.
Opens(s) ==
    /\ socket[s] = "connecting"
    /\ socket' = [socket EXCEPT ![s] = "open"]
    /\ wsState' = "open"
    /\ IF ws = NoSocket
       THEN UNCHANGED <<pc, pcState, peer, mse>>
       ELSE /\ mse' = FALSE
            /\ \E p \in {q \in Peer : peer[q] = "closed" /\ q # pc} :
                 pc' = p /\ pcState' = "connecting" /\ peer' = [peer EXCEPT ![p] = "new"]
    /\ UNCHANGED <<page, ws, tids, sign, mishaps, faults>>

\* The server or the network ends a connection, or it is never made.
Drops(s) ==
    /\ socket[s] \in {"connecting", "open", "mute", "playing"}
    /\ Fault
    /\ socket' = [socket EXCEPT ![s] = "closing"]
    /\ UNCHANGED <<page, ws, wsState, pc, pcState, peer, mse, tids, sign, mishaps>>

\* The video element reports an error: "run reconnect for broken MSE stream".
VideoError ==
    /\ ws # NoSocket /\ socket[ws] = "playing"
    /\ Fault
    /\ socket' = [socket EXCEPT ![ws] = "closing"]
    /\ UNCHANGED <<page, ws, wsState, pc, pcState, peer, mse, tids, sign, mishaps>>

\* onclose, which is not told which socket closed.
Closes(s) ==
    /\ socket[s] = "closing"
    /\ socket' = [socket EXCEPT ![s] = "closed"]
    /\ IF wsState = "closed"
       THEN UNCHANGED <<ws, wsState, reconnects, clearable, mishaps>>
       ELSE /\ reconnects < MaxTimers
            /\ wsState' = "connecting" /\ ws' = NoSocket
            /\ reconnects' = reconnects + 1 /\ clearable' = TRUE
            /\ mishaps' = IF ws \in {NoSocket, s} THEN mishaps ELSE mishaps \cup {"close"}
    /\ UNCHANGED <<page, pc, pcState, peer, mse, leaving, reloads, sign, faults>>

\* The server answers with its media and the label says how it plays.
MediaStarts ==
    /\ ws # NoSocket /\ socket[ws] = "open"
    /\ socket' = [socket EXCEPT ![ws] = "playing"]
    /\ status' = "MSE" /\ mse' = TRUE
    /\ UNCHANGED <<page, ws, wsState, pc, pcState, peer, tids, hass, signs, mishaps, faults>>

\* The server has no media for this browser.
MediaRefused ==
    /\ ws # NoSocket /\ socket[ws] = "open"
    /\ Fault
    /\ socket' = [socket EXCEPT ![ws] = "mute"]
    /\ status' = ErrorOver(status)
    /\ UNCHANGED <<page, ws, wsState, pc, pcState, peer, mse, tids, hass, signs, mishaps>>

(***************************************************************************)
(* Peer connections.                                                       *)
(***************************************************************************)

Heard == ws # NoSocket /\ socket[ws] \in {"open", "mute", "playing"}

\* 'webrtc/answer': the two ends look for a way to each other.
Answered ==
    /\ Heard /\ pc # NoPeer /\ peer[pc] = "new"
    /\ peer' = [peer EXCEPT ![pc] = "answered"]
    /\ UNCHANGED <<page, ws, wsState, socket, pc, pcState, mse, tids, sign, mishaps, faults>>

\* An error that names 'webrtc/offer': the peer is closed and this.pc keeps it.
OfferRefused ==
    /\ Heard /\ pc # NoPeer /\ peer[pc] = "new"
    /\ Fault
    /\ peer' = [peer EXCEPT ![pc] = "closed"]
    /\ status' = ErrorOver(status)
    /\ UNCHANGED <<page, ws, wsState, socket, pc, pcState, mse, tids, hass, signs, mishaps>>

PeerConnects(p) ==
    /\ peer[p] = "answered"
    /\ peer' = [peer EXCEPT ![p] = "connected"]
    /\ UNCHANGED <<page, ws, wsState, socket, pc, pcState, mse, tids, sign, mishaps, faults>>

\* connectionState 'failed' or 'disconnected'.
PeerFails(p) ==
    /\ peer[p] \in {"answered", "connected"}
    /\ Fault
    /\ peer' = [peer EXCEPT ![p] = "closed"]
    /\ pcState' = "closed" /\ pc' = NoPeer
    /\ OnConnect(attached, ws, NoPeer)
    /\ UNCHANGED <<page, ws, wsState, socket, mse, tids, mishaps>>

\* onpcvideo, once the peer's first frame is there: the better of the two
\* streams stays, by what mseCodecs says, which outlives its socket.  A peer
\* closed before has no frames.
PeerVideo(p) ==
    /\ peer[p] = "connected" /\ pc # NoPeer /\ pcState = "connecting"
    /\ \/ /\ pcState' = "open" /\ wsState' = "closed" /\ ws' = NoSocket
          /\ socket' = [s \in Socket |->
                         IF s = ws /\ socket[s] # "closed" THEN "closing" ELSE socket[s]]
          /\ status' = "RTC"
          /\ UNCHANGED <<pc, peer, mishaps>>
       \/ /\ mse
          /\ pcState' = "closed" /\ pc' = NoPeer
          /\ peer' = [peer EXCEPT ![pc] = "closed"]
          /\ mishaps' = IF ws = NoSocket THEN mishaps \cup {"gone"} ELSE mishaps
          /\ UNCHANGED <<ws, wsState, socket, status>>
    /\ UNCHANGED <<page, mse, tids, hass, signs, faults>>

Next ==
    \/ Attach \/ Detach \/ AssignHass
    \/ \E g \in Signal : Appear(g) \/ Vanish(g)
    \/ Click \/ Leave \/ Reconnect \/ Reload
    \/ Signed \/ SignFails
    \/ \E s \in Socket : Opens(s) \/ Drops(s) \/ Closes(s)
    \/ VideoError \/ MediaStarts \/ MediaRefused
    \/ Answered \/ OfferRefused
    \/ \E p \in Peer : PeerConnects(p) \/ PeerFails(p) \/ PeerVideo(p)

\* Timers run out, requests are answered, a socket's handshakes end, a server
\* that has media sends it, and an answered peer connects or is given up.
Fairness ==
    /\ WF_vars(Leave) /\ WF_vars(Reconnect) /\ WF_vars(Reload)
    /\ WF_vars(Signed \/ SignFails)
    /\ \A s \in Socket : WF_vars(Opens(s)) /\ WF_vars(Closes(s))
    /\ WF_vars(MediaStarts)
    /\ \A p \in Peer : WF_vars(PeerConnects(p)) /\ WF_vars(PeerVideo(p))

Spec == Init /\ [][Next]_vars /\ Fairness

(***************************************************************************)
(* What the card promises.                                                 *)
(***************************************************************************)

Live(s) == socket[s] \in {"connecting", "open", "mute", "playing"}

\* However signing, closing, failing and clicking interleave, no connection
\* is left running that the card no longer knows: a live socket is this.ws
\* and a live peer is this.pc, unless the close of an older socket arrived
\* when a new one was there.
OneStream ==
    "close" \in mishaps \/
      /\ \A s \in Socket : Live(s) => s = ws
      /\ \A p \in Peer : peer[p] # "closed" => p = pc

\* A card taken out of the page stops: it holds no connection once no stop is
\* due any more, whatever was under way when it was taken out.
QuietWhenAway ==
    ~attached /\ ~leaving => ws = NoSocket /\ pc = NoPeer

Watched == attached /\ shown = Signal

Playing == pcState = "open" \/ (ws # NoSocket /\ socket[ws] = "playing")

\* this.pc was never answered or was refused, and its socket is gone: every
\* reconnection is turned away because of it.
Orphaned == pc # NoPeer /\ ws = NoSocket /\ peer[pc] \in {"new", "closed"}

\* A card that stays on the screen comes to play, through drops, failing
\* peers, errors and clicks.  What it does not recover from by itself: `hass'
\* that came only after onconnect had been turned away for want of it, an error
\* it shows, a peer that outlives its socket, a close taken for another.
Streams ==
    Watched ~> \/ Playing \/ ~Watched
               \/ hass # "there" \/ status = "error" \/ Orphaned \/ mishaps # {}

=============================================================================
