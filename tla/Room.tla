--------------------------------- MODULE Room ---------------------------------
(***************************************************************************)
(* Displays: pairing by a link, the session it leaves, the socket over     *)
(* which the server announces changes, the snapshots a display loads, and  *)
(* the weather of the place in the settings.  Coroutines of the server run *)
(* from await to await; each action is such a stretch.                     *)
(***************************************************************************)
EXTENDS Integers, FiniteSets

CONSTANTS Browsers,     \* display pages
          Devices,      \* one for each link the manager makes
          Sockets,      \* WebSocket connections of the server, reused
          Places,       \* places a manager may set
          MaxRevision,  \* bound: no change is begun at this revision
          MaxRestarts,  \* bound: restarts of the server
          None

ASSUME BoundsAssumption == MaxRevision \in Nat /\ MaxRestarts \in Nat
ASSUME NoneAssumption == None \notin Browsers \cup Devices \cup Sockets \cup Places

VARIABLES
    revision,   \* kv.revision
    device,     \* devices: "none", "active" or "revoked"
    code,       \* pairs: "none", "open", "used" or "expired"
    sessions,   \* devices that have a session row which has not expired
    cookie,     \* the device whose session token a browser holds
    sock,       \* each connection: stage, browser, device, invalidation under way
    closing,    \* revoke(): the connections it has yet to close
    page,       \* each browser: revision shown, request under way, its answer
    link,       \* the connection a browser uses
    place,      \* settings: the place, None when it is not set
    weather,    \* kv.weather: the place it was fetched for
    fetching,   \* refresh_weather() under wx_lock: the place it asked for
    stale,       \* history: the report a change of place left behind half-way
    restarts

vars == <<revision, device, code, sessions, cookie, sock, closing, page, link,
          place, weather, fetching, stale, restarts>>
pairing == <<device, code, sessions, closing>>
sky     == <<place, weather, fetching, stale>>
screens == <<cookie, page, link>>

Free == [at |-> "free", by |-> None, dev |-> None, note |-> FALSE, late |-> FALSE]
Blank == [shown |-> 0, get |-> "idle", answer |-> None, again |-> FALSE, on |-> FALSE]

Init ==
    /\ revision = 0
    /\ device = [d \in Devices |-> "none"]
    /\ code = [d \in Devices |-> "none"]
    /\ sessions = {}
    /\ cookie = [b \in Browsers |-> None]
    /\ sock = [w \in Sockets |-> Free]
    /\ closing = [d \in Devices |-> {}]
    /\ page = [b \in Browsers |-> Blank]
    /\ link = [b \in Browsers |-> None]
    /\ place = None /\ weather = None /\ fetching = "no" /\ stale = None
    /\ restarts = 0

-----------------------------------------------------------------------------
\* read_session(): the row, and a device that is not revoked.
Session(d) == d \in sessions /\ device[d] = "active"

\* changed(): the revision moves, and every connection in `connections` is
\* sent an invalidation.
Noted == [w \in Sockets |-> IF sock[w].at = "open" THEN [sock[w] EXCEPT !.note = TRUE]
                                                   ELSE sock[w]]
Changed == revision' = revision + 1 /\ sock' = Noted
Quiet   == revision < MaxRevision

\* The process ends, and a new one starts.
Gone ==
    /\ restarts < MaxRestarts
    /\ restarts' = restarts + 1
    /\ sock' = [w \in Sockets |-> Free]
    /\ link' = [b \in Browsers |-> None]
    /\ closing' = [d \in Devices |-> {}]
    /\ fetching' = "no"

-----------------------------------------------------------------------------
(* Pairing.                                                                *)

Pair(d) ==
    /\ Quiet
    /\ device[d] = "none"
    /\ device' = [device EXCEPT ![d] = "active"]
    /\ code' = [code EXCEPT ![d] = "open"]
    /\ Changed
    /\ UNCHANGED <<sessions, closing, screens, sky, restarts>>

\* Ten minutes have passed.
CodeExpires(d) ==
    /\ code[d] = "open"
    /\ code' = [code EXCEPT ![d] = "expired"]
    /\ UNCHANGED <<revision, device, sessions, closing, sock, screens, sky, restarts>>

\* Mutant of Claimable: the state of the code is not looked at.
ClaimableUsed(d) == code[d] \in {"open", "used"} /\ device[d] = "active"

Claimable(d) == code[d] = "open" /\ device[d] = "active"
Opened == [Blank EXCEPT !.get = "asked", !.on = TRUE]

\* claim(): the code is used in one transaction, the session made in another;
\* the answer with the cookie may get lost.  The page that opened the link
\* starts anew: what it showed is gone, and it loads.
Claim(b, d) ==
    /\ Quiet
    /\ ~page[b].on
    /\ Claimable(d)
    /\ code' = [code EXCEPT ![d] = "used"]
    /\ sessions' = sessions \cup {d}
    /\ \/ cookie' = [cookie EXCEPT ![b] = d] /\ page' = [page EXCEPT ![b] = Opened]
       \/ UNCHANGED <<cookie, page>>
    /\ Changed
    /\ UNCHANGED <<device, closing, link, sky, restarts>>

\* The process ends between the two transactions: used, and no session.
ClaimCrash(d) ==
    /\ Claimable(d)
    /\ code' = [code EXCEPT ![d] = "used"]
    /\ Gone
    /\ UNCHANGED <<revision, device, sessions, cookie, page, place, weather, stale>>

SessionExpires(d) ==
    /\ d \in sessions
    /\ sessions' = sessions \ {d}
    /\ UNCHANGED <<revision, device, code, closing, sock, screens, sky, restarts>>

\* revoke(): device, sessions and codes in one transaction, then one
\* connection after the other, with awaits between them.
Connected(d) == {w \in Sockets : sock[w].at = "open" /\ sock[w].dev = d}

\* Mutant of Revoke: the connections are left to the next read of the session.
RevokeRowsOnly(d) ==
    /\ Quiet
    /\ device[d] = "active"
    /\ device' = [device EXCEPT ![d] = "revoked"]
    /\ sessions' = sessions \ {d}
    /\ code' = [code EXCEPT ![d] = "none"]
    /\ Changed
    /\ UNCHANGED <<closing, screens, sky, restarts>>

Revoke(d) ==
    /\ Quiet
    /\ device[d] = "active"
    /\ device' = [device EXCEPT ![d] = "revoked"]
    /\ sessions' = sessions \ {d}
    /\ code' = [code EXCEPT ![d] = "none"]
    /\ closing' = [closing EXCEPT ![d] = Connected(d)]
    /\ IF Connected(d) = {} THEN Changed ELSE UNCHANGED <<revision, sock>>
    /\ UNCHANGED <<screens, sky, restarts>>

\* A page that is told to, or gets a 401, asks to be paired and hangs up.
Stopped(b) == [page EXCEPT ![b] = Blank]
Told(w) == sock[w].by # None /\ link[sock[w].by] = w

RevokeCloses(d) == \E w \in closing[d] :
    LET left == closing[d] \ {w}
        b == sock[w].by IN
    /\ closing' = [closing EXCEPT ![d] = left]
    /\ IF sock[w].at \in {"open", "deaf"} /\ sock[w].dev = d
       THEN /\ \/ /\ Told(w)
                  /\ page' = Stopped(b) /\ link' = [link EXCEPT ![b] = None]
               \/ UNCHANGED <<page, link>> /\ ~Told(w)
            /\ sock' = [IF left = {} THEN Noted ELSE sock EXCEPT ![w] = Free]
       ELSE /\ UNCHANGED <<page, link>>
            /\ sock' = IF left = {} THEN Noted ELSE sock
    /\ revision' = IF left = {} THEN revision + 1 ELSE revision
    /\ UNCHANGED <<device, code, sessions, cookie, sky, restarts>>

-----------------------------------------------------------------------------
(* Connections.                                                            *)

\* A page connects, at once or after a pause; the session is read before the
\* handshake.  A page that is refused here tries again until a snapshot is
\* refused as well: a close before the handshake carries no 4001.
Connect(b, w) ==
    /\ page[b].on /\ link[b] = None /\ sock[w].at = "free"
    /\ \A x \in Sockets : sock[x].at = "accepting" => sock[x].by # b
    /\ Session(cookie[b])
    /\ sock' = [sock EXCEPT ![w] =
                  [Free EXCEPT !.at = "accepting", !.by = b, !.dev = cookie[b]]]
    /\ UNCHANGED <<revision, pairing, screens, sky, restarts>>

\* refresh() of the page: one request at a time, one more afterwards.
Asked(b) == IF page[b].get = "idle" THEN [page EXCEPT ![b].get = "asked"]
                                    ELSE [page EXCEPT ![b].again = TRUE]

\* accept() has returned: the connection is registered and greeted, and the
\* greeting makes the page load.
Accepted(w) ==
    /\ sock[w].at = "accepting"
    /\ LET b == sock[w].by IN
         IF page[b].on
         THEN /\ sock' = [sock EXCEPT ![w] = [@ EXCEPT !.at = "open",
                                !.late = (device[sock[w].dev] = "revoked")]]
              /\ link' = [link EXCEPT ![b] = w]
              /\ page' = Asked(b)
         ELSE sock' = [sock EXCEPT ![w] = Free] /\ UNCHANGED <<link, page>>
    /\ UNCHANGED <<revision, pairing, cookie, sky, restarts>>

HandshakeFails(w) ==
    /\ sock[w].at = "accepting"
    /\ sock' = [sock EXCEPT ![w] = Free]
    /\ UNCHANGED <<revision, pairing, screens, sky, restarts>>

Delivered(w) ==
    /\ sock[w].note
    /\ sock' = [sock EXCEPT ![w].note = FALSE]
    /\ page' = IF Told(w) /\ page[sock[w].by].on THEN Asked(sock[w].by) ELSE page
    /\ UNCHANGED <<revision, pairing, cookie, link, sky, restarts>>

\* broadcast(): a send that fails takes the connection out of `connections`,
\* but its coroutine goes on answering pings.
SendFails(w) ==
    /\ sock[w].note
    /\ sock' = [sock EXCEPT ![w] = [@ EXCEPT !.note = FALSE, !.at = "deaf"]]
    /\ UNCHANGED <<revision, pairing, screens, sky, restarts>>

\* The network breaks: the page notices and will connect again, the server
\* notices after 65 seconds without a message.
LinkBreaks(b) ==
    /\ link[b] # None
    /\ link' = [link EXCEPT ![b] = None]
    /\ UNCHANGED <<revision, pairing, sock, cookie, page, sky, restarts>>

Ended(w) ==
    /\ sock[w].at \in {"open", "deaf"}
    /\ sock' = [sock EXCEPT ![w] = Free]
    /\ UNCHANGED <<revision, pairing, cookie, page, sky, restarts>>

ServerTimeout(w) ==
    /\ ~Told(w)
    /\ Ended(w)
    /\ UNCHANGED link

\* A message after the end of the session: 4001, and the page stops.
SessionOver(w) ==
    /\ sock[w].at \in {"open", "deaf"} /\ Told(w)
    /\ sock[w].dev \notin sessions /\ device[sock[w].dev] = "active"
    /\ sock' = [sock EXCEPT ![w] = Free]
    /\ link' = [link EXCEPT ![sock[w].by] = None]
    /\ page' = Stopped(sock[w].by)
    /\ UNCHANGED <<revision, pairing, cookie, sky, restarts>>

-----------------------------------------------------------------------------
(* Snapshots.                                                              *)

\* The poll every 30 seconds, and every other refresh() of the page.
Poll(b) ==
    /\ page[b].on
    /\ page' = Asked(b)
    /\ UNCHANGED <<revision, pairing, sock, cookie, link, sky, restarts>>

\* GET /api/state: the server looks at the session and reads the rows.
Answer(b) ==
    /\ page[b].get = "asked"
    /\ page' = [page EXCEPT ![b] = [@ EXCEPT !.get = "answered",
                  !.answer = IF Session(cookie[b]) THEN revision ELSE None]]
    /\ UNCHANGED <<revision, pairing, sock, cookie, link, sky, restarts>>

\* finally of refresh(): done, or once more.
Rest(p) == IF p.again THEN [p EXCEPT !.get = "asked", !.again = FALSE, !.answer = None]
                      ELSE [p EXCEPT !.get = "idle", !.answer = None]

\* Mutant of Received: a refusal is taken for a lost answer.
ReceivedRefused(b) ==
    /\ page[b].get = "answered"
    /\ LET p == page[b] IN
         page' = [page EXCEPT ![b] =
                    Rest(IF p.answer = None \/ p.answer < p.shown
                         THEN p ELSE [p EXCEPT !.shown = p.answer])]
    /\ UNCHANGED <<revision, pairing, sock, cookie, link, sky, restarts>>

Received(b) ==
    /\ page[b].get = "answered"
    /\ LET p == page[b] IN
         IF p.answer = None
         THEN page' = Stopped(b) /\ link' = [link EXCEPT ![b] = None]
         ELSE /\ page' = [page EXCEPT ![b] =
                   Rest(IF p.answer < p.shown THEN p ELSE [p EXCEPT !.shown = p.answer])]
              /\ UNCHANGED link
    /\ UNCHANGED <<revision, pairing, sock, cookie, sky, restarts>>

\* Mutant of GetFails: the request under way is never put away.
GetFailsBusy(b) ==
    /\ page[b].get = "asked"
    /\ page' = [page EXCEPT ![b].get = "stuck"]
    /\ UNCHANGED <<revision, pairing, sock, cookie, link, sky, restarts>>

\* The request or its answer gets lost.
GetFails(b) ==
    /\ page[b].get # "idle"
    /\ page' = [page EXCEPT ![b] = Rest(@)]
    /\ UNCHANGED <<revision, pairing, sock, cookie, link, sky, restarts>>

-----------------------------------------------------------------------------
(* Settings and weather.                                                   *)

\* PUT of the settings, and every other change of the manager (place' = place).
\* Two transactions without an await between them: first the settings, then,
\* if the place is another, the report is dropped.
SetPlace(p) ==
    /\ Quiet
    /\ place' = p
    /\ IF p = place THEN UNCHANGED <<weather, stale>> ELSE weather' = None /\ stale' = None
    /\ Changed
    /\ UNCHANGED <<pairing, screens, fetching, restarts>>

\* The second transaction does not happen: it raises (the request ends with a
\* 500, nothing is announced), or the process ends before it.
PlaceOnly(p) ==
    /\ Quiet
    /\ p # place
    /\ place' = p
    /\ stale' = weather
    /\ UNCHANGED <<revision, device, code, sessions, cookie, page, weather>>

SetPlaceFails(p) == PlaceOnly(p) /\ UNCHANGED <<sock, closing, link, fetching, restarts>>

\* refresh_weather(), by the loop or a manager, up to its await.
WeatherAsked ==
    /\ fetching = "no"
    /\ Quiet
    /\ IF place = None
       THEN weather' = None /\ stale' = None /\ Changed /\ UNCHANGED fetching
       ELSE fetching' = place /\ UNCHANGED <<weather, stale, revision, sock>>
    /\ UNCHANGED <<pairing, screens, place, restarts>>

\* Mutant of WeatherCame: the result is stored for whatever place is set now.
WeatherCameLate ==
    /\ fetching # "no"
    /\ weather' = fetching /\ stale' = None /\ Changed
    /\ fetching' = "no"
    /\ UNCHANGED <<pairing, screens, place, restarts>>

WeatherCame ==
    /\ fetching # "no"
    /\ IF place = fetching THEN weather' = fetching /\ stale' = None /\ Changed
                           ELSE UNCHANGED <<weather, stale, revision, sock>>
    /\ fetching' = "no"
    /\ UNCHANGED <<pairing, screens, place, restarts>>

WeatherFails ==
    /\ fetching # "no"
    /\ fetching' = "no"
    /\ Changed
    /\ UNCHANGED <<pairing, screens, place, weather, stale, restarts>>

-----------------------------------------------------------------------------
SetPlaceCrash(p) == PlaceOnly(p) /\ Gone

Restart ==
    /\ Gone
    /\ UNCHANGED <<revision, device, code, sessions, cookie, page, place, weather, stale>>

Next ==
    \/ \E d \in Devices :
         \/ Pair(d) \/ CodeExpires(d) \/ ClaimCrash(d) \/ SessionExpires(d)
         \/ Revoke(d) \/ RevokeCloses(d)
         \/ \E b \in Browsers : Claim(b, d)
    \/ \E b \in Browsers :
         \/ \E w \in Sockets : Connect(b, w)
         \/ LinkBreaks(b) \/ Poll(b) \/ Answer(b) \/ Received(b) \/ GetFails(b)
    \/ \E w \in Sockets :
         \/ Accepted(w) \/ HandshakeFails(w) \/ Delivered(w) \/ SendFails(w)
         \/ ServerTimeout(w) \/ SessionOver(w)
    \/ \E p \in Places \cup {None} : SetPlace(p) \/ SetPlaceFails(p) \/ SetPlaceCrash(p)
    \/ WeatherAsked \/ WeatherCame \/ WeatherFails
    \/ Restart

Spec == Init /\ [][Next]_vars

\* The page polls; the server answers what reaches it, and of the requests
\* that are repeated some get through; it notices dead connections.
FairSpec ==
    /\ Spec
    /\ \A b \in Browsers : WF_vars(Poll(b)) /\ SF_vars(Answer(b)) /\ SF_vars(Received(b))
    /\ \A d \in Devices : WF_vars(RevokeCloses(d))
    /\ \A w \in Sockets : WF_vars(ServerTimeout(w)) /\ WF_vars(Accepted(w))

-----------------------------------------------------------------------------
Connections == [at : {"free", "accepting", "open", "deaf"},
                by : Browsers \cup {None}, dev : Devices \cup {None},
                note : BOOLEAN, late : BOOLEAN]

TypeOK ==
    /\ revision \in Nat
    /\ device \in [Devices -> {"none", "active", "revoked"}]
    /\ code \in [Devices -> {"none", "open", "used", "expired"}]
    /\ sessions \subseteq Devices
    /\ cookie \in [Browsers -> Devices \cup {None}]
    /\ sock \in [Sockets -> Connections]
    /\ closing \in [Devices -> SUBSET Sockets]
    /\ link \in [Browsers -> Sockets \cup {None}]
    /\ {place, weather, stale} \subseteq Places \cup {None}

\* A link pairs one display: a code that was used, or whose device is gone,
\* opens nothing, so no two browsers hold a token of one device.
OneDisplayPerLink ==
    /\ TypeOK
    /\ \A a, b \in Browsers : a # b /\ cookie[a] # None => cookie[a] # cookie[b]
    /\ \A d \in sessions : code[d] = "used" /\ device[d] = "active"

\* A removed device is out: nothing of it can authenticate, and a connection
\* of it is announced changes only while the removal is still closing its
\* connections, or when its handshake overlapped the removal.
RevokedIsOut ==
    \A d \in Devices : device[d] = "revoked" =>
        /\ ~Session(d) /\ code[d] # "open"
        /\ \A w \in Connected(d) : w \in closing[d] \/ sock[w].late

\* ... and those end as well: the page loads after the greeting, is refused
\* and hangs up, or is gone and the server notices.
RevokedLeaves ==
    \A d \in Devices : device[d] = "revoked" ~> Connected(d) = {}

\* Whatever got lost (invalidations, sockets, answers, the server), a page that
\* is open shows at last a state no older than the last change, or stops.
PagesCatchUp ==
    \A b \in Browsers : []<>(page[b].on => page[b].shown = revision)

\* The weather on the screens is that of the place in the settings, whatever
\* was changed while it was fetched.  Only a change of place that got no further
\* than its first transaction leaves the old report: that one, and only until the
\* next report or a whole change of place.
WeatherOfPlace == weather \in {None, place, stale}
=============================================================================
