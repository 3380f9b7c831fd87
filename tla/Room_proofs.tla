----------------------------- MODULE Room_proofs -----------------------------
(***************************************************************************)
(* Proofs about the displays of a room and the alarms they show.           *)
(*                                                                         *)
(* For any browsers, devices, sockets and places: a link pairs one         *)
(* display, a removed one is out, and the weather is that of the place,    *)
(* but for one that an interrupted change of place has left.               *)
(* The first two need to know how a link ages (Spent, Offered): a token in *)
(* a browser stems from a link that will not open again, and an open link  *)
(* from a device in use.                                                   *)
(*                                                                         *)
(* For any alarms, periods, limits and skipped moments: alarms ring as     *)
(* their schedule says, once and once per snooze, an answer reaches the    *)
(* ring it was given for, and what was answered stands.  The invariant     *)
(* needs what an edit and an answer under way rely on (Validated, Seen),   *)
(* and that what has happened is not in the future (Happened).             *)
(***************************************************************************)
EXTENDS Room, Alarms, FiniteSetTheorems, WellFoundedInduction, TLAPS

\* The device of a token a browser holds was paired through a link that is used
\* up or withdrawn.
Spent ==
    \A b \in Browsers : cookie[b] # None =>
        /\ device[cookie[b]] # "none"
        /\ code[cookie[b]] \in {"used", "none"}

\* A link opens only a device in use.
Offered == \A d \in Devices : code[d] = "open" => device[d] = "active"

IInv == OneDisplayPerLink /\ Spent /\ Offered /\ RevokedIsOut

-----------------------------------------------------------------------------
(* Displays: connections.                                                  *)

\* An announcement changes neither the stage nor the device of a connection.
LEMMA NotedKeeps ==
    ASSUME TypeOK
    PROVE  /\ Noted \in [Sockets -> Connections]
           /\ \A w \in Sockets : /\ Noted[w].at = sock[w].at
                                 /\ Noted[w].dev = sock[w].dev
                                 /\ Noted[w].late = sock[w].late
  BY DEF TypeOK, Noted, Connections

\* A free connection is a connection.
LEMMA FreeType ==
    Free \in Connections /\ Free.at = "free"
  BY DEF Free, Connections

-----------------------------------------------------------------------------
(* Each action keeps the invariant.                                        *)

LEMMA InitIInv == Init => IInv
<1> SUFFICES ASSUME Init PROVE IInv
  OBVIOUS
<1>1. TypeOK
  BY FreeType DEF Init, TypeOK
<1>2. RevokedIsOut
  BY DEF Init, RevokedIsOut, Session, Connected, Free
<1> QED
  BY <1>1, <1>2 DEF Init, IInv, OneDisplayPerLink, Spent, Offered

\* What leaves the rows of pairing and the cookies alone, and neither opens nor
\* moves a connection of a removed device, keeps the invariant.
LEMMA Frame ==
    ASSUME IInv, TypeOK', UNCHANGED <<device, code, sessions, cookie>>,
           \A d \in Devices : device[d] = "revoked" =>
              \A w \in Sockets : sock'[w].at = "open" /\ sock'[w].dev = d
                                 => w \in closing'[d] \/ sock'[w].late
    PROVE  IInv'
<1>1. RevokedIsOut'
  BY DEF IInv, RevokedIsOut, Session, Connected
<1> QED
  BY <1>1 DEF IInv, OneDisplayPerLink, Spent, Offered

\* Pairing, claims and the end of codes and sessions.
LEMMA PairingKeeps ==
    ASSUME IInv, NEW d \in Devices,
           \/ Pair(d) \/ CodeExpires(d) \/ SessionExpires(d)
           \/ \E b \in Browsers : Claim(b, d)
    PROVE  IInv'
<1> USE NotedKeeps, NoneAssumption DEF IInv, OneDisplayPerLink, TypeOK, Spent, Offered,
        RevokedIsOut, Session, Connected, Changed, screens, sky, Quiet, pairing
<1>1. CASE Pair(d)
  BY <1>1 DEF Pair
<1>2. CASE CodeExpires(d)
  BY <1>2 DEF CodeExpires
<1>3. ASSUME NEW b \in Browsers, Claim(b, d) PROVE IInv'
  <2>1. cookie'[b] = d \/ UNCHANGED cookie
    BY <1>3 DEF Claim
  <2>2. \A a \in Browsers \ {b} : cookie'[a] = cookie[a]
    BY <1>3 DEF Claim
  <2>3. cookie' \in [Browsers -> Devices \cup {None}]
    BY <1>3 DEF Claim
  <2>4. /\ code[d] = "open" /\ device[d] = "active"
        /\ code' = [code EXCEPT ![d] = "used"] /\ sessions' = sessions \cup {d}
        /\ revision' = revision + 1 /\ sock' = Noted
        /\ UNCHANGED <<device, closing, link, place, weather, stale>>
    BY <1>3 DEF Claim, Claimable
  <2>5. TypeOK'
    BY <2>3, <2>4
  <2>6. RevokedIsOut'
    BY <2>4
  <2>7. \A a \in Browsers : cookie[a] # d
    BY <2>4
  <2>8. \A a, c \in Browsers : a # c /\ cookie'[a] # None => cookie'[a] # cookie'[c]
    BY <2>1, <2>2, <2>7
  <2>9. Spent'
    BY <2>1, <2>2, <2>4, <2>7
  <2> QED
    BY <2>4, <2>5, <2>6, <2>8, <2>9
<1>4. CASE SessionExpires(d)
  BY <1>4 DEF SessionExpires
<1> QED
  BY <1>1, <1>2, <1>3, <1>4

\* A restart ends all connections; a code claimed as it comes is used up.
LEMMA RestartKeeps ==
    ASSUME IInv,
           \/ Restart \/ \E d \in Devices : ClaimCrash(d)
           \/ \E p \in Places \cup {None} : SetPlaceCrash(p)
    PROVE  IInv'
<1> USE FreeType, NoneAssumption DEF IInv, OneDisplayPerLink, TypeOK, Spent, Offered,
        RevokedIsOut, Session, Connected
<1>0. \A w \in Sockets : [x \in Sockets |-> Free][w].at = "free"
  BY DEF Free
<1>1. CASE Restart
  BY <1>0, <1>1 DEF Restart, Gone
<1>2. ASSUME NEW d \in Devices, ClaimCrash(d) PROVE IInv'
  BY <1>0, <1>2 DEF ClaimCrash, Claimable, Gone
<1>3. ASSUME NEW p \in Places \cup {None}, SetPlaceCrash(p) PROVE IInv'
  BY <1>0, <1>3 DEF SetPlaceCrash, PlaceOnly, Gone
<1> QED
  BY <1>1, <1>2, <1>3

\* The removal of a device takes its rows and names the connections to close.
LEMMA RevokeKeeps ==
    ASSUME IInv, NEW d \in Devices, Revoke(d)
    PROVE  IInv'
<1>1. sock' = Noted \/ sock' = sock
  BY DEF Revoke, Changed
<1>2. Connected(d) \subseteq Sockets
  BY DEF Connected
<1>3. TypeOK'
  BY <1>1, <1>2, NotedKeeps
     DEF IInv, OneDisplayPerLink, TypeOK, Revoke, Changed, screens, sky
<1>4. \A e \in Devices : Connected(e)' = Connected(e)
  BY <1>1, NotedKeeps DEF IInv, OneDisplayPerLink, Connected
<1>5. \A w \in Sockets : sock'[w].late = sock[w].late
  BY <1>1, NotedKeeps DEF IInv, OneDisplayPerLink
<1>6. RevokedIsOut'
  <2> SUFFICES ASSUME NEW e \in Devices, device'[e] = "revoked"
               PROVE  /\ ~Session(e)' /\ code'[e] # "open"
                      /\ \A w \in Connected(e) : w \in closing'[e] \/ sock[w].late
    BY <1>4, <1>5 DEF RevokedIsOut, Connected
  <2>1. CASE e = d
    BY <2>1 DEF Revoke, IInv, OneDisplayPerLink, TypeOK, Session
  <2>2. CASE e # d
    BY <2>2 DEF Revoke, IInv, OneDisplayPerLink, TypeOK, RevokedIsOut, Session
  <2> QED
    BY <2>1, <2>2
<1> QED
  BY <1>3, <1>6 DEF IInv, OneDisplayPerLink, TypeOK, Spent, Offered, Revoke, screens, sky

\* It closes them one by one, and announces the change with the last.
LEMMA RevokeClosesKeeps ==
    ASSUME IInv, NEW d \in Devices, RevokeCloses(d)
    PROVE  IInv'
<1> PICK w \in closing[d] :
        /\ closing' = [closing EXCEPT ![d] = closing[d] \ {w}]
        /\ IF sock[w].at \in {"open", "deaf"} /\ sock[w].dev = d
           THEN /\ \/ link' = [link EXCEPT ![sock[w].by] = None]
                   \/ UNCHANGED link
                /\ sock' = [IF closing[d] \ {w} = {} THEN Noted ELSE sock EXCEPT ![w] = Free]
           ELSE /\ UNCHANGED link
                /\ sock' = IF closing[d] \ {w} = {} THEN Noted ELSE sock
        /\ revision' \in {revision, revision + 1}
        /\ UNCHANGED <<device, code, sessions, cookie, sky, restarts>>
  BY Zenon DEF RevokeCloses
<1>0. w \in Sockets
  BY DEF IInv, OneDisplayPerLink, TypeOK
<1> DEFINE before == IF closing[d] \ {w} = {} THEN Noted ELSE sock
<1>1. /\ before \in [Sockets -> Connections]
      /\ \A x \in Sockets : /\ before[x].at = sock[x].at
                            /\ before[x].dev = sock[x].dev
                            /\ before[x].late = sock[x].late
  BY NotedKeeps DEF IInv, OneDisplayPerLink, TypeOK
<1>2. /\ sock' = before \/ sock' = [before EXCEPT ![w] = Free]
      /\ sock'[w].at = "open" => sock[w].dev # d
  <2>1. CASE sock[w].at \in {"open", "deaf"} /\ sock[w].dev = d
    BY <1>0, <1>1, <2>1 DEF Free
  <2>2. CASE ~(sock[w].at \in {"open", "deaf"} /\ sock[w].dev = d)
    BY <1>0, <1>1, <2>2
  <2> QED
    BY <2>1, <2>2
<1> HIDE DEF before
<1>3. TypeOK'
  <2>1. sock' \in [Sockets -> Connections]
    BY <1>1, <1>2, FreeType
  <2>2. link' \in [Browsers -> Sockets \cup {None}]
    BY DEF IInv, OneDisplayPerLink, TypeOK
  <2>3. closing' \in [Devices -> SUBSET Sockets] /\ revision' \in Nat
    BY DEF IInv, OneDisplayPerLink, TypeOK
  <2> QED
    BY <2>1, <2>2, <2>3 DEF IInv, OneDisplayPerLink, TypeOK, sky
<1>4. \A x \in Sockets : sock'[x].at = "open" =>
         /\ sock[x].at = "open" /\ sock'[x].dev = sock[x].dev
         /\ sock'[x].late = sock[x].late
  BY <1>0, <1>1, <1>2 DEF Free
<1>5. ASSUME NEW e \in Devices, device[e] = "revoked",
             NEW x \in Sockets, sock'[x].at = "open", sock'[x].dev = e
      PROVE  x \in closing'[e] \/ sock'[x].late
  <2>1. x \in closing[e] \/ sock[x].late
    BY <1>4, <1>5 DEF IInv, RevokedIsOut, Connected
  <2>2. x = w => e # d
    BY <1>2, <1>4, <1>5
  <2> QED
    BY <1>4, <1>5, <2>1, <2>2 DEF IInv, OneDisplayPerLink, TypeOK
<1> QED
  BY <1>3, <1>5, Frame

\* One connection changes, and opens only for a device that is in use or as one
\* whose handshake was late.
LEMMA OneConnection ==
    ASSUME IInv, NEW w \in Sockets, NEW c \in Connections,
           sock' = [sock EXCEPT ![w] = c],
           UNCHANGED <<revision, pairing, cookie, sky>>,
           link' \in [Browsers -> Sockets \cup {None}],
           c.at = "open" => \/ c.late \/ device[c.dev] # "revoked"
                            \/ /\ sock[w].at = "open" /\ c.dev = sock[w].dev
                               /\ c.late = sock[w].late
    PROVE  IInv'
<1>1. TypeOK'
  BY DEF IInv, OneDisplayPerLink, TypeOK, pairing, sky
<1>2. \A x \in Sockets : sock'[x] = IF x = w THEN c ELSE sock[x]
  BY DEF IInv, OneDisplayPerLink, TypeOK
<1>3. ASSUME NEW d \in Devices, device[d] = "revoked",
             NEW x \in Sockets, sock'[x].at = "open", sock'[x].dev = d
      PROVE  x \in closing'[d] \/ sock'[x].late
  BY <1>2, <1>3 DEF IInv, RevokedIsOut, Connected, pairing
<1> QED
  BY <1>1, <1>3, Frame DEF pairing

\* A connection that is made, greeted, told, lost or ended.
LEMMA ConnectionKeeps ==
    ASSUME IInv, NEW w \in Sockets,
           \/ \E b \in Browsers : Connect(b, w)
           \/ Accepted(w) \/ HandshakeFails(w) \/ Delivered(w)
           \/ SendFails(w) \/ ServerTimeout(w) \/ SessionOver(w)
    PROVE  IInv'
<1>0. /\ sock \in [Sockets -> Connections] /\ cookie \in [Browsers -> Devices \cup {None}]
      /\ link \in [Browsers -> Sockets \cup {None}] /\ sessions \subseteq Devices
  BY DEF IInv, OneDisplayPerLink, TypeOK
<1>1. ASSUME NEW b \in Browsers, Connect(b, w) PROVE IInv'
  <2> DEFINE c == [Free EXCEPT !.at = "accepting", !.by = b, !.dev = cookie[b]]
  <2>1. c \in Connections /\ c.at = "accepting"
    BY <1>0 DEF Free, Connections
  <2>2. /\ sock' = [sock EXCEPT ![w] = c] /\ link' = link
        /\ UNCHANGED <<revision, pairing, cookie, sky>>
    BY <1>1 DEF Connect, screens
  <2> QED
    BY <1>0, <2>1, <2>2, OneConnection
<1>2. CASE Accepted(w)
  <2> DEFINE c == [sock[w] EXCEPT !.at = "open", !.late = (device[sock[w].dev] = "revoked")]
  <2>1. /\ c \in Connections
        /\ c.dev = sock[w].dev /\ c.late = (device[sock[w].dev] = "revoked")
    BY <1>0 DEF Connections
  <2>2. /\ sock' = [sock EXCEPT ![w] = c] \/ sock' = [sock EXCEPT ![w] = Free]
        /\ link' \in [Browsers -> Sockets \cup {None}]
        /\ UNCHANGED <<revision, pairing, cookie, sky>>
    BY <1>0, <1>2 DEF Accepted
  <2>3. CASE sock' = [sock EXCEPT ![w] = Free]
    BY <2>2, <2>3, FreeType, OneConnection
  <2>4. CASE sock' = [sock EXCEPT ![w] = c]
    <3> HIDE DEF c
    <3> QED
      BY <2>1, <2>2, <2>4, OneConnection
  <2> QED
    BY <2>2, <2>3, <2>4
<1>3. CASE HandshakeFails(w) \/ ServerTimeout(w) \/ SessionOver(w)
  <2>1. /\ sock' = [sock EXCEPT ![w] = Free]
        /\ link' \in [Browsers -> Sockets \cup {None}]
        /\ UNCHANGED <<revision, pairing, cookie, sky>>
    BY <1>0, <1>3 DEF HandshakeFails, ServerTimeout, SessionOver, Ended, screens
  <2> QED
    BY <2>1, FreeType, OneConnection
<1>4. CASE Delivered(w)
  <2> DEFINE c == [sock[w] EXCEPT !.note = FALSE]
  <2>1. /\ c \in Connections
        /\ c.at = sock[w].at /\ c.dev = sock[w].dev /\ c.late = sock[w].late
    BY <1>0 DEF Connections
  <2>2. /\ sock' = [sock EXCEPT ![w] = c] /\ link' = link
        /\ UNCHANGED <<revision, pairing, cookie, sky>>
    BY <1>0, <1>4 DEF Delivered, Connections
  <2> HIDE DEF c
  <2> QED
    BY <1>0, <2>1, <2>2, OneConnection
<1>5. CASE SendFails(w)
  <2> DEFINE c == [sock[w] EXCEPT !.note = FALSE, !.at = "deaf"]
  <2>1. c \in Connections /\ c.at = "deaf"
    BY <1>0 DEF Connections
  <2>2. /\ sock' = [sock EXCEPT ![w] = c] /\ link' = link
        /\ UNCHANGED <<revision, pairing, cookie, sky>>
    BY <1>5 DEF SendFails, screens
  <2> HIDE DEF c
  <2> QED
    BY <1>0, <2>1, <2>2, OneConnection
<1> QED
  BY <1>1, <1>2, <1>3, <1>4, <1>5

\* Loads of a page, and the end of its connection.
LEMMA PageKeeps ==
    ASSUME IInv, NEW b \in Browsers,
           LinkBreaks(b) \/ Poll(b) \/ Answer(b) \/ Received(b) \/ GetFails(b)
    PROVE  IInv'
<1> USE DEF IInv, OneDisplayPerLink, TypeOK, RevokedIsOut, Connected, pairing, screens, sky
<1>1. link' \in [Browsers -> Sockets \cup {None}]
  BY DEF LinkBreaks, Poll, Answer, Received, GetFails
<1>2. UNCHANGED <<revision, pairing, sock, cookie, sky>>
  BY DEF LinkBreaks, Poll, Answer, Received, GetFails
<1> QED
  BY <1>1, <1>2, Frame

\* Settings and weather.
LEMMA SkyKeeps ==
    ASSUME IInv,
           (\E p \in Places \cup {None} : SetPlace(p) \/ SetPlaceFails(p))
             \/ WeatherAsked \/ WeatherCame \/ WeatherFails
    PROVE  IInv'
<1> USE DEF IInv, OneDisplayPerLink, TypeOK, RevokedIsOut, Connected, pairing, screens
<1>1. UNCHANGED <<pairing, cookie, link>>
  BY DEF SetPlace, SetPlaceFails, PlaceOnly, WeatherAsked, WeatherCame, WeatherFails
<1>2. \/ sock' = sock /\ revision' = revision
      \/ sock' = Noted /\ revision' = revision + 1
  BY DEF SetPlace, SetPlaceFails, PlaceOnly, WeatherAsked, WeatherCame, WeatherFails, Changed
<1>3. {place', weather', stale'} \subseteq Places \cup {None}
  BY DEF SetPlace, SetPlaceFails, PlaceOnly, WeatherAsked, WeatherCame, WeatherFails
<1>4. TypeOK'
  BY <1>1, <1>2, <1>3, NotedKeeps
<1>5. \A x \in Sockets : /\ sock'[x].at = sock[x].at /\ sock'[x].dev = sock[x].dev
                         /\ sock'[x].late = sock[x].late
  BY <1>2, NotedKeeps
<1> QED
  BY <1>1, <1>4, <1>5, Frame

\* Every step keeps the invariant.
LEMMA NextIInv == IInv /\ [Next]_vars => IInv'
<1> SUFFICES ASSUME IInv, [Next]_vars PROVE IInv'
  OBVIOUS
<1>1. CASE Next
  BY <1>1, PairingKeeps, RestartKeeps, RevokeKeeps, RevokeClosesKeeps,
     ConnectionKeeps, PageKeeps, SkyKeeps DEF Next
<1>2. CASE UNCHANGED vars
  <2>1. TypeOK'
    BY <1>2 DEF IInv, OneDisplayPerLink, TypeOK, vars
  <2> QED
    BY <1>2, <2>1, Frame DEF IInv, RevokedIsOut, Connected, vars
<1> QED
  BY <1>1, <1>2

-----------------------------------------------------------------------------
(* The results.                                                            *)

\* Every reachable state satisfies the inductive invariant.
THEOREM Invariant == Spec => []IInv
  BY InitIInv, NextIInv, PTL DEF Spec

\* Of any number of pages that open a link, one is paired (claim()), and a
\* session always belongs to a used link and a device in use.
THEOREM Paired == Spec => []OneDisplayPerLink
<1>1. IInv => OneDisplayPerLink
  BY DEF IInv
<1> QED
  BY <1>1, Invariant, PTL

\* A removed device has neither session nor open link, and no connection but
\* those its removal is still closing or whose handshake overlapped it.
THEOREM Removed == Spec => []RevokedIsOut
<1>1. IInv => RevokedIsOut
  BY DEF IInv
<1> QED
  BY <1>1, Invariant, PTL

\* Whatever place is set while a report is fetched (refresh_weather()), the stored
\* report is of the place in the settings, or the one that a change of place
\* interrupted between its two transactions has left.
THEOREM Weather == Spec => []WeatherOfPlace
<1>1. Init => WeatherOfPlace
  BY DEF Init, WeatherOfPlace
<1>2. WeatherOfPlace /\ [Next]_vars => WeatherOfPlace'
  <2> SUFFICES ASSUME WeatherOfPlace, [Next]_vars PROVE WeatherOfPlace'
    OBVIOUS
  <2>1. CASE UNCHANGED <<place, weather, stale>>
    BY <2>1 DEF WeatherOfPlace
  <2>2. CASE WeatherAsked \/ WeatherCame \/ WeatherFails
    BY <2>2 DEF WeatherOfPlace, WeatherAsked, WeatherCame, WeatherFails
  <2>3. ASSUME NEW p \in Places \cup {None}, SetPlace(p) \/ PlaceOnly(p)
        PROVE  WeatherOfPlace'
    BY <2>3 DEF WeatherOfPlace, SetPlace, PlaceOnly
  <2>4. \/ UNCHANGED <<place, weather, stale>> \/ WeatherAsked \/ WeatherCame \/ WeatherFails
        \/ \E p \in Places \cup {None} : SetPlace(p) \/ PlaceOnly(p)
    BY DEF Next, vars, sky, screens, pairing, Pair, CodeExpires, ClaimCrash,
       SessionExpires, Revoke, RevokeCloses, Claim, Connect, LinkBreaks, Poll, Answer,
       Received, GetFails, Accepted, HandshakeFails, Delivered, SendFails,
       ServerTimeout, SessionOver, Ended, Restart, SetPlaceFails, SetPlaceCrash
  <2> QED
    BY <2>1, <2>2, <2>3, <2>4
<1> QED
  BY <1>1, <1>2, PTL DEF Spec

-----------------------------------------------------------------------------
(* Alarms.                                                                 *)

\* What has left or is in the history belongs to an alarm that was created;
\* what is in it, to one that is there.
Owned ==
    \A o \in Occurrences :
        /\ event[o].state # "none" => alarm[o[1]] # "none"
        /\ o \in Known => o[1] \in Live

\* What has happened is not in the future.
Happened ==
    /\ tick <= clock
    /\ \A o \in Occurrences : event[o].state # "none" => o[2] <= clock

\* A next moment is one of the schedule.
OnSchedule == \A a \in Live : next[a] # Never => next[a] \in Instants(spec[a])

\* An edit was validated against an alarm that was created, and as long as its
\* version is current no occurrence came since.
Validated ==
    edit # Nothing =>
        /\ alarm[edit.alarm] # "none"
        /\ edit.version <= version[edit.alarm]
        /\ edit.spec.enabled <=> edit.at # Never
        /\ edit.at # Never => edit.at \in Instants(edit.spec)
        /\ edit.version = version[edit.alarm] /\ edit.at # Never =>
             \A o \in Occurrences :
                o[1] = edit.alarm /\ event[o].state # "none" => o[2] < edit.at

\* What a screen saw is as old as the version it sends.
Seen ==
    ask # Nothing =>
        /\ event[ask.event].state # "none"
        /\ ask.event \in Known =>
             /\ ask.version <= event[ask.event].version
             /\ ask.version = event[ask.event].version => event[ask.event].state = ask.state

\* An occurrence that is snoozed has a ring to come.
Counted ==
    \A o \in Occurrences :
        /\ event[o].state = "none" => rung[o] = 0
        /\ event[o].state = "snoozed" => rung[o] <= event[o].snoozes

AlarmsIInv == /\ AlarmsTypeOK /\ NextIsNew /\ EnabledIsScheduled /\ SoundsCurrent /\ RingsInBounds
              /\ Owned /\ Happened /\ OnSchedule /\ Validated /\ Seen /\ Counted

-----------------------------------------------------------------------------
(* Alarms: moments.                                                        *)

LEMMA Bounds ==
    /\ Week \in Nat /\ Week >= 1 /\ Ring \in Nat /\ Ring >= 1 /\ Snooze \in Nat /\ Snooze >= 1
    /\ Grace \in Nat /\ MaxSnoozes \in Nat /\ MaxTime \in Nat /\ MaxEvents \in Nat
    /\ \A t \in Skipped : t + Week \notin Skipped
    /\ Never \notin Nat /\ Never \in Int /\ Never < 0
    /\ Moments \subseteq Nat /\ \A t \in Moments : t <= MaxTime
<1>1. /\ {Week, Ring, Snooze} \subseteq Nat \ {0}
      /\ {Grace, MaxSnoozes, MaxAlarms, MaxEvents, MaxReceipts, MaxTime, MaxEdits} \subseteq Nat
      /\ \A t \in Skipped : t + Week \notin Skipped
  BY AlarmAssumption
<1> QED
  BY <1>1 DEF Never, Moments

\* Of any natural numbers one is the least.
LEMMA Least ==
    ASSUME NEW A \in SUBSET Nat, A # {}
    PROVE  \E m \in A : \A r \in A : m <= r
<1>1. PICK m \in A : \A r \in A : <<r, m>> \notin OpToRel(<, Nat)
  BY NatLessThanWellFounded, WFMin
<1>2. ASSUME NEW r \in A PROVE m <= r
  <2>1. <<r, m>> \in Nat \X Nat
    OBVIOUS
  <2>2. ~(r < m)
    BY <1>1, <2>1 DEF OpToRel
  <2> QED
    BY <2>2
<1> QED
  BY <1>2

LEMMA Times ==
    ASSUME NEW a \in Nat, a >= 1, NEW b \in Nat
    PROVE  a * b \in Nat /\ a * b >= b /\ a * (b + 1) = a * b + a
<1>1. a * b = b + (a - 1) * b
  OBVIOUS
<1>2. (a - 1) * b \in Nat
  OBVIOUS
<1>3. a * (b + 1) = a * b + a
  OBVIOUS
<1> QED
  BY <1>1, <1>2, <1>3

LEMMA SpecIs ==
    ASSUME NEW s \in Specs
    PROVE  /\ s.repeat \in {"once", "weekly"} /\ s.at \in Moments /\ s.enabled \in BOOLEAN
           /\ s.at \in Nat
  BY Bounds DEF Specs

\* A schedule stands for moments of the clock.
LEMMA InstantsNat ==
    ASSUME NEW s \in Specs
    PROVE  Instants(s) \subseteq Nat
<1>1. s.at \in Nat /\ Week \in Nat /\ Week >= 1 /\ MaxTime \in Nat
  BY SpecIs, Bounds
<1>2. ASSUME NEW n \in 0..(MaxTime + 2) PROVE s.at + Week * n \in Nat
  <2>1. n \in Nat
    BY <1>1
  <2>2. Week * n \in Nat
    BY <1>1, <2>1, Times
  <2> QED
    BY <1>1, <2>2
<1> QED
  BY <1>1, <1>2 DEF Instants

\* A weekly schedule never ends.
LEMMA WeeklyGoesOn ==
    ASSUME NEW s \in Specs, s.repeat = "weekly", NEW after \in Moments
    PROVE  Future(s, after) # {}
<1>0. s.at \in Nat /\ Week \in Nat /\ Week >= 1 /\ MaxTime \in Nat /\ after \in Nat /\ after <= MaxTime
  BY SpecIs, Bounds
<1> DEFINE n == MaxTime + 1
           t == s.at + Week * n
           u == s.at + Week * (n + 1)
<1>1. n \in Nat /\ Week * n \in Nat /\ Week * n >= n /\ Week * (n + 1) = Week * n + Week
  <2>1. n \in Nat
    BY <1>0
  <2> QED
    BY <1>0, <2>1, Times
<1>2. u = t + Week /\ t > after /\ u > after
  BY <1>0, <1>1
<1>3. n \in 0..(MaxTime + 2) /\ n + 1 \in 0..(MaxTime + 2)
  BY <1>0
<1>4. t \notin Skipped \/ u \notin Skipped
  <2> HIDE DEF t, u
  <2> QED
    BY <1>2, Bounds
<1>5. t \in {s.at + Week * m : m \in 0..(MaxTime + 2)} /\ u \in {s.at + Week * m : m \in 0..(MaxTime + 2)}
  BY <1>3
<1> HIDE DEF t, u
<1>6. s.repeat # "once"
  OBVIOUS
<1> QED
  BY <1>2, <1>4, <1>5, <1>6 DEF Future, Instants

\* What next_fire() returns.
LEMMA FireIs ==
    ASSUME NEW s \in Specs, NEW after \in Moments
    PROVE  /\ NextFire(s, after) \in Nat \union {Never}
           /\ NextFire(s, after) # Never =>
                s.enabled /\ NextFire(s, after) \in Instants(s) /\ NextFire(s, after) > after
           /\ s.enabled /\ s.repeat = "weekly" => NextFire(s, after) # Never
<1>1. Future(s, after) \subseteq Nat /\ Future(s, after) \subseteq Instants(s)
  BY InstantsNat DEF Future
<1>2. CASE s.enabled /\ Future(s, after) # {}
  <2>1. \E t \in Future(s, after) : \A u \in Future(s, after) : t <= u
    BY <1>1, <1>2, Least
  <2>2. NextFire(s, after) = CHOOSE t \in Future(s, after) : \A u \in Future(s, after) : t <= u
    BY <1>2 DEF NextFire
  <2>3. NextFire(s, after) \in Future(s, after)
    BY <2>1, <2>2
  <2>4. NextFire(s, after) \in Nat /\ NextFire(s, after) \in Instants(s) /\ NextFire(s, after) > after
    BY <1>1, <2>3 DEF Future
  <2> QED
    BY <1>2, <2>4, Bounds
<1>3. CASE ~(s.enabled /\ Future(s, after) # {})
  <2>1. NextFire(s, after) = Never
    BY <1>3 DEF NextFire
  <2>2. ~(s.enabled /\ s.repeat = "weekly")
    BY <1>3, WeeklyGoesOn
  <2> QED
    BY <2>1, <2>2
<1> QED
  BY <1>2, <1>3

\* A schedule the manager may save has a next moment exactly when enabled.
LEMMA ValidIs ==
    ASSUME NEW s \in Specs, clock \in Moments, Valid(s)
    PROVE  s.enabled <=> NextFire(s, clock) # Never
  BY FireIs, SpecIs DEF Valid

\* The schedule of an alarm that fired.
LEMMA AfterIs ==
    ASSUME NEW a \in Alarms, spec[a] \in Specs, NEW at \in Moments, spec[a].enabled
    PROVE  /\ After(a) \in Specs
           /\ Instants(After(a)) = Instants(spec[a])
           /\ After(a).enabled <=> NextFire(After(a), at) # Never
<1> DEFINE s == spec[a]
<1>1. CASE s.repeat = "once"
  <2>1. After(a) = [s EXCEPT !.enabled = FALSE]
    BY <1>1 DEF After
  <2>2. s \in [repeat: {"once"}, at: Moments, enabled: BOOLEAN]
    BY <1>1 DEF Specs
  <2>3. /\ After(a) \in [repeat: {"once"}, at: Moments, enabled: BOOLEAN]
        /\ After(a).repeat = s.repeat /\ After(a).at = s.at /\ After(a).enabled = FALSE
    BY <2>1, <2>2
  <2>4. After(a) \in Specs
    BY <2>3 DEF Specs
  <2>5. Instants(After(a)) = Instants(s)
    BY <2>3 DEF Instants
  <2>6. NextFire(After(a), at) = Never
    BY <2>3 DEF NextFire
  <2> QED
    BY <2>3, <2>4, <2>5, <2>6
<1>2. CASE s.repeat # "once"
  <2>1. After(a) = s /\ s.repeat = "weekly"
    BY <1>2, SpecIs DEF After
  <2> QED
    BY <2>1, FireIs
<1> QED
  BY <1>1, <1>2

-----------------------------------------------------------------------------
(* Alarms: rows.                                                           *)

LEMMA RowIs ==
    ASSUME NEW e \in Row
    PROVE  /\ e.state \in {"none", "gone", "acknowledged", "cancelled", "ringing", "snoozed", "missed"}
           /\ e.due \in Nat /\ e.until \in Nat \union {Never} /\ e.version \in Nat
           /\ e.snoozes \in 0..MaxSnoozes /\ e.snoozes \in Nat
  BY Bounds DEF Row, Shown

LEMMA NoEventIs ==
    /\ NoEvent \in Row /\ NoEvent.state = "none" /\ NoEvent.snoozes = 0
    /\ NoEvent.version = 0
    /\ [NoEvent EXCEPT !.state = "gone"] \in Row
    /\ [NoEvent EXCEPT !.state = "gone"].state = "gone"
<1>1. 0 \in 0..MaxSnoozes /\ 0 \in Nat
  BY Bounds
<1> QED
  BY <1>1 DEF NoEvent, Row

LEMMA OccurrenceIs ==
    ASSUME NEW o \in Occurrences
    PROVE  o[1] \in Alarms /\ o[2] \in Moments /\ o[2] \in Nat /\ o[2] \in Int
<1>1. o[1] \in Alarms /\ o[2] \in Moments
  BY DEF Occurrences
<1>2. o[2] \in Nat
  BY <1>1, Bounds, Zenon
<1> QED
  BY <1>1, <1>2

LEMMA KnownIs ==
    /\ Known \subseteq Occurrences
    /\ \A o \in Occurrences : o \in Known <=> event[o].state \notin {"none", "gone"}
  BY DEF Known

LEMMA KnownNext ==
    /\ Known' \subseteq Occurrences
    /\ \A o \in Occurrences : o \in Known' <=> event'[o].state \notin {"none", "gone"}
  BY DEF Known, Occurrences

LEMMA LiveNext == \A a \in Alarms : a \in Live' <=> alarm'[a] = "live"
  BY DEF Live

\* A step that touches no row keeps the invariant when the clock does not go
\* back and what is under way is as valid and as seen as before.
LEMMA RowsFrame ==
    ASSUME AlarmsIInv, AlarmsTypeOK', UNCHANGED rows, clock <= clock', tick' <= clock',
           Validated', Seen'
    PROVE  AlarmsIInv'
<1>0. UNCHANGED <<alarm, spec, next, version, event, rung>>
  BY DEF rows
<1>1. Live' = Live /\ Known' = Known
  BY <1>0 DEF Live, Known
<1>2. \A s : Instants(s)' = Instants(s)
  BY DEF Instants
<1>3. NextIsNew' /\ EnabledIsScheduled' /\ Owned' /\ Counted'
  BY <1>0, <1>1 DEF AlarmsIInv, NextIsNew, EnabledIsScheduled, Owned, Counted
<1>4. RingsInBounds'
  BY <1>0, <1>1 DEF AlarmsIInv, RingsInBounds
<1>5. SoundsCurrent' /\ OnSchedule'
  BY <1>0, <1>1 DEF AlarmsIInv, SoundsCurrent, OnSchedule, Instants
<1>6. Happened'
  <2>1. ASSUME NEW o \in Occurrences, event'[o].state # "none" PROVE o[2] <= clock'
    <3>1. o[2] <= clock /\ o[2] \in Int /\ clock \in Int /\ clock' \in Int
      BY <1>0, <2>1, OccurrenceIs, Bounds DEF AlarmsIInv, Happened, AlarmsTypeOK
    <3> QED
      BY <3>1
  <2> QED
    BY <2>1 DEF Happened
<1> QED
  BY <1>3, <1>4, <1>5, <1>6 DEF AlarmsIInv

\* Nothing under way is validated and seen.
LEMMA Idle ==
    /\ (edit' = Nothing => Validated') /\ (ask' = Nothing => Seen')
  BY DEF Validated, Seen

LEMMA SameEdit ==
    ASSUME AlarmsIInv, UNCHANGED <<rows, edit>>
    PROVE  Validated'
  BY DEF AlarmsIInv, Validated, rows, Instants

LEMMA SameAsk ==
    ASSUME AlarmsIInv, UNCHANGED <<rows, ask>>
    PROVE  Seen'
  BY DEF AlarmsIInv, Seen, rows, Known

-----------------------------------------------------------------------------
(* Alarms: the manager.                                                    *)

LEMMA InitAlarms == AlarmsInit => AlarmsIInv
<1> SUFFICES ASSUME AlarmsInit PROVE AlarmsIInv
  OBVIOUS
<1>1. \E s \in Specs : ~s.enabled
  <2>1. 0 \in Moments
    BY Bounds DEF Moments
  <2>2. [repeat |-> "once", at |-> 0, enabled |-> FALSE] \in Specs
    BY <2>1 DEF Specs
  <2> QED
    BY <2>2
<1>2. \A a \in Alarms : spec[a] \in Specs /\ ~spec[a].enabled
  BY <1>1 DEF AlarmsInit
<1>3. AlarmsTypeOK
  <2>1. spec \in [Alarms -> Specs]
    BY <1>2 DEF AlarmsInit
  <2>2. event \in [Occurrences -> Row] /\ clock \in Moments
    BY NoEventIs, Bounds DEF AlarmsInit, Moments
  <2> QED
    BY <2>1, <2>2, Bounds DEF AlarmsInit, AlarmsTypeOK
<1>4. Live = {} /\ Known = {}
  BY NoEventIs DEF AlarmsInit, Live, Known
<1>5. Owned /\ Happened /\ OnSchedule /\ Validated /\ Seen /\ Counted
  BY <1>4, NoEventIs, Bounds
     DEF AlarmsInit, Owned, Happened, OnSchedule, Validated, Seen, Counted
<1>6. NextIsNew /\ EnabledIsScheduled /\ SoundsCurrent /\ RingsInBounds
  BY <1>4, NoEventIs DEF AlarmsInit, NextIsNew, EnabledIsScheduled, SoundsCurrent, RingsInBounds
<1> QED
  BY <1>3, <1>5, <1>6 DEF AlarmsIInv

LEMMA CreateKeeps ==
    ASSUME AlarmsIInv, NEW k \in Keys, NEW a \in Alarms, NEW s \in Specs, Create(k, a, s)
    PROVE  AlarmsIInv'
<1>0. AlarmsTypeOK /\ clock \in Moments
  BY DEF AlarmsIInv, AlarmsTypeOK
<1> DEFINE at == NextFire(s, clock)
<1>1. /\ at \in Nat \union {Never}
      /\ at # Never => at \in Instants(s)
      /\ s.enabled <=> at # Never
  BY <1>0, FireIs, ValidIs DEF Create
<1> HIDE DEF at
<1>2. /\ alarm[a] = "none"
      /\ alarm' = [alarm EXCEPT ![a] = "live"]
      /\ spec' = [spec EXCEPT ![a] = s]
      /\ next' = [next EXCEPT ![a] = at]
      /\ version' = [version EXCEPT ![a] = 1]
      /\ receipts' = receipts \union {k} /\ lifeRevision' = 1 - lifeRevision
      /\ UNCHANGED <<event, clock, tick, edit, ask, up, rung>>
  BY DEF Create, Receipt, Bump, at
<1>3. AlarmsTypeOK'
  BY <1>0, <1>1, <1>2 DEF AlarmsTypeOK
<1>4. \A b \in Alarms : b # a => /\ alarm'[b] = alarm[b] /\ spec'[b] = spec[b]
                                /\ next'[b] = next[b] /\ version'[b] = version[b]
  BY <1>0, <1>2 DEF AlarmsTypeOK
<1>5. alarm'[a] = "live" /\ spec'[a] = s /\ next'[a] = at /\ a \notin Live
  BY <1>0, <1>2 DEF AlarmsTypeOK, Live
<1>6. Known' = Known /\ \A b \in Alarms : b \in Live' <=> b = a \/ b \in Live
  BY <1>0, <1>2, <1>4, <1>5 DEF Known, Live
<1>7. \A o \in Occurrences : o[1] = a => event[o].state = "none"
  BY <1>2 DEF AlarmsIInv, Owned
<1>8. NextIsNew' /\ Owned' /\ Happened' /\ Counted'
  BY <1>2, <1>4, <1>6, <1>7, OccurrenceIs
     DEF AlarmsIInv, NextIsNew, Owned, Happened, Counted
<1>9. EnabledIsScheduled'
  BY <1>1, <1>4, <1>5, <1>6 DEF AlarmsIInv, EnabledIsScheduled, Live
<1>10. OnSchedule'
  BY <1>1, <1>4, <1>5, <1>6 DEF AlarmsIInv, OnSchedule, Live, Instants
<1>11. SoundsCurrent'
  <2>1. \A o \in Known : o[1] # a /\ o[1] \in Alarms
    BY <1>5, OccurrenceIs, KnownIs DEF AlarmsIInv, Owned
  <2> QED
    BY <1>2, <1>4, <1>6, <2>1 DEF AlarmsIInv, SoundsCurrent, Instants
<1>12. RingsInBounds'
  BY <1>2, <1>6 DEF AlarmsIInv, RingsInBounds
<1>13. Seen'
  BY <1>2, <1>6 DEF AlarmsIInv, Seen
<1>14. Validated'
  <2>1. edit # Nothing => edit.alarm \in Alarms /\ edit.alarm # a
    BY <1>0, <1>2 DEF AlarmsIInv, AlarmsTypeOK, Validated
  <2> QED
    BY <1>2, <1>4, <2>1 DEF AlarmsIInv, Validated, Instants
<1> QED
  BY <1>3, <1>8, <1>9, <1>10, <1>11, <1>12, <1>13, <1>14 DEF AlarmsIInv

LEMMA EditBeginKeeps ==
    ASSUME AlarmsIInv, NEW a \in Alarms, NEW s \in Specs, EditBegin(a, s)
    PROVE  AlarmsIInv'
<1>0. AlarmsTypeOK /\ clock \in Moments /\ clock \in Nat
  BY Bounds DEF AlarmsIInv, AlarmsTypeOK
<1> DEFINE at == NextFire(s, clock)
<1>1. /\ at \in Nat \union {Never}
      /\ at # Never => at \in Instants(s) /\ at > clock
      /\ s.enabled <=> at # Never
  BY <1>0, FireIs, ValidIs DEF EditBegin
<1> HIDE DEF at
<1>2. /\ a \in Live
      /\ edit' = [alarm |-> a, version |-> version[a], spec |-> s, at |-> at]
      /\ UNCHANGED <<rows, lifeRevision, receipts, clock, tick, ask, up>>
  BY DEF EditBegin, at
<1>3. UNCHANGED <<alarm, spec, next, version, event, rung>>
  BY <1>2 DEF rows
<1>4. version[a] \in Nat
  BY <1>0 DEF AlarmsTypeOK
<1>5. edit' \in [alarm: Alarms, version: Nat, spec: Specs, at: Nat \union {Never}]
  BY <1>1, <1>2, <1>4
<1>6. AlarmsTypeOK'
  BY <1>0, <1>2, <1>3, <1>5 DEF AlarmsTypeOK
<1>7. edit'.alarm = a /\ edit'.version = version[a] /\ edit'.spec = s /\ edit'.at = at
  BY <1>2
<1>8. ASSUME NEW o \in Occurrences, event[o].state # "none", at # Never PROVE o[2] < at
  <2>1. o[2] <= clock /\ o[2] \in Nat
    BY <1>8, OccurrenceIs DEF AlarmsIInv, Happened
  <2> QED
    BY <1>0, <1>1, <1>8, <2>1
<1>9. Validated'
  BY <1>1, <1>2, <1>3, <1>4, <1>7, <1>8 DEF Validated, Live, Instants
<1>10. clock <= clock' /\ tick' <= clock'
  BY <1>0, <1>2 DEF AlarmsIInv, Happened
<1>11. Seen'
  BY <1>2, SameAsk
<1> QED
  BY <1>2, <1>6, <1>9, <1>10, <1>11, RowsFrame

LEMMA CancelledIs ==
    ASSUME AlarmsTypeOK, NEW a \in Alarms
    PROVE  /\ Cancelled(a) \in [Occurrences -> Row]
           /\ \A o \in Occurrences :
                \/ Cancelled(a)[o] = event[o] /\ (o[1] = a => event[o].state \notin Shown)
                \/ /\ o[1] = a /\ event[o].state \in Shown
                   /\ Cancelled(a)[o].state = "cancelled"
                   /\ Cancelled(a)[o].version = event[o].version + 1
                   /\ Cancelled(a)[o].snoozes = event[o].snoozes
<1>1. ASSUME NEW o \in Occurrences
      PROVE  LET e == [event[o] EXCEPT !.state = "cancelled", !.until = Never, !.version = @ + 1]
             IN e \in Row /\ e.state = "cancelled" /\ e.version = event[o].version + 1
                /\ e.snoozes = event[o].snoozes
  <2>1. event[o] \in Row
    BY DEF AlarmsTypeOK
  <2>2. event[o].version + 1 \in Nat
    BY <2>1, RowIs
  <2> QED
    BY <2>1, <2>2 DEF Row
<1> QED
  BY <1>1 DEF Cancelled, AlarmsTypeOK

LEMMA EditCommitKeeps ==
    ASSUME AlarmsIInv, EditCommit
    PROVE  AlarmsIInv'
<1>0. AlarmsTypeOK
  BY DEF AlarmsIInv
<1> DEFINE a == edit.alarm
<1>1. /\ edit # Nothing /\ a \in Live /\ version[a] = edit.version
      /\ spec' = [spec EXCEPT ![a] = edit.spec]
      /\ next' = [next EXCEPT ![a] = edit.at]
      /\ version' = [version EXCEPT ![a] = version[a] + 1]
      /\ event' = Cancelled(a)
      /\ edit' = Nothing /\ lifeRevision' = 1 - lifeRevision
      /\ UNCHANGED <<alarm, receipts, clock, tick, ask, up, rung>>
  BY DEF EditCommit, Current, Bump
<1>2. a \in Alarms /\ edit.spec \in Specs /\ edit.at \in Nat \union {Never} /\ version[a] + 1 \in Nat
  BY <1>0, <1>1 DEF AlarmsTypeOK, Live
<1>3. /\ edit.spec.enabled <=> edit.at # Never
      /\ edit.at # Never => edit.at \in Instants(edit.spec)
      /\ edit.at # Never => \A o \in Occurrences :
            o[1] = a /\ event[o].state # "none" => o[2] < edit.at
  BY <1>1 DEF AlarmsIInv, Validated
<1> HIDE DEF a
<1>4. event' \in [Occurrences -> Row]
  BY <1>0, <1>1, <1>2, CancelledIs
<1>5. AlarmsTypeOK'
  BY <1>0, <1>1, <1>2, <1>4 DEF AlarmsTypeOK
<1>6. /\ \A b \in Alarms : b # a => spec'[b] = spec[b] /\ next'[b] = next[b] /\ version'[b] = version[b]
      /\ spec'[a] = edit.spec /\ next'[a] = edit.at
  BY <1>0, <1>1, <1>2 DEF AlarmsTypeOK
<1>7. \A o \in Occurrences :
         \/ event'[o] = event[o] /\ (o[1] = a => event[o].state \notin Shown)
         \/ /\ o[1] = a /\ event[o].state \in Shown
            /\ event'[o].state = "cancelled"
            /\ event'[o].version = event[o].version + 1
            /\ event'[o].snoozes = event[o].snoozes
  BY <1>0, <1>1, <1>2, CancelledIs
<1>8. /\ \A o \in Occurrences : event'[o].state = "none" <=> event[o].state = "none"
      /\ \A o \in Occurrences : o \in Known' <=> o \in Known
      /\ Live' = Live
  BY <1>1, <1>7, KnownIs, KnownNext DEF Live, Shown
<1>9. NextIsNew'
  <2> SUFFICES ASSUME NEW o \in Occurrences, o[1] \in Live, event[o].state # "none"
               PROVE  next'[o[1]] = Never \/ next'[o[1]] > o[2]
    BY <1>8 DEF NextIsNew
  <2>1. CASE o[1] = a
    <3>1. edit.at = Never \/ o[2] < edit.at
      BY <1>3, <2>1
    <3>2. edit.at = Never \/ edit.at > o[2]
      BY <3>1, <1>2, OccurrenceIs
    <3> QED
      BY <1>6, <2>1, <3>2
  <2>2. CASE o[1] # a
    BY <1>6, <2>2, OccurrenceIs DEF AlarmsIInv, NextIsNew
  <2> QED
    BY <2>1, <2>2
<1>10. EnabledIsScheduled'
  BY <1>1, <1>3, <1>6, <1>8 DEF AlarmsIInv, EnabledIsScheduled, Live
<1>11. OnSchedule'
  BY <1>1, <1>3, <1>6, <1>8 DEF AlarmsIInv, OnSchedule, Live, Instants
<1>12. SoundsCurrent'
  <2> SUFFICES ASSUME NEW o \in Known', event'[o].state \in {"ringing", "snoozed"}
               PROVE  o[1] \in Live' /\ o[2] \in Instants(spec'[o[1]])
    BY DEF SoundsCurrent, Instants
  <2>1. o \in Occurrences /\ o \in Known /\ event'[o] = event[o] /\ o[1] # a
    BY <1>7, <1>8, KnownNext DEF Shown
  <2> QED
    BY <1>6, <1>8, <2>1, OccurrenceIs DEF AlarmsIInv, SoundsCurrent
<1>13. RingsInBounds' /\ Counted'
  BY <1>1, <1>7, <1>8, KnownNext DEF AlarmsIInv, RingsInBounds, Counted
<1>14. Owned' /\ Happened'
  BY <1>1, <1>8 DEF AlarmsIInv, Owned, Happened
<1>15. Seen'
  <2> SUFFICES ASSUME ask # Nothing
               PROVE  /\ event'[ask.event].state # "none"
                      /\ ask.event \in Known' =>
                           /\ ask.version <= event'[ask.event].version
                           /\ ask.version = event'[ask.event].version
                                => event'[ask.event].state = ask.state
    BY <1>1 DEF Seen
  <2> DEFINE o == ask.event
  <2>1. o \in Occurrences /\ ask.version \in Nat /\ event[o] \in Row
    BY <1>0 DEF AlarmsTypeOK
  <2> HIDE DEF o
  <2>2. /\ event[o].state # "none"
        /\ o \in Known => /\ ask.version <= event[o].version
                          /\ ask.version = event[o].version => event[o].state = ask.state
    BY DEF AlarmsIInv, Seen, o
  <2>3. event[o].version \in Nat
    BY <2>1, RowIs
  <2>4. /\ event'[o].state # "none"
        /\ o \in Known' =>
             /\ ask.version <= event'[o].version
             /\ ask.version = event'[o].version => event'[o].state = ask.state
    BY <1>7, <1>8, <2>1, <2>2, <2>3
  <2> QED
    BY <2>4 DEF o
<1> QED
  BY <1>1, <1>5, <1>9, <1>10, <1>11, <1>12, <1>13, <1>14, <1>15, Idle DEF AlarmsIInv

LEMMA DeleteKeeps ==
    ASSUME AlarmsIInv, NEW a \in Alarms, Delete(a)
    PROVE  AlarmsIInv'
<1>0. AlarmsTypeOK
  BY DEF AlarmsIInv
<1>1. /\ a \in Live
      /\ alarm' = [alarm EXCEPT ![a] = "deleted"]
      /\ next' = [next EXCEPT ![a] = Never]
      /\ event' = [o \in Occurrences |->
           IF o[1] = a /\ o \in Known THEN [NoEvent EXCEPT !.state = "gone"] ELSE event[o]]
      /\ lifeRevision' = 1 - lifeRevision
      /\ UNCHANGED <<spec, version, receipts, clock, tick, edit, ask, up, rung>>
  BY DEF Delete, Bump
<1>2. AlarmsTypeOK'
  BY <1>0, <1>1, NoEventIs DEF AlarmsTypeOK
<1>3. /\ \A b \in Alarms : b # a => alarm'[b] = alarm[b] /\ next'[b] = next[b]
      /\ alarm'[a] = "deleted"
      /\ \A b \in Alarms : b \in Live' <=> b \in Live /\ b # a
  BY <1>0, <1>1 DEF AlarmsTypeOK, Live
<1>4. \A o \in Occurrences :
        \/ event'[o].state = "gone" /\ o[1] = a /\ o \in Known
        \/ event'[o] = event[o] /\ ~(o[1] = a /\ o \in Known)
  BY <1>1, NoEventIs
<1>5. /\ \A o \in Occurrences : event'[o].state = "none" <=> event[o].state = "none"
      /\ \A o \in Occurrences : o \in Known' <=> o \in Known /\ o[1] # a
      /\ \A o \in Known' : o \in Occurrences /\ o \in Known /\ event'[o] = event[o] /\ o[1] # a
  BY <1>4, KnownIs, KnownNext
<1>6. NextIsNew' /\ EnabledIsScheduled'
  BY <1>1, <1>3, <1>5, OccurrenceIs DEF AlarmsIInv, NextIsNew, EnabledIsScheduled, Live
<1>7. OnSchedule'
  BY <1>1, <1>3 DEF AlarmsIInv, OnSchedule, Live, Instants
<1>8. SoundsCurrent'
  BY <1>1, <1>3, <1>5, OccurrenceIs DEF AlarmsIInv, SoundsCurrent, Instants
<1>9. RingsInBounds'
  BY <1>1, <1>5 DEF AlarmsIInv, RingsInBounds
<1>10. Counted'
  BY <1>1, <1>4, <1>5 DEF AlarmsIInv, Counted
<1>11. Owned' /\ Happened'
  BY <1>1, <1>3, <1>5, OccurrenceIs DEF AlarmsIInv, Owned, Happened
<1>12. Validated'
  <2>1. edit # Nothing => edit.alarm \in Alarms
    BY <1>0 DEF AlarmsTypeOK
  <2> QED
    BY <1>1, <1>3, <1>5, <2>1 DEF AlarmsIInv, Validated, Instants
<1>13. Seen'
  <2>1. ask # Nothing => ask.event \in Occurrences
    BY <1>0 DEF AlarmsTypeOK
  <2> QED
    BY <1>1, <1>5, <2>1 DEF AlarmsIInv, Seen
<1> QED
  BY <1>2, <1>6, <1>7, <1>8, <1>9, <1>10, <1>11, <1>12, <1>13 DEF AlarmsIInv

-----------------------------------------------------------------------------
(* Alarms: the scheduler's round.                                          *)

\* A row that is due rings, within Grace, or is missed.
LEMMA SoundedIs ==
    ASSUME NEW e \in Row, NEW due \in Nat, tick \in Nat
    PROVE  /\ Sounded(e, due) \in Row
           /\ Sounded(e, due).state \in {"ringing", "missed"}
           /\ Sounded(e, due).version = e.version + 1
           /\ Sounded(e, due).snoozes = e.snoozes
           /\ Sounded(e, due).due = due
           /\ Sounded(e, due).state = "ringing" => Sounded(e, due).until <= due + Grace + Ring
<1>1. e.version + 1 \in Nat /\ tick + Ring \in Nat
  BY RowIs, Bounds
<1>2. tick - due <= Grace => tick + Ring <= due + Grace + Ring
  BY Bounds
<1> QED
  BY <1>1, <1>2 DEF Sounded, Row, Shown

\* What a round does to one occurrence before the history is trimmed: a row in
\* it is left alone or ends one stage, and a new one was never there.
LEMMA TickedIs ==
    ASSUME AlarmsIInv, tick # Never, NEW o \in Occurrences
    PROVE  /\ Ticked[o] \in Row
           /\ Fired(o) => /\ event[o].state = "none" /\ o[1] \in Firing /\ o[2] = next[o[1]]
                          /\ o[2] <= tick /\ Ticked[o].snoozes = 0
                          /\ Ticked[o].state \in {"ringing", "missed"}
           /\ o \notin Known /\ ~Fired(o) => Ticked[o] = event[o]
           /\ o \in Known =>
                \/ Ticked[o] = event[o] /\ ~Woken(o)
                \/ /\ event[o].state = "ringing" /\ Ticked[o].state = "missed" /\ ~Woken(o)
                   /\ Ticked[o].version = event[o].version + 1
                   /\ Ticked[o].snoozes = event[o].snoozes
                \/ /\ event[o].state = "snoozed" /\ Ticked[o].state \in {"ringing", "missed"}
                   /\ Ticked[o].version = event[o].version + 1
                   /\ Ticked[o].snoozes = event[o].snoozes
           /\ Ticked[o].state = "ringing" => Ticked[o].until <= Ticked[o].due + Grace + Ring
<1>0. /\ event[o] \in Row /\ tick \in Nat /\ tick \in Moments
      /\ o[1] \in Alarms /\ o[2] \in Nat
  BY OccurrenceIs, Bounds DEF AlarmsIInv, AlarmsTypeOK
<1>1. event[o].version + 1 \in Nat /\ event[o].due \in Nat
  BY <1>0, RowIs
<1>2. o \in Known <=> event[o].state \notin {"none", "gone"}
  BY KnownIs
<1>3. Fired(o) => /\ event[o].state = "none" /\ o[1] \in Firing /\ o[2] = next[o[1]]
                  /\ o[2] <= tick /\ o \notin Known
  BY <1>0, <1>2, Bounds DEF AlarmsIInv, NextIsNew, Fired, Firing
<1>4. CASE Silenced(o)
  <2>1. Ticked[o] = [event[o] EXCEPT !.state = "missed", !.until = Never, !.version = @ + 1]
    BY <1>4 DEF Ticked
  <2>2. /\ Ticked[o] \in Row /\ Ticked[o].state = "missed"
        /\ Ticked[o].version = event[o].version + 1 /\ Ticked[o].snoozes = event[o].snoozes
    BY <1>0, <1>1, <2>1 DEF Row, Shown
  <2>3. event[o].state = "ringing" /\ ~Woken(o)
    BY <1>4 DEF Silenced, Woken
  <2> QED
    BY <1>2, <1>3, <2>2, <2>3
<1>5. CASE Woken(o)
  <2>1. ~Silenced(o) /\ event[o].state = "snoozed"
    BY <1>5 DEF Woken, Silenced
  <2>2. Ticked[o] = Sounded(event[o], event[o].due)
    BY <1>5, <2>1 DEF Ticked
  <2>3. event[o] \in Row /\ event[o].due \in Nat /\ tick \in Nat
    BY <1>0, <1>1
  <2> DEFINE e == event[o]
             f == Sounded(e, e.due)
  <2>4. /\ f \in Row /\ f.state \in {"ringing", "missed"} /\ f.version = e.version + 1
        /\ f.snoozes = e.snoozes /\ f.due = e.due
        /\ f.state = "ringing" => f.until <= e.due + Grace + Ring
    <3> HIDE DEF e
    <3> QED
      BY <2>3, SoundedIs DEF e
  <2>5. Ticked[o] = f
    BY <2>2
  <2> HIDE DEF f
  <2> QED
    BY <1>2, <1>3, <2>1, <2>4, <2>5
<1>6. CASE Fired(o)
  <2>1. ~Silenced(o) /\ ~Woken(o)
    BY <1>3, <1>6 DEF Woken, Silenced
  <2>2. Ticked[o] = Sounded(NoEvent, o[2])
    BY <1>6, <2>1 DEF Ticked
  <2> QED
    BY <1>0, <1>3, <1>6, <2>2, SoundedIs, NoEventIs
<1>7. CASE ~Silenced(o) /\ ~Woken(o) /\ ~Fired(o)
  <2>1. Ticked[o] = event[o]
    BY <1>7 DEF Ticked
  <2>2. event[o].state = "ringing" => event[o].until <= event[o].due + Grace + Ring
    BY <1>2 DEF AlarmsIInv, RingsInBounds
  <2> QED
    BY <1>0, <1>7, <2>1, <2>2
<1> QED
  BY <1>4, <1>5, <1>6, <1>7

\* An alarm that fires has a schedule and a next moment after this one.
LEMMA FiringIs ==
    ASSUME AlarmsIInv, tick # Never, NEW a \in Firing
    PROVE  /\ a \in Live /\ a \in Alarms /\ next[a] \in Nat /\ next[a] <= tick
           /\ After(a) \in Specs
           /\ Instants(After(a)) = Instants(spec[a])
           /\ NextFire(After(a), tick) \in Nat \union {Never}
           /\ NextFire(After(a), tick) # Never =>
                /\ NextFire(After(a), tick) \in Instants(After(a))
                /\ NextFire(After(a), tick) > tick
           /\ After(a).enabled <=> NextFire(After(a), tick) # Never
<1>1. /\ a \in Live /\ a \in Alarms /\ next[a] # Never /\ next[a] <= tick
      /\ next[a] \in Nat \union {Never} /\ spec[a] \in Specs /\ tick \in Moments
  BY DEF Firing, Live, AlarmsIInv, AlarmsTypeOK
<1>2. spec[a].enabled
  BY <1>1 DEF AlarmsIInv, EnabledIsScheduled
<1>3. After(a) \in Specs /\ Instants(After(a)) = Instants(spec[a])
      /\ (After(a).enabled <=> NextFire(After(a), tick) # Never)
  BY <1>1, <1>2, AfterIs
<1> QED
  BY <1>1, <1>3, FireIs

\* A round leaves each occurrence as above, or takes it from the history.
LEMMA RoundIs ==
    ASSUME AlarmsIInv, TickCommit
    PROVE  /\ event' \in [Occurrences -> Row]
           /\ \A o \in Occurrences :
                \/ event'[o] = Ticked[o]
                \/ event'[o].state = "gone" /\ Ticked[o].state \notin {"none", "gone", "ringing", "snoozed"}
<1>1. PICK keep \in Retained(Ticked) :
         event' = [o \in Occurrences |->
           IF Ticked[o].state \in {"none", "gone"} \/ o \in keep THEN Ticked[o]
           ELSE [NoEvent EXCEPT !.state = "gone"]]
  BY DEF TickCommit
<1>2. {o \in Occurrences : Ticked[o].state \in {"ringing", "snoozed"}} \subseteq keep
  BY <1>1 DEF Retained
<1>3. \A o \in Occurrences : Ticked[o] \in Row
  BY TickedIs DEF TickCommit
<1> QED
  BY <1>1, <1>2, <1>3, NoEventIs

LEMMA TickCommitKeeps ==
    ASSUME AlarmsIInv, TickCommit
    PROVE  AlarmsIInv'
<1>0. /\ AlarmsTypeOK /\ tick # Never /\ tick \in Moments /\ tick \in Nat /\ clock \in Nat
      /\ tick <= clock
  BY Bounds DEF AlarmsIInv, AlarmsTypeOK, TickCommit, Happened
<1>1. /\ spec' = [a \in Alarms |-> IF a \in Firing THEN After(a) ELSE spec[a]]
      /\ next' = [a \in Alarms |-> IF a \in Firing THEN NextFire(After(a), tick) ELSE next[a]]
      /\ version' = [a \in Alarms |-> IF a \in Firing THEN version[a] + 1 ELSE version[a]]
      /\ rung' = [o \in Occurrences |->
           IF (Fired(o) \/ Woken(o)) /\ Ticked[o].state = "ringing" THEN rung[o] + 1 ELSE rung[o]]
      /\ lifeRevision' \in {1 - lifeRevision, lifeRevision}
      /\ tick' = Never
      /\ UNCHANGED <<alarm, receipts, clock, edit, ask, up>>
  BY DEF TickCommit, Bump
<1>2. event' \in [Occurrences -> Row]
  BY RoundIs
<1>3. AlarmsTypeOK'
  <2>1. spec' \in [Alarms -> Specs]
    BY <1>0, <1>1, FiringIs DEF AlarmsTypeOK
  <2>2. next' \in [Alarms -> Nat \union {Never}]
    BY <1>0, <1>1, FiringIs DEF AlarmsTypeOK
  <2>3. version' \in [Alarms -> Nat] /\ rung' \in [Occurrences -> Nat]
    BY <1>0, <1>1 DEF AlarmsTypeOK
  <2>4. lifeRevision' \in {0, 1}
    BY <1>0, <1>1 DEF AlarmsTypeOK
  <2> QED
    BY <1>0, <1>1, <1>2, <2>1, <2>2, <2>3, <2>4 DEF AlarmsTypeOK
<1>4. Live' = Live /\ Firing \subseteq Live /\ Live \subseteq Alarms
  BY <1>1 DEF Live, Firing
<1>5. ASSUME NEW o \in Occurrences
      PROVE  /\ event'[o].state = "none" <=> event[o].state = "none" /\ ~Fired(o)
             /\ o \in Known' => /\ o \in Known \/ Fired(o)
                                /\ event'[o] = Ticked[o]
             /\ event[o].state = "gone" => event'[o].state = "gone"
  <2>1. /\ \/ event'[o] = Ticked[o]
           \/ event'[o].state = "gone" /\ Ticked[o].state \notin {"none", "gone"}
        /\ o \in Known <=> event[o].state \notin {"none", "gone"}
        /\ o \in Known' <=> event'[o].state \notin {"none", "gone"}
    BY RoundIs, KnownIs, KnownNext
  <2>2. /\ Fired(o) => event[o].state = "none" /\ Ticked[o].state \in {"ringing", "missed"}
        /\ o \notin Known /\ ~Fired(o) => Ticked[o] = event[o]
        /\ o \in Known => Ticked[o].state = event[o].state \/ Ticked[o].state \in {"ringing", "missed"}
    BY <1>0, TickedIs
  <2> QED
    BY <2>1, <2>2
<1>6. NextIsNew'
  <2> SUFFICES ASSUME NEW o \in Occurrences, o[1] \in Live, event'[o].state # "none"
               PROVE  next'[o[1]] = Never \/ next'[o[1]] > o[2]
    BY <1>4 DEF NextIsNew
  <2>0. o[1] \in Alarms /\ o[2] \in Nat
    BY OccurrenceIs
  <2>1. CASE o[1] \in Firing
    <3>1. o[2] <= tick
      <4>1. CASE Fired(o)
        BY <1>0, <4>1, TickedIs
      <4>2. CASE ~Fired(o)
        <5>1. event[o].state # "none"
          BY <1>5, <4>2
        <5>2. next[o[1]] # Never /\ next[o[1]] <= tick /\ next[o[1]] \in Nat
          BY <1>0, <2>1, FiringIs, Bounds
        <5>3. next[o[1]] > o[2]
          BY <5>1, <5>2 DEF AlarmsIInv, NextIsNew
        <5> QED
          BY <1>0, <2>0, <5>2, <5>3
      <4> QED
        BY <4>1, <4>2
    <3>2. next'[o[1]] = NextFire(After(o[1]), tick)
      BY <1>1, <2>0, <2>1
    <3> QED
      BY <1>0, <2>0, <2>1, <3>1, <3>2, FiringIs
  <2>2. CASE o[1] \notin Firing
    <3>1. next'[o[1]] = next[o[1]] /\ ~Fired(o)
      BY <1>1, <2>0, <2>2 DEF Fired
    <3>2. event[o].state # "none"
      BY <1>5, <3>1
    <3> QED
      BY <3>1, <3>2 DEF AlarmsIInv, NextIsNew
  <2> QED
    BY <2>1, <2>2
<1>7. EnabledIsScheduled'
  <2> SUFFICES ASSUME NEW a \in Live PROVE spec'[a].enabled <=> next'[a] # Never
    BY <1>4 DEF EnabledIsScheduled
  <2>1. CASE a \in Firing
    BY <1>0, <1>1, <1>4, <2>1, FiringIs
  <2>2. CASE a \notin Firing
    BY <1>1, <1>4, <2>2 DEF AlarmsIInv, EnabledIsScheduled
  <2> QED
    BY <2>1, <2>2
<1>8. \A a \in Alarms : Instants(spec'[a]) = Instants(spec[a])
  BY <1>0, <1>1, FiringIs
<1>9. OnSchedule'
  <2> SUFFICES ASSUME NEW a \in Live, next'[a] # Never PROVE next'[a] \in Instants(spec'[a])
    BY <1>4 DEF OnSchedule, Instants
  <2>1. CASE a \in Firing
    BY <1>0, <1>1, <1>4, <2>1, FiringIs
  <2>2. CASE a \notin Firing
    BY <1>1, <1>4, <2>2 DEF AlarmsIInv, OnSchedule
  <2> QED
    BY <2>1, <2>2
<1>10. SoundsCurrent'
  <2> SUFFICES ASSUME NEW o \in Known', event'[o].state \in {"ringing", "snoozed"}
               PROVE  o[1] \in Live /\ o[2] \in Instants(spec'[o[1]])
    BY <1>4 DEF SoundsCurrent, Instants
  <2>0. o \in Occurrences /\ o[1] \in Alarms /\ event'[o] = Ticked[o] /\ (o \in Known \/ Fired(o))
    BY <1>5, KnownNext, OccurrenceIs
  <2>1. CASE Fired(o)
    <3>1. o[1] \in Firing /\ o[2] = next[o[1]] /\ next[o[1]] # Never /\ o[1] \in Live
      BY <2>1 DEF Fired, Firing
    <3>2. next[o[1]] \in Instants(spec[o[1]])
      BY <3>1 DEF AlarmsIInv, OnSchedule
    <3> QED
      BY <1>8, <2>0, <3>1, <3>2
  <2>2. CASE o \in Known
    <3>1. event[o].state \in {"ringing", "snoozed"}
      BY <1>0, <2>0, <2>2, TickedIs
    <3> QED
      BY <1>8, <2>0, <2>2, <3>1 DEF AlarmsIInv, SoundsCurrent
  <2> QED
    BY <2>0, <2>1, <2>2
<1>11. ASSUME NEW o \in Known'
       PROVE  /\ o \in Occurrences
              /\ rung'[o] <= event'[o].snoozes + 1
              /\ event'[o].state = "snoozed" => rung'[o] <= event'[o].snoozes
              /\ event'[o].state = "ringing" => event'[o].until <= event'[o].due + Grace + Ring
  <2>0. /\ o \in Occurrences /\ event'[o] = Ticked[o] /\ (o \in Known \/ Fired(o))
        /\ rung[o] \in Nat /\ event[o] \in Row /\ Ticked[o] \in Row
        /\ rung'[o] = IF (Fired(o) \/ Woken(o)) /\ Ticked[o].state = "ringing"
                      THEN rung[o] + 1 ELSE rung[o]
    BY <1>0, <1>1, <1>5, KnownNext, TickedIs DEF AlarmsTypeOK
  <2>1. event[o].snoozes \in Nat /\ Ticked[o].snoozes \in Nat
    BY <2>0, RowIs
  <2>2. Ticked[o].state = "ringing" => Ticked[o].until <= Ticked[o].due + Grace + Ring
    BY <1>0, <2>0, TickedIs
  <2>3. CASE Fired(o)
    <3>1. /\ event[o].state = "none" /\ Ticked[o].snoozes = 0
          /\ Ticked[o].state \in {"ringing", "missed"}
      BY <1>0, <2>0, <2>3, TickedIs
    <3>2. rung[o] = 0
      BY <2>0, <3>1 DEF AlarmsIInv, Counted
    <3> QED
      BY <2>0, <2>2, <3>1, <3>2
  <2>4. CASE o \in Known /\ ~Fired(o)
    <3>1. /\ rung[o] <= event[o].snoozes + 1
          /\ event[o].state = "snoozed" => rung[o] <= event[o].snoozes
      BY <2>0, <2>4 DEF AlarmsIInv, RingsInBounds, Counted
    <3>2. \/ Ticked[o] = event[o] /\ ~Woken(o)
          \/ /\ event[o].state = "ringing" /\ Ticked[o].state = "missed" /\ ~Woken(o)
             /\ Ticked[o].snoozes = event[o].snoozes
          \/ /\ event[o].state = "snoozed" /\ Ticked[o].state \in {"ringing", "missed"}
             /\ Ticked[o].snoozes = event[o].snoozes
      BY <1>0, <2>0, <2>4, TickedIs
    <3> QED
      BY <2>0, <2>1, <2>2, <2>4, <3>1, <3>2
  <2> QED
    BY <2>0, <2>3, <2>4
<1>12. RingsInBounds'
  BY <1>11 DEF RingsInBounds
<1>13. Counted'
  <2> SUFFICES ASSUME NEW o \in Occurrences
               PROVE  /\ event'[o].state = "none" => rung'[o] = 0
                      /\ event'[o].state = "snoozed" => rung'[o] <= event'[o].snoozes
    BY DEF Counted
  <2>1. ASSUME event'[o].state = "none" PROVE rung'[o] = 0
    <3>1. event[o].state = "none" /\ ~Fired(o) /\ ~Woken(o)
      BY <1>5, <2>1 DEF Woken
    <3> QED
      BY <1>1, <3>1 DEF AlarmsIInv, Counted
  <2>2. ASSUME event'[o].state = "snoozed" PROVE rung'[o] <= event'[o].snoozes
    BY <1>11, <2>2, KnownNext
  <2> QED
    BY <2>1, <2>2
<1>14. Owned'
  <2> SUFFICES ASSUME NEW o \in Occurrences
               PROVE  /\ event'[o].state # "none" => alarm[o[1]] # "none"
                      /\ o \in Known' => o[1] \in Live
    BY <1>1, <1>4 DEF Owned
  <2>1. Fired(o) => o[1] \in Live /\ alarm[o[1]] # "none"
    BY DEF Fired, Firing, Live
  <2> QED
    BY <1>5, <2>1 DEF AlarmsIInv, Owned
<1>15. Happened'
  <2>1. Never <= clock
    BY <1>0, Bounds
  <2>2. ASSUME NEW o \in Occurrences, event'[o].state # "none" PROVE o[2] <= clock
    <3>1. CASE Fired(o)
      <4>1. o[2] <= tick /\ o[2] \in Nat
        BY <1>0, <3>1, TickedIs, OccurrenceIs
      <4> QED
        BY <1>0, <4>1
    <3>2. CASE ~Fired(o)
      BY <1>5, <2>2, <3>2 DEF AlarmsIInv, Happened
    <3> QED
      BY <3>1, <3>2
  <2> QED
    BY <1>1, <2>1, <2>2 DEF Happened
<1>16. Validated'
  <2> SUFFICES ASSUME edit # Nothing PROVE Validated'
    BY <1>1 DEF Validated
  <2> DEFINE a == edit.alarm
  <2>0. /\ a \in Alarms /\ edit.version \in Nat /\ version[a] \in Nat
    BY <1>0 DEF AlarmsTypeOK
  <2>1. /\ alarm[a] # "none" /\ edit.version <= version[a]
        /\ edit.spec.enabled <=> edit.at # Never
        /\ edit.at # Never => edit.at \in Instants(edit.spec)
        /\ edit.version = version[a] /\ edit.at # Never =>
             \A o \in Occurrences : o[1] = a /\ event[o].state # "none" => o[2] < edit.at
    BY DEF AlarmsIInv, Validated
  <2> HIDE DEF a
  <2>2. version'[a] = IF a \in Firing THEN version[a] + 1 ELSE version[a]
    BY <1>1, <2>0
  <2>3. edit.version <= version'[a]
    BY <2>0, <2>1, <2>2
  <2>4. ASSUME edit.version = version'[a], edit.at # Never, NEW o \in Occurrences,
               o[1] = a, event'[o].state # "none"
        PROVE  o[2] < edit.at
    <3>1. a \notin Firing /\ edit.version = version[a]
      BY <2>0, <2>1, <2>2, <2>4
    <3>2. event[o].state # "none"
      BY <1>5, <2>4, <3>1 DEF Fired
    <3> QED
      BY <2>1, <2>4, <3>1, <3>2
  <2> QED
    BY <1>1, <2>1, <2>3, <2>4 DEF Validated, Instants, a
<1>17. Seen'
  <2> SUFFICES ASSUME ask # Nothing PROVE Seen'
    BY <1>1 DEF Seen
  <2> DEFINE o == ask.event
  <2>0. o \in Occurrences /\ ask.version \in Nat /\ event[o] \in Row
    BY <1>0 DEF AlarmsTypeOK
  <2>1. /\ event[o].state # "none"
        /\ o \in Known => /\ ask.version <= event[o].version
                          /\ ask.version = event[o].version => event[o].state = ask.state
    BY DEF AlarmsIInv, Seen
  <2> HIDE DEF o
  <2>2. event'[o].state # "none" /\ ~Fired(o)
    BY <1>0, <1>5, <2>0, <2>1, TickedIs
  <2>3. ASSUME o \in Known'
        PROVE  /\ ask.version <= event'[o].version
               /\ ask.version = event'[o].version => event'[o].state = ask.state
    <3>1. o \in Known /\ event'[o] = Ticked[o]
      BY <1>5, <2>0, <2>2, <2>3
    <3>2. Ticked[o] = event[o] \/ Ticked[o].version = event[o].version + 1
      BY <1>0, <2>0, <3>1, TickedIs
    <3>3. event[o].version \in Nat
      BY <2>0, RowIs
    <3> QED
      BY <2>0, <2>1, <3>1, <3>2, <3>3
  <2> QED
    BY <1>1, <2>2, <2>3 DEF Seen, o
<1> QED
  BY <1>3, <1>6, <1>7, <1>9, <1>10, <1>12, <1>13, <1>14, <1>15, <1>16, <1>17 DEF AlarmsIInv

-----------------------------------------------------------------------------
(* Alarms: acknowledge and snooze.                                         *)

\* An answer that was given for the occurrence as it is.
LEMMA Answered ==
    ASSUME AlarmsIInv, AlarmsTypeOK', NEW q \in Occurrences, q \in Known,
           event' = [event EXCEPT ![q] = event'[q]],
           event'[q].state \in {"acknowledged", "snoozed"},
           event'[q].state = "snoozed" => event[q].state = "ringing",
           rung[q] <= event'[q].snoozes + 1,
           event'[q].state = "snoozed" => rung[q] <= event'[q].snoozes,
           ask' = Nothing,
           UNCHANGED <<alarm, spec, next, version, clock, tick, edit, up, rung>>
    PROVE  AlarmsIInv'
<1>0. AlarmsTypeOK
  BY DEF AlarmsIInv
<1>1. \A o \in Occurrences : o # q => event'[o] = event[o]
  BY <1>0 DEF AlarmsTypeOK
<1>2. event[q].state \notin {"none", "gone"}
  BY KnownIs
<1>3. /\ Live' = Live
      /\ \A o \in Occurrences : o \in Known' <=> o \in Known
      /\ \A o \in Known' : o \in Occurrences
      /\ \A o \in Occurrences : event'[o].state = "none" <=> event[o].state = "none"
  BY <1>1, <1>2, KnownIs, KnownNext DEF Live
<1>4. NextIsNew' /\ EnabledIsScheduled' /\ Owned' /\ Happened'
  BY <1>3 DEF AlarmsIInv, NextIsNew, EnabledIsScheduled, Owned, Happened
<1>5. OnSchedule' /\ Validated'
  BY <1>3 DEF AlarmsIInv, OnSchedule, Validated, Instants
<1>6. SoundsCurrent'
  BY <1>1, <1>3 DEF AlarmsIInv, SoundsCurrent, Instants
<1>7. RingsInBounds' /\ Counted'
  BY <1>1, <1>3 DEF AlarmsIInv, RingsInBounds, Counted
<1>8. Seen'
  BY Idle
<1> QED
  BY <1>4, <1>5, <1>6, <1>7, <1>8 DEF AlarmsIInv

LEMMA AcknowledgeKeeps ==
    ASSUME AlarmsIInv, NEW k \in Keys, Acknowledge(k)
    PROVE  AlarmsIInv'
<1>0. AlarmsTypeOK
  BY DEF AlarmsIInv
<1> DEFINE q == ask.event
           r == Acknowledged(event[q])
<1>1. /\ q \in Known /\ q \in Occurrences
      /\ event' = [event EXCEPT ![q] = r]
      /\ ask' = Nothing /\ receipts' = receipts \union {k} /\ lifeRevision' = 1 - lifeRevision
      /\ UNCHANGED <<alarm, spec, next, version, clock, tick, edit, up, rung>>
  BY <1>0, KnownIs DEF Acknowledge, CurrentAsk, Receipt, Bump
<1>2. event[q] \in Row
  BY <1>0, <1>1 DEF AlarmsTypeOK
<1>3. event[q].version + 1 \in Nat
  BY <1>2, RowIs
<1>4. r \in Row /\ r.state = "acknowledged" /\ r.snoozes = event[q].snoozes
  BY <1>2, <1>3 DEF Row, Acknowledged
<1>5. rung[q] <= event[q].snoozes + 1
  BY <1>1 DEF AlarmsIInv, RingsInBounds
<1> HIDE DEF q, r
<1>6. event'[q] = r
  BY <1>0, <1>1 DEF AlarmsTypeOK
<1>7. AlarmsTypeOK'
  BY <1>0, <1>1, <1>4 DEF AlarmsTypeOK
<1> QED
  BY <1>1, <1>4, <1>5, <1>6, <1>7, Answered

LEMMA SnoozeItKeeps ==
    ASSUME AlarmsIInv, NEW k \in Keys, SnoozeIt(k)
    PROVE  AlarmsIInv'
<1>0. AlarmsTypeOK
  BY DEF AlarmsIInv
<1> DEFINE q == ask.event
           r == Snoozed(event[q])
<1>1. /\ q \in Known /\ q \in Occurrences
      /\ event' = [event EXCEPT ![q] = r]
      /\ event[q].state = "ringing" /\ event[q].snoozes < MaxSnoozes
      /\ ask' = Nothing /\ receipts' = receipts \union {k} /\ lifeRevision' = 1 - lifeRevision
      /\ UNCHANGED <<alarm, spec, next, version, clock, tick, edit, up, rung>>
  BY <1>0, KnownIs DEF SnoozeIt, CurrentAsk, MaySnooze, Receipt, Bump
<1>2. event[q] \in Row
  BY <1>0, <1>1 DEF AlarmsTypeOK
<1>3. /\ event[q].version + 1 \in Nat /\ event[q].snoozes \in Nat
      /\ event[q].snoozes + 1 \in 0..MaxSnoozes
  BY <1>1, <1>2, RowIs, Bounds
<1>4. ask.now + Snooze \in Nat
  <2>1. ask.now \in Moments
    BY <1>0 DEF SnoozeIt, CurrentAsk, AlarmsTypeOK
  <2>2. ask.now \in Nat /\ Snooze \in Nat
    BY <2>1, Bounds, Zenon
  <2> QED
    BY <2>2
<1>5. r \in Row /\ r.state = "snoozed" /\ r.snoozes = event[q].snoozes + 1
  BY <1>2, <1>3, <1>4 DEF Row, Shown, Snoozed
<1>6. rung[q] <= event[q].snoozes + 1 /\ rung[q] \in Nat
  BY <1>0, <1>1 DEF AlarmsIInv, RingsInBounds, AlarmsTypeOK
<1> HIDE DEF q, r
<1>7. event'[q] = r
  BY <1>0, <1>1 DEF AlarmsTypeOK
<1>8. AlarmsTypeOK'
  BY <1>0, <1>1, <1>5 DEF AlarmsTypeOK
<1>9. rung[q] <= event'[q].snoozes /\ rung[q] <= event'[q].snoozes + 1
  BY <1>3, <1>5, <1>6, <1>7
<1> QED
  BY <1>1, <1>5, <1>7, <1>8, <1>9, Answered

-----------------------------------------------------------------------------
(* Alarms: the other steps.                                                *)

\* The steps that leave the rows alone.
LEMMA AsideKeeps ==
    ASSUME AlarmsIInv,
           \/ EditFails \/ TickRead \/ TickFails \/ AskFails \/ Advance \/ Crash \/ LifeRestarts
           \/ \E o \in Occurrences : AskBegin(o)
    PROVE  AlarmsIInv'
<1>0. /\ AlarmsTypeOK /\ clock \in Nat /\ tick \in Int /\ tick <= clock
      /\ Never <= clock /\ clock + 1 \in Nat
  <2>1. AlarmsTypeOK /\ tick <= clock
    BY DEF AlarmsIInv, Happened
  <2>2. clock \in Moments /\ tick \in Moments \union {Never}
    BY <2>1 DEF AlarmsTypeOK
  <2>3. clock \in Nat /\ (tick \in Nat \/ tick = Never)
    BY <2>2, Bounds, Zenon
  <2> QED
    BY <2>1, <2>3, Bounds
<1>1. CASE EditFails
  <2>1. /\ edit' = Nothing /\ UNCHANGED <<rows, lifeRevision, receipts, clock, tick, ask, up>>
    BY <1>1 DEF EditFails
  <2>2. AlarmsTypeOK'
    BY <1>0, <2>1 DEF AlarmsTypeOK, rows
  <2> QED
    BY <1>0, <2>1, <2>2, Idle, SameAsk, RowsFrame
<1>2. CASE TickRead \/ TickFails
  <2>1. /\ tick' \in {clock, Never}
        /\ UNCHANGED <<rows, lifeRevision, receipts, clock, edit, ask, up>>
    BY <1>2 DEF TickRead, TickFails
  <2>2. AlarmsTypeOK'
    BY <1>0, <2>1 DEF AlarmsTypeOK, rows
  <2> QED
    BY <1>0, <2>1, <2>2, SameEdit, SameAsk, RowsFrame
<1>3. CASE AskFails
  <2>1. /\ ask' = Nothing /\ UNCHANGED <<rows, lifeRevision, receipts, clock, tick, edit, up>>
    BY <1>3 DEF AskFails
  <2>2. AlarmsTypeOK'
    BY <1>0, <2>1 DEF AlarmsTypeOK, rows
  <2> QED
    BY <1>0, <2>1, <2>2, Idle, SameEdit, RowsFrame
<1>4. CASE Advance
  <2>1. /\ clock < MaxTime /\ clock' = clock + 1
        /\ UNCHANGED <<rows, lifeRevision, receipts, tick, edit, ask, up>>
    BY <1>4 DEF Advance
  <2>2. clock' \in Moments /\ tick' <= clock' /\ clock <= clock'
    BY <1>0, <2>1, Bounds DEF Moments
  <2>3. AlarmsTypeOK'
    BY <1>0, <2>1, <2>2 DEF AlarmsTypeOK, rows
  <2> QED
    BY <1>0, <2>1, <2>2, <2>3, SameEdit, SameAsk, RowsFrame
<1>5. CASE Crash
  <2>1. /\ up' = FALSE /\ tick' = Never /\ edit' = Nothing /\ ask' = Nothing
        /\ UNCHANGED <<rows, lifeRevision, receipts, clock>>
    BY <1>5 DEF Crash
  <2>2. AlarmsTypeOK'
    BY <1>0, <2>1 DEF AlarmsTypeOK, rows
  <2> QED
    BY <1>0, <2>1, <2>2, Idle, RowsFrame
<1>6. CASE LifeRestarts
  <2>1. /\ up' = TRUE /\ UNCHANGED <<rows, lifeRevision, receipts, clock, tick, edit, ask>>
    BY <1>6 DEF LifeRestarts
  <2>2. AlarmsTypeOK'
    BY <1>0, <2>1 DEF AlarmsTypeOK, rows
  <2> QED
    BY <1>0, <2>1, <2>2, SameEdit, SameAsk, RowsFrame
<1>7. ASSUME NEW o \in Occurrences, AskBegin(o) PROVE AlarmsIInv'
  <2>1. /\ event[o].state \in Shown
        /\ ask' = [event |-> o, version |-> event[o].version, state |-> event[o].state,
                   now |-> clock]
        /\ UNCHANGED <<rows, lifeRevision, receipts, clock, tick, edit, up>>
    BY <1>7 DEF AskBegin
  <2>2. event[o].version \in Nat /\ clock \in Moments
    BY <1>0, RowIs DEF AlarmsTypeOK
  <2>3. /\ ask' \in [event: Occurrences, version: Nat, state: Shown, now: Moments]
        /\ ask'.event = o /\ ask'.version = event[o].version /\ ask'.state = event[o].state
    BY <2>1, <2>2
  <2>4. AlarmsTypeOK'
    BY <1>0, <2>1, <2>3 DEF AlarmsTypeOK, rows
  <2>5. Seen'
    BY <2>1, <2>2, <2>3 DEF Seen, rows, Shown
  <2> QED
    BY <1>0, <2>1, <2>4, <2>5, SameEdit, RowsFrame
<1> QED
  BY <1>1, <1>2, <1>3, <1>4, <1>5, <1>6, <1>7

LEMMA NextAlarms == AlarmsIInv /\ [AlarmsNext]_alarms => AlarmsIInv'
<1> SUFFICES ASSUME AlarmsIInv, [AlarmsNext]_alarms PROVE AlarmsIInv'
  OBVIOUS
<1>0. \A k \in Sent : k \in Keys
  BY DEF Sent
<1>1. ASSUME NEW a \in Alarms, NEW s \in Specs, NEW k \in Sent, Create(k, a, s) PROVE AlarmsIInv'
  BY <1>0, <1>1, CreateKeeps
<1>2. ASSUME NEW a \in Alarms, NEW s \in Specs, EditBegin(a, s) PROVE AlarmsIInv'
  BY <1>2, EditBeginKeeps
<1>3. ASSUME NEW a \in Alarms, Delete(a) PROVE AlarmsIInv'
  BY <1>3, DeleteKeeps
<1>4. ASSUME NEW k \in Sent, Acknowledge(k) \/ SnoozeIt(k) PROVE AlarmsIInv'
  BY <1>0, <1>4, AcknowledgeKeeps, SnoozeItKeeps
<1>5. CASE UNCHANGED alarms
  <2>1. /\ UNCHANGED <<rows, edit, ask, clock, tick>>
        /\ UNCHANGED <<alarm, spec, next, version, event, rung, lifeRevision, receipts, up>>
    BY <1>5 DEF alarms, rows
  <2>2. AlarmsTypeOK' /\ clock <= clock' /\ tick' <= clock'
    <3>1. clock <= clock /\ tick <= clock
      BY Bounds DEF AlarmsIInv, AlarmsTypeOK, Happened
    <3>2. AlarmsTypeOK'
      BY <2>1 DEF AlarmsIInv, AlarmsTypeOK
    <3> QED
      BY <2>1, <3>1, <3>2
  <2> QED
    BY <2>1, <2>2, SameEdit, SameAsk, RowsFrame
<1> QED
  BY <1>1, <1>2, <1>3, <1>4, <1>5, EditCommitKeeps, TickCommitKeeps, AsideKeeps DEF AlarmsNext

\* A display that sends back the current version saw the current state.
LEMMA Tells == AlarmsIInv => VersionTells
  BY DEF AlarmsIInv, Seen, VersionTells, CurrentAsk

\* Alarms ring when their schedule says, once and once per snooze, whatever
\* tick() and update_alarm() decided before their transactions, and an answer
\* of act() reaches the ring it was given for.
THEOREM AlarmsRight == AlarmsSpec => []AlarmsInv
<1>1. AlarmsIInv => AlarmsInv
  BY Tells DEF AlarmsIInv, AlarmsInv
<1> QED
  BY <1>1, InitAlarms, NextAlarms, PTL DEF AlarmsSpec

-----------------------------------------------------------------------------
(* Alarms: what every step keeps.                                          *)

\* A step that changes no occurrence.
LEMMA SameEvents ==
    ASSUME AlarmsIInv, UNCHANGED event
    PROVE  FinalStep /\ HistoryStep
<1>1. ASSUME NEW o \in Known
      PROVE  event[o].state # "gone" /\ event[o].snoozes >= event[o].snoozes
  <2>1. event[o] \in Row /\ event[o].state \notin {"none", "gone"}
    BY KnownIs DEF AlarmsIInv, AlarmsTypeOK
  <2>2. event[o].snoozes \in Nat
    BY <2>1, RowIs
  <2> QED
    BY <2>1, <2>2
<1> QED
  BY <1>1 DEF FinalStep, HistoryStep

LEMMA Bumped ==
    ASSUME AlarmsIInv, lifeRevision' = 1 - lifeRevision
    PROVE  RevisionStep
  BY DEF AlarmsIInv, AlarmsTypeOK, RevisionStep

\* An edit cancels what is shown, and only that.
LEMMA EditStep ==
    ASSUME AlarmsIInv, EditCommit
    PROVE  FinalStep /\ HistoryStep /\ RevisionStep
<1>1. /\ AlarmsTypeOK /\ edit.alarm \in Alarms /\ event' = Cancelled(edit.alarm)
      /\ lifeRevision' = 1 - lifeRevision
  BY DEF EditCommit, AlarmsIInv, AlarmsTypeOK, Bump
<1>2. ASSUME NEW o \in Known
      PROVE  /\ event'[o].state \in {event[o].state, "cancelled"}
             /\ event'[o].state = "cancelled" => event[o].state \in Shown \union {"cancelled"}
             /\ event'[o].snoozes >= event[o].snoozes
             /\ event'[o].state # "gone"
  <2>1. o \in Occurrences /\ event[o] \in Row /\ event[o].state \notin {"none", "gone"}
    BY <1>1, KnownIs DEF AlarmsTypeOK
  <2>2. event[o].snoozes \in Nat
    BY <2>1, RowIs
  <2>3. \/ event'[o] = event[o]
        \/ /\ event[o].state \in Shown /\ event'[o].state = "cancelled"
           /\ event'[o].snoozes = event[o].snoozes
    BY <1>1, <2>1, CancelledIs
  <2> QED
    BY <2>1, <2>2, <2>3
<1> QED
  BY <1>1, <1>2, Bumped DEF FinalStep, HistoryStep, Shown

LEMMA DeleteStep ==
    ASSUME AlarmsIInv, NEW a \in Alarms, Delete(a)
    PROVE  FinalStep /\ HistoryStep /\ RevisionStep
<1>1. /\ alarm' = [alarm EXCEPT ![a] = "deleted"]
      /\ event' = [o \in Occurrences |->
           IF o[1] = a /\ o \in Known THEN [NoEvent EXCEPT !.state = "gone"] ELSE event[o]]
      /\ lifeRevision' = 1 - lifeRevision
  BY DEF Delete, Bump
<1>2. ASSUME NEW o \in Known
      PROVE  \/ event'[o].state = "gone" /\ alarm'[o[1]] = "deleted"
             \/ /\ event'[o].state = event[o].state /\ event'[o].state # "gone"
                /\ event'[o].snoozes >= event[o].snoozes
  <2>1. /\ o \in Occurrences /\ event[o] \in Row /\ event[o].state \notin {"none", "gone"}
        /\ alarm \in [Alarms -> {"none", "live", "deleted"}]
    BY KnownIs DEF AlarmsIInv, AlarmsTypeOK
  <2>2. event[o].snoozes \in Nat
    BY <2>1, RowIs
  <2> QED
    BY <1>1, <2>1, <2>2, NoEventIs
<1> QED
  BY <1>1, <1>2, Bumped DEF FinalStep, HistoryStep

\* An answer changes an occurrence that is shown.
LEMMA AnswerStep ==
    ASSUME AlarmsIInv, NEW q \in Occurrences, event[q].state \in Shown,
           event' = [event EXCEPT ![q] = event'[q]],
           \/ event'[q].state = "acknowledged"
           \/ event[q].state = "ringing" /\ event'[q].state = "snoozed",
           event'[q].snoozes >= event[q].snoozes,
           lifeRevision' = 1 - lifeRevision
    PROVE  FinalStep /\ HistoryStep /\ RevisionStep
<1>1. ASSUME NEW o \in Known
      PROVE  /\ o # q => event'[o] = event[o]
             /\ event[o].state # "gone" /\ event'[o].state # "gone"
             /\ event'[o].snoozes >= event[o].snoozes
  <2>1. o \in Occurrences /\ event[o] \in Row /\ event[o].state \notin {"none", "gone"}
    BY KnownIs DEF AlarmsIInv, AlarmsTypeOK
  <2>2. event[o].snoozes \in Nat
    BY <2>1, RowIs
  <2>3. o # q => event'[o] = event[o]
    BY <2>1 DEF AlarmsIInv, AlarmsTypeOK
  <2> QED
    BY <2>1, <2>2, <2>3
<1> QED
  BY <1>1, Bumped DEF FinalStep, HistoryStep, Shown

\* A round moves what is due one stage on, and trims the history to what is
\* recent or may still sound.
LEMMA RoundStep ==
    ASSUME AlarmsIInv, TickCommit
    PROVE  FinalStep /\ HistoryStep /\ RevisionStep
<1>0. tick # Never
  BY DEF TickCommit
<1>1. ASSUME NEW o \in Known
      PROVE  /\ o \in Occurrences
             /\ event'[o] = Ticked[o] \/ event'[o].state = "gone"
             /\ \/ Ticked[o] = event[o]
                \/ event[o].state = "ringing" /\ Ticked[o].state = "missed"
                \/ event[o].state = "snoozed" /\ Ticked[o].state \in {"ringing", "missed"}
             /\ Ticked[o].snoozes >= event[o].snoozes
             /\ Ticked[o] \in Row
  <2>1. o \in Occurrences /\ event[o] \in Row
    BY KnownIs DEF AlarmsIInv, AlarmsTypeOK
  <2>2. event[o].snoozes \in Nat
    BY <2>1, RowIs
  <2>3. /\ Ticked[o] \in Row
        /\ \/ Ticked[o] = event[o]
           \/ /\ event[o].state = "ringing" /\ Ticked[o].state = "missed"
              /\ Ticked[o].snoozes = event[o].snoozes
           \/ /\ event[o].state = "snoozed" /\ Ticked[o].state \in {"ringing", "missed"}
              /\ Ticked[o].snoozes = event[o].snoozes
    BY <1>0, <2>1, TickedIs
  <2>4. event'[o] = Ticked[o] \/ event'[o].state = "gone"
    BY <2>1, RoundIs
  <2> QED
    BY <2>1, <2>2, <2>3, <2>4
<1>2. FinalStep
  BY <1>1 DEF FinalStep
<1>3. HistoryStep
  <2> SUFFICES ASSUME NEW o \in Known, event'[o].state = "gone"
               PROVE  /\ event[o].state \in {"ringing", "snoozed"} => Ticked[o].state = "missed"
                      /\ Cardinality({p \in Occurrences \ {o} :
                           event'[p].state \notin {"none", "gone"} /\ p[2] >= o[2]}) >= MaxEvents
    BY DEF HistoryStep
  <2> DEFINE all == {p \in Occurrences : Ticked[p].state \notin {"none", "gone"}}
             later == {p \in Occurrences \ {o} :
                         event'[p].state \notin {"none", "gone"} /\ p[2] >= o[2]}
  <2>1. PICK keep \in Retained(Ticked) :
           event' = [p \in Occurrences |->
             IF Ticked[p].state \in {"none", "gone"} \/ p \in keep THEN Ticked[p]
             ELSE [NoEvent EXCEPT !.state = "gone"]]
    BY DEF TickCommit
  <2>2. PICK r \in SUBSET all :
           /\ Cardinality(r) = IF Cardinality(all) < MaxEvents THEN Cardinality(all) ELSE MaxEvents
           /\ \A p \in r, u \in all \ r : p[2] >= u[2]
           /\ keep = r \union {p \in all : Ticked[p].state \in {"ringing", "snoozed"}}
    BY <2>1 DEF Retained
  <2>3. event[o].state \notin {"none", "gone"} /\ o \in Occurrences
    BY KnownIs
  <2>4. o \in all
    BY <1>1, <2>3
  <2>5. o \notin keep
    <3>1. o \in keep => event'[o] = Ticked[o]
      BY <2>1, <2>3
    <3> QED
      BY <2>4, <3>1
  <2>6. o \in all \ r /\ Ticked[o].state \notin {"ringing", "snoozed"}
    BY <2>2, <2>4, <2>5
  <2>7. event[o].state \in {"ringing", "snoozed"} => Ticked[o].state = "missed"
    BY <1>1, <2>6
  <2>8. IsFiniteSet(Occurrences)
    <3>1. IsFiniteSet(Alarms) /\ IsFiniteSet(Moments)
      <4>1. IsFiniteSet(0..MaxTime)
        BY Bounds, FS_Interval
      <4> QED
        BY <4>1, AlarmAssumption DEF Moments
    <3> QED
      BY <3>1, FS_Product DEF Occurrences
  <2>9. r \subseteq later
    <3> SUFFICES ASSUME NEW p \in r PROVE p \in later
      OBVIOUS
    <3>1. p \in Occurrences /\ p # o /\ p[2] >= o[2] /\ Ticked[p].state \notin {"none", "gone"}
      BY <2>2, <2>6
    <3>2. event'[p] = Ticked[p]
      BY <2>1, <2>2, <3>1
    <3> QED
      BY <3>1, <3>2
  <2>10. IsFiniteSet(all) /\ IsFiniteSet(later) /\ IsFiniteSet(r)
    <3>1. all \subseteq Occurrences /\ later \subseteq Occurrences /\ r \subseteq Occurrences
      OBVIOUS
    <3> QED
      BY <2>8, <3>1, FS_Subset
  <2> HIDE DEF all, later
  <2>11. Cardinality(r) = MaxEvents
    <3>1. r # all /\ r \subseteq all
      BY <2>6
    <3>2. Cardinality(r) # Cardinality(all)
      BY <2>10, <3>1, FS_Subset
    <3> QED
      BY <2>2, <3>2
  <2>12. Cardinality(later) >= MaxEvents
    <3>1. Cardinality(r) <= Cardinality(later)
      BY <2>9, <2>10, FS_Subset
    <3>2. Cardinality(later) \in Nat /\ MaxEvents \in Nat
      BY <2>10, FS_CardinalityType, Bounds
    <3> QED
      BY <2>11, <3>1, <3>2
  <2> QED
    BY <2>7, <2>12 DEF later
<1>4. RevisionStep
  <2>1. CASE event' # event \/ Firing # {}
    BY <2>1, Bumped DEF TickCommit, Bump
  <2>2. CASE event' = event /\ Firing = {}
    <3>1. /\ spec' = [a \in Alarms |-> spec[a]]
          /\ next' = [a \in Alarms |-> next[a]]
          /\ version' = [a \in Alarms |-> version[a]]
          /\ alarm' = alarm
      BY <2>2 DEF TickCommit
    <3>2. UNCHANGED <<alarm, spec, next, version, event>>
      BY <2>2, <3>1 DEF AlarmsIInv, AlarmsTypeOK
    <3> QED
      BY <3>2 DEF RevisionStep
  <2> QED
    BY <2>1, <2>2
<1> QED
  BY <1>2, <1>3, <1>4

LEMMA StandStep ==
    ASSUME AlarmsIInv, AlarmsNext
    PROVE  FinalStep /\ HistoryStep /\ RevisionStep
<1>0. AlarmsTypeOK /\ \A k \in Sent : k \in Keys
  BY DEF AlarmsIInv, Sent
<1>1. ASSUME NEW a \in Alarms, NEW s \in Specs, NEW k \in Sent, Create(k, a, s)
      PROVE  FinalStep /\ HistoryStep /\ RevisionStep
  BY <1>1, SameEvents, Bumped DEF Create, Receipt, Bump
<1>2. ASSUME UNCHANGED rows
      PROVE  FinalStep /\ HistoryStep /\ RevisionStep
  BY <1>2, SameEvents DEF rows, RevisionStep
<1>3. ASSUME NEW a \in Alarms, NEW s \in Specs, EditBegin(a, s)
      PROVE  FinalStep /\ HistoryStep /\ RevisionStep
  BY <1>2, <1>3 DEF EditBegin
<1>4. ASSUME NEW o \in Occurrences, AskBegin(o)
      PROVE  FinalStep /\ HistoryStep /\ RevisionStep
  BY <1>2, <1>4 DEF AskBegin
<1>5. CASE EditFails \/ TickRead \/ TickFails \/ AskFails \/ Advance \/ Crash \/ LifeRestarts
  BY <1>2, <1>5 DEF EditFails, TickRead, TickFails, AskFails, Advance, Crash, LifeRestarts
<1>6. ASSUME NEW k \in Sent, Acknowledge(k) \/ SnoozeIt(k)
      PROVE  FinalStep /\ HistoryStep /\ RevisionStep
  <2> DEFINE q == ask.event
             r == event[q]
  <2>1. q \in Occurrences /\ r \in Row
    BY <1>0, <1>6, KnownIs DEF Acknowledge, SnoozeIt, CurrentAsk, AlarmsTypeOK
  <2>2. r.snoozes \in Nat
    BY <2>1, RowIs
  <2>3. Acknowledged(r).snoozes = r.snoozes /\ Snoozed(r).snoozes = r.snoozes + 1
    BY <2>1 DEF Acknowledged, Snoozed, Row
  <2>4. Acknowledged(r).state = "acknowledged" /\ Snoozed(r).state = "snoozed"
    BY <2>1 DEF Acknowledged, Snoozed, Row
  <2>5. /\ lifeRevision' = 1 - lifeRevision
        /\ r.state \in Shown
        /\ \/ event' = [event EXCEPT ![q] = Acknowledged(r)]
           \/ event' = [event EXCEPT ![q] = Snoozed(r)] /\ r.state = "ringing"
    BY <1>6 DEF Acknowledge, SnoozeIt, MaySnooze, Receipt, Bump, Shown
  <2> HIDE DEF q
  <2>6. event'[q] \in {Acknowledged(r), Snoozed(r)} /\ event' = [event EXCEPT ![q] = event'[q]]
    BY <1>0, <2>1, <2>5 DEF AlarmsTypeOK
  <2>7. /\ \/ event'[q].state = "acknowledged"
           \/ event[q].state = "ringing" /\ event'[q].state = "snoozed"
        /\ event'[q].snoozes >= event[q].snoozes
    BY <1>0, <2>1, <2>2, <2>3, <2>4, <2>5 DEF AlarmsTypeOK
  <2> QED
    BY <2>1, <2>5, <2>6, <2>7, AnswerStep
<1>7. ASSUME NEW a \in Alarms, Delete(a)
      PROVE  FinalStep /\ HistoryStep /\ RevisionStep
  BY <1>7, DeleteStep
<1> QED
  BY <1>1, <1>3, <1>4, <1>5, <1>6, <1>7, EditStep, RoundStep DEF AlarmsNext

\* What was answered (act()) or cancelled (update_alarm()) stands, tick() takes
\* nothing from the history that may still sound or is recent, and every change
\* a screen could show moves the revision (bump()).
THEOREM AlarmsLast == AlarmsSpec => AlarmsStand
<1>1. AlarmsIInv /\ [AlarmsNext]_alarms => [FinalStep /\ HistoryStep /\ RevisionStep]_alarms
  BY StandStep
<1> QED
  BY <1>1, InitAlarms, NextAlarms, PTL DEF AlarmsSpec, AlarmsStand

=============================================================================
