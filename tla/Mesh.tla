-------------------------------- MODULE Mesh --------------------------------
(***************************************************************************)
(* Two nodes of a VoleNet that find each other, keep one socket between    *)
(* them and agree on a leader: src/src/volenet/src/transport.ts,           *)
(* discovery.ts and leader.ts, with the announcements of index.ts.         *)
(*                                                                         *)
(* Either node may dial, so that two sockets can appear at once; each end  *)
(* of a socket learns of its opening and closing by events of its own, a   *)
(* cut is noticed by the ping timer only, and a dial outlives the peer     *)
(* entry it was made for.  What leader.ts does with heartbeats ends in the *)
(* election that its monitor holds at every tick anyway (leader.ts:227),   *)
(* so heartbeats are left out.                                             *)
(***************************************************************************)
EXTENDS Naturals, FiniteSets

CONSTANTS
  Node,       \* two ids
  MaxSockets, \* bound: sockets at a time, those included that are closing
  MaxTries,   \* WS_RECONNECT_MAX_RETRIES
  MaxFaults   \* bound: crashes, stops and connections that break without a sign

ASSUME NodeAssumption == Node \subseteq Nat \ {0} /\ IsFiniteSet(Node) /\ Cardinality(Node) = 2
ASSUME MeshAssumption == MaxSockets \in Nat \ {0} /\ MaxTries \in Nat /\ MaxFaults \in Nat

VARIABLES
  reach,   \* the nodes that can be dialled; their url is configured at the other
  up,      \* the nodes whose process runs
  sock,    \* the sockets, with the state of both ends
  entry,   \* transport.peers: what a node keeps of the other
  inst,    \* the nodes whose discovery knows the other
  old,     \* those of them that have not heard of it for PEER_TIMEOUT_MS
  faults   \* counter of the bound

meshVars == <<reach, up, sock, entry, inst, old, faults>>

Socket == 1..MaxSockets
None == 0

Other(n) == CHOOSE m \in Node : m # n
Lowest(S) == CHOOSE n \in S : \A m \in S : n <= m

\* said: the dialer has sent a message on it; stale: the dialer's peer entry is
\* not the one it was dialled for.
Free == [dialer |-> None, end |-> [n \in Node |-> "none"], said |-> FALSE, cut |-> FALSE, stale |-> FALSE]
Dialled(n) == [Free EXCEPT !.dialer = n, !.end[n] = "connecting"]

NoEntry == [known |-> FALSE, ws |-> None, addr |-> FALSE, connecting |-> FALSE, timer |-> FALSE, tries |-> 0]

Live(n, s) == sock[s].end[n] \in {"new", "open"}
Acceptor(s) == Other(sock[s].dialer)
Used(s) == sock[s].dialer # None

\* A socket is forgotten when it is closed at both ends.
Tidy(r) == IF \A n \in Node : r.end[n] \in {"none", "closed"} THEN Free ELSE r

Ended(s, n, state) == Tidy([sock[s] EXCEPT !.end[n] = state])

MeshInit ==
  /\ reach \in (SUBSET Node) \ {{}}
  /\ up = Node
  /\ sock = [s \in Socket |-> Free]
  /\ entry = [n \in Node |-> NoEntry]
  /\ inst = {} /\ old = {}
  /\ faults = 0

-----------------------------------------------------------------------------
\* Dialling.

MayDial(e) == e.known /\ e.addr /\ ~e.connecting /\ e.ws = None

FreeSocket == CHOOSE s \in Socket : ~Used(s)

\* connectWebSocket, for an entry that has just become e.
Dial(n, e) ==
  /\ \E s \in Socket : ~Used(s)
  /\ entry' = [entry EXCEPT ![n] = [e EXCEPT !.connecting = TRUE]]
  /\ sock' = [sock EXCEPT ![FreeSocket] = Dialled(n)]

DialIfNeeded(n, e) ==
  IF MayDial(e) THEN Dial(n, e) ELSE entry' = [entry EXCEPT ![n] = e] /\ UNCHANGED sock

\* addPeer: a peer that announces itself again starts its retries afresh.
AddPeer(n) == DialIfNeeded(n, [entry[n] EXCEPT !.known = TRUE, !.addr = TRUE, !.tries = 0])

\* scheduleReconnect.
Rescheduled(e) ==
  IF ~e.known \/ e.timer \/ e.tries >= MaxTries THEN e
  ELSE [e EXCEPT !.timer = TRUE, !.tries = @ + 1]

Reconnect(n) ==
  /\ n \in up /\ entry[n].timer
  /\ DialIfNeeded(n, [entry[n] EXCEPT !.timer = FALSE])
  /\ UNCHANGED <<reach, up, inst, old, faults>>

Accept(s) ==
  /\ Used(s) /\ sock[s].end[sock[s].dialer] = "connecting" /\ sock[s].end[Acceptor(s)] = "none"
  /\ Acceptor(s) \in up \cap reach /\ ~sock[s].cut
  /\ sock' = [sock EXCEPT ![s].end[Acceptor(s)] = "new"]
  /\ UNCHANGED <<reach, up, entry, inst, old, faults>>

-----------------------------------------------------------------------------
\* One socket per pair.

\* Mutant: the newest socket wins.
KeepsNone(n, s, dialled) == FALSE

\* adopt keeps the socket it has: of two, both sides keep the smaller id's dial.
KeepsOld(n, s, dialled) ==
  /\ entry[n].ws \notin {None, s}
  /\ IF n < Other(n) THEN ~dialled ELSE dialled

\* Mutant: the socket that is replaced stays open.
AdoptedWithoutDrop(n, s) == [sock EXCEPT ![s].end[n] = "open"]

\* What becomes of the sockets when n takes s for its own.
Adopted(n, s) ==
  [r \in Socket |->
    IF r = s THEN [sock[r] EXCEPT !.end[n] = "open"]
    ELSE IF r = entry[n].ws THEN Ended(r, n, "closing") ELSE sock[r]]

\* The dialer's open event.  A socket that is taken gets a ping at once; a dial
\* whose entry is gone stays open, and nothing is ever sent on it.
Opens(s) ==
  LET n == sock[s].dialer IN
  /\ Used(s) /\ sock[s].end[n] = "connecting" /\ sock[s].end[Acceptor(s)] # "none"
  /\ IF sock[s].stale
     THEN sock' = [sock EXCEPT ![s].end[n] = "open"] /\ UNCHANGED entry
     ELSE LET e == [entry[n] EXCEPT !.connecting = FALSE, !.tries = 0] IN
          IF KeepsOld(n, s, TRUE)
          THEN entry' = [entry EXCEPT ![n] = e] /\ sock' = [sock EXCEPT ![s].end[n] = "closing"]
          ELSE /\ entry' = [entry EXCEPT ![n] = [e EXCEPT !.ws = s]]
               /\ sock' = [Adopted(n, s) EXCEPT ![s].said = TRUE]
  /\ UNCHANGED <<reach, up, inst, old, faults>>

\* The first verified message binds an accepted socket to its peer.
Binds(s) ==
  LET n == Acceptor(s) IN
  /\ Used(s) /\ sock[s].end[n] = "new" /\ sock[s].said /\ ~sock[s].cut
  /\ IF KeepsOld(n, s, FALSE)
     THEN sock' = [sock EXCEPT ![s].end[n] = "closing"] /\ UNCHANGED entry
     ELSE /\ entry' = [entry EXCEPT ![n].known = TRUE, ![n].ws = s]
          /\ sock' = Adopted(n, s)
  /\ old' = old \ {n}
  /\ UNCHANGED <<reach, up, inst, faults>>

\* An accepted socket that says nothing is closed; a dialer that nothing has cut
\* off is in time.
AuthTimeout(s) ==
  /\ Used(s) /\ sock[s].end[Acceptor(s)] = "new" /\ ~sock[s].said
  /\ sock[s].cut \/ sock[s].end[sock[s].dialer] # "connecting"
  /\ sock' = [sock EXCEPT ![s].end[Acceptor(s)] = "closing"]
  /\ UNCHANGED <<reach, up, entry, inst, old, faults>>

-----------------------------------------------------------------------------
\* Closing.

LetGo(n, s) == [entry[n] EXCEPT !.ws = IF @ = s THEN None ELSE @]

\* The close event of a dialled socket reconnects whichever socket it was; that
\* of an accepted one only if it was the peer's.
AfterClose(n, s) ==
  IF sock[s].dialer = n
  THEN Rescheduled([LetGo(n, s) EXCEPT !.connecting = IF sock[s].stale THEN @ ELSE FALSE])
  ELSE IF entry[n].ws = s THEN Rescheduled(LetGo(n, s)) ELSE entry[n]

\* An end closes after its own close(), after the other end, or when a ping gets
\* no answer.
Closes(n, s) ==
  /\ n \in up /\ Used(s)
  /\ \/ sock[s].end[n] = "closing"
     \/ Live(n, s) /\ (sock[s].cut \/ sock[s].end[Other(n)] \in {"closing", "closed"})
  /\ entry' = [entry EXCEPT ![n] = AfterClose(n, s)]
  /\ sock' = [sock EXCEPT ![s] = Ended(s, n, "closed")]
  /\ UNCHANGED <<reach, up, inst, old, faults>>

DialFails(s) ==
  LET n == sock[s].dialer IN
  /\ Used(s) /\ sock[s].end[n] = "connecting"
  /\ sock[s].cut \/ sock[s].end[Acceptor(s)] = "closed" \/ Acceptor(s) \notin up \cap reach
  /\ entry' = [entry EXCEPT ![n] = AfterClose(n, s)]
  /\ sock' = [sock EXCEPT ![s] = Ended(s, n, "closed")]
  /\ UNCHANGED <<reach, up, inst, old, faults>>

Cut(s) ==
  /\ faults < MaxFaults /\ faults' = faults + 1
  /\ Used(s) /\ ~sock[s].cut
  /\ sock' = [sock EXCEPT ![s].cut = TRUE]
  /\ UNCHANGED <<reach, up, entry, inst, old>>

-----------------------------------------------------------------------------
\* Discovery and the leader.

\* A verified discover or discover:response of the other node.
Discovers(n) ==
  /\ inst' = inst \cup {n} /\ old' = old \ {n}
  /\ AddPeer(n)
  /\ UNCHANGED <<reach, up, faults>>

\* connectToPeer, every 15 s, and the answer in the response: a node whose
\* announcement the other has taken in discovers it, or the response is lost.
Announce(n) == {n, Other(n)} \subseteq up /\ Other(n) \in reach /\ Discovers(Other(n))

Responds(n) == {n, Other(n)} \subseteq up /\ Other(n) \in reach \cap inst /\ Discovers(n)

\* sendToPeer: the socket if there is one, else an HTTP request.
Path(m, n) ==
  /\ {m, n} \subseteq up /\ entry[m].known
  /\ LET s == entry[m].ws IN
     IF s = None THEN entry[m].addr /\ n \in reach ELSE ~sock[s].cut /\ Live(n, s)

\* Pings come of those that know this node, pongs of those it reaches.
Hears(n) == Path(Other(n), n) /\ (Other(n) \in inst \/ Path(n, Other(n)))

\* Nothing is under way that would let the nodes hear of each other: a handshake,
\* a close or a reconnect of nodes that run takes less than PEER_TIMEOUT_MS.
Quiet ==
  /\ \A s \in Socket : Used(s) /\ ~sock[s].cut => \A n \in Node : sock[s].end[n] \in {"open", "none"}
  /\ \A n \in Node : ~entry[n].timer

\* PEER_TIMEOUT_MS without a ping or pong.
Silence(n) ==
  /\ n \in (up \cap inst) \ old /\ ~Hears(n)
  /\ Other(n) \in up => Quiet
  /\ old' = old \cup {n}
  /\ UNCHANGED <<reach, up, sock, entry, inst, faults>>

Ping(n) ==
  /\ n \in old /\ Hears(n)
  /\ old' = old \ {n}
  /\ UNCHANGED <<reach, up, sock, entry, inst, faults>>

\* Mutant: a peer that timed out is pinged again instead.
HealthCheckKeepsPeer(n) ==
  /\ n \in up \cap old /\ old' = old \ {n}
  /\ UNCHANGED <<reach, up, sock, entry, inst, faults>>

\* healthCheck: a peer that timed out is removed with its socket; a dial in
\* progress goes on.  No election follows until the monitor's next tick.
HealthCheck(n) ==
  /\ n \in up \cap old
  /\ inst' = inst \ {n} /\ old' = old \ {n}
  /\ entry' = [entry EXCEPT ![n] = NoEntry]
  /\ sock' = [s \in Socket |->
       LET r == IF s = entry[n].ws THEN Ended(s, n, "closing") ELSE sock[s] IN
       IF r.dialer = n THEN [r EXCEPT !.stale = TRUE] ELSE r]
  /\ UNCHANGED <<reach, up, faults>>

\* electLeader; it runs on every discovery and every tick of the monitor, so
\* that leaderId is this but for the time between two ticks.
Elects(n) == Lowest({n} \cup {m \in {Other(n)} : n \in inst})

-----------------------------------------------------------------------------
\* A process ends, by a crash or by stop(); what it knew is gone.
Stop(n) ==
  /\ faults < MaxFaults /\ faults' = faults + 1
  /\ n \in up /\ up' = up \ {n}
  /\ sock' = [s \in Socket |-> IF sock[s].end[n] = "none" THEN sock[s] ELSE Ended(s, n, "closed")]
  /\ entry' = [entry EXCEPT ![n] = NoEntry]
  /\ inst' = inst \ {n} /\ old' = old \ {n}
  /\ UNCHANGED reach

Restart(n) ==
  /\ n \notin up /\ up' = up \cup {n}
  /\ UNCHANGED <<reach, sock, entry, inst, old, faults>>

SocketStep(s) == Accept(s) \/ Opens(s) \/ Binds(s) \/ AuthTimeout(s) \/ DialFails(s)
NodeStep(n) == Silence(n) \/ Ping(n) \/ HealthCheck(n)

MeshNext ==
  \/ \E s \in Socket : SocketStep(s) \/ Cut(s) \/ \E n \in Node : Closes(n, s)
  \/ \E n \in Node : NodeStep(n) \/ Announce(n) \/ Responds(n) \/ Reconnect(n) \/ Stop(n) \/ Restart(n)

\* Events are delivered and timers fire, and not every answer to an announcement
\* is lost.  A node that stopped may stay down.
MeshFairness ==
  /\ \A s \in Socket : WF_meshVars(SocketStep(s)) /\ \A n \in Node : WF_meshVars(Closes(n, s))
  /\ \A n \in Node : /\ WF_meshVars(Silence(n)) /\ WF_meshVars(Ping(n)) /\ WF_meshVars(HealthCheck(n))
                     /\ WF_meshVars(Announce(n)) /\ SF_meshVars(Responds(n)) /\ WF_meshVars(Reconnect(n))

MeshSpec == MeshInit /\ [][MeshNext]_meshVars /\ MeshFairness

-----------------------------------------------------------------------------
EndState == {"none", "connecting", "new", "open", "closing", "closed"}
SocketState == [dialer : Node \cup {None}, end : [Node -> EndState], said : BOOLEAN, cut : BOOLEAN, stale : BOOLEAN]
EntryState == [known : BOOLEAN, ws : Socket \cup {None}, addr : BOOLEAN, connecting : BOOLEAN,
               timer : BOOLEAN, tries : 0..MaxTries]

MeshTypeOK ==
  /\ reach \subseteq Node /\ up \subseteq Node
  /\ sock \in [Socket -> SocketState] /\ entry \in [Node -> EntryState]
  /\ inst \subseteq up /\ old \subseteq inst
  /\ faults \in 0..MaxFaults

Settled(s) == \A n \in Node : sock[s].end[n] \in {"none", "open"} /\ ~sock[s].cut

\* However dials, messages and closes of the two nodes crossed: when all of them
\* have arrived, at most one socket is open, and both nodes hold that one.
OneSocketPerPair ==
  (\A s \in Socket : Settled(s)) =>
    \A s \in Socket : Used(s) => \A n \in Node : entry[n].ws = s

Linked ==
  \E s \in Socket \ {None} : ~sock[s].cut /\ \A n \in Node : entry[n].ws = s /\ sock[s].end[n] = "open"

\* After the last cut, stop or restart two running nodes get to one socket that
\* both hold, and keep it: neither drops the socket that the other chose.
LinkForms == <>[](up = Node => Linked)

\* After the last of them every running node takes the lowest running node for
\* the leader: a dead leader is replaced, one that comes back leads again.
OneLeader == <>[](\A n \in up : Elects(n) = Lowest(up))

-----------------------------------------------------------------------------
(* Why OneSocketPerPair holds: what the proof needs besides.               *)

\* What a socket in use looks like from its two ends.
Shape(r) ==
  IF r.dialer = None THEN r = Free
  ELSE LET d == r.end[r.dialer]  a == r.end[Other(r.dialer)] IN
       /\ d \in {"connecting", "open", "closing", "closed"} /\ a # "connecting"
       /\ d = "connecting" => ~r.said
       /\ d = "open" => a # "none"
       /\ a = "open" => r.said
       /\ d = "closed" => a \notin {"none", "closed"}

SocketShape == \A s \in Socket : Shape(sock[s])

\* A node's entry names a socket that is open at that node, and every socket that
\* is open at a node is the one its entry names, but for a dial that opened when
\* its entry was gone: on such a one nothing was ever said.
OpenIsHeld == \A n \in Node : \A s \in Socket :
  /\ entry[n].ws = s => sock[s].end[n] = "open"
  /\ sock[s].end[n] = "open" => entry[n].ws = s \/ (sock[s].dialer = n /\ ~sock[s].said)

\* The inductive invariant.
MeshInv == MeshTypeOK /\ SocketShape /\ OpenIsHeld
=============================================================================
