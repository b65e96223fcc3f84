------------------------------ MODULE ChatRelay ------------------------------
(***************************************************************************)
(* Sealed chat through a relay hub (src/src/volenet/src/index.ts) and the  *)
(* outbox where the sender keeps what the hub could not forward            *)
(* (chat-outbox.ts): one sender, one hub, several members.                 *)
(*                                                                         *)
(* The links are ordered.  A message sent, or sent again from the outbox,  *)
(* carries a fresh reference; since one message never waits for two        *)
(* verdicts, an envelope or verdict has only the message and whether       *)
(* somebody still waits for it.  Members have consented to the sender, and *)
(* an envelope that reaches a member is shown.                             *)
(*                                                                         *)
(* The outbox is written to a temporary file that is then renamed, by      *)
(* every change on its own and without waiting for the others.             *)
(***************************************************************************)
EXTENDS Naturals, Sequences, SequencesExt

CONSTANTS
  Messages,   \* how many messages the user writes, numbered in that order
  Member,     \* the members of the hub
  To,         \* the member each message is for
  MaxTurns,   \* bound: connections made and broken
  MaxTrouble  \* bound: refusals, timeouts, expiries, broken links and restarts

Message == 1..Messages
ASSUME RelayAssumption == Messages \in Nat /\ To \in [Message -> Member]
                            /\ MaxTurns \in Nat /\ MaxTrouble \in Nat

VARIABLES
  conn,    \* a member's connection to the hub: dead while the hub has not noticed its loss
  due,     \* the hub's timer for the next roster runs
  up,      \* envelopes under way to the hub
  down,    \* verdicts and rosters under way to the sender
  roster,  \* the members the sender last heard are connected
  st,      \* what has become of each message for the user who sent it
  verdict, \* the verdict that has settled the wait for a message
  outbox,  \* messages that wait, in order (ChatOutbox.entries)
  flush,   \* flushChatOutbox: what is left of the list, who is away, where it stands
  writer,  \* each persist in progress: of a message's add, or (0) of the flush
  file,    \* the outbox file
  seen,    \* what each member was shown, in order
  turns, trouble, \* counters of the bounds
  past     \* history, see below

vars == <<conn, due, up, down, roster, st, verdict, outbox, flush, writer, file, seen, turns, trouble, past>>

Status == {"unwritten", "sent", "adding", "queued", "delivered", "assumed", "refused", "failed", "unknown"}
Verdict == {"ack", "held", "error", "timeout"}
Torn == <<0>> \* a file that is not JSON
Write == 0..Messages
Idle == [pc |-> "idle", list |-> << >>, away |-> {}, cur |-> 0]
NoWrite == [on |-> FALSE, val |-> << >>, shared |-> FALSE]

Init ==
  /\ conn \in [Member -> {"on", "off"}] /\ due = TRUE
  /\ up = << >> /\ down = << >>
  /\ roster = {}
  /\ st = [i \in Message |-> "unwritten"] /\ verdict = [i \in Message |-> "none"]
  /\ outbox = << >> /\ flush = Idle
  /\ writer = [w \in Write |-> NoWrite]
  /\ file = << >>
  /\ seen = [m \in Member |-> << >>]
  /\ turns = 0 /\ trouble = 0
  /\ past = [doubt |-> {}, ended |-> {}, raced |-> FALSE, missed |-> FALSE, ahead |-> {}]

Trouble == trouble < MaxTrouble /\ trouble' = trouble + 1
Turn == turns < MaxTurns /\ turns' = turns + 1

Envelope(i) == [of |-> i, live |-> TRUE]

\* Who waits for the verdict on i: nobody, once it has timed out.
Dead(q, i) == [k \in DOMAIN q |-> IF "of" \in DOMAIN q[k] /\ q[k].of = i THEN [q[k] EXCEPT !.live = FALSE] ELSE q[k]]

\* What a filter keeps of a list: those of S, in their order.
Filtered(s, S) ==
  LET f[n \in 0..Len(s)] == IF n = 0 THEN << >>
                            ELSE IF s[n] \in S THEN Append(f[n - 1], s[n]) ELSE f[n - 1]
  IN  f

Kept(s, S) == Filtered(s, S)[Len(s)]

-----------------------------------------------------------------------------
\* The outbox file.  A write on its own replaces the file at its end, by the
\* rename.  Writes that overlap share the temporary file: what is renamed is the
\* text of the one, or no text at all where the other was at it, and the second
\* to rename finds nothing to rename.

Writing == {w \in Write : writer[w].on}

\* A change of the outbox starts a write of what it then holds; writes that have
\* not come that far refer to the same array, and may write the change as well.
Persisted(w, entries) ==
  writer' = [x \in Write |-> IF x = w THEN [on |-> TRUE, val |-> entries, shared |-> Writing # {}]
                             ELSE [writer[x] EXCEPT !.shared = writer[x].on]]

Renamed(w) ==
  /\ writer[w].on
  /\ \/ file' = writer[w].val
     \/ writer[w].shared /\ file' \in {file, Torn} \cup {writer[x].val : x \in Writing}
  /\ writer' = [writer EXCEPT ![w] = NoWrite]

Throws(w) == writer[w].on /\ writer[w].shared /\ writer' = [writer EXCEPT ![w] = NoWrite]

\* The end of an add: the user is told that the message waits, or gets an error
\* although it does.
AddEnds(i) ==
  /\ \/ Renamed(i) /\ st' = [st EXCEPT ![i] = "queued"]
     \/ Throws(i) /\ st' = [st EXCEPT ![i] = "failed"] /\ UNCHANGED file
  /\ UNCHANGED <<conn, due, up, down, roster, verdict, outbox, flush, seen, turns, trouble, past>>

-----------------------------------------------------------------------------
\* The members and the hub.

\* Mutant: the roster goes out only when somebody leaves.
ConnectsQuietly(m) ==
  /\ Turn /\ conn[m] # "on"
  /\ conn' = [conn EXCEPT ![m] = "on"]
  /\ UNCHANGED <<due, up, down, roster, st, verdict, outbox, flush, writer, file, seen, trouble, past>>

Connects(m) ==
  /\ Turn /\ conn[m] # "on"
  /\ conn' = [conn EXCEPT ![m] = "on"] /\ due' = TRUE
  /\ UNCHANGED <<up, down, roster, st, verdict, outbox, flush, writer, file, seen, trouble, past>>

\* The connection breaks: at once for the hub, or only once a send or the
\* liveness check of the transport has failed.
Disconnects(m) ==
  /\ Turn /\ conn[m] = "on"
  /\ \/ conn' = [conn EXCEPT ![m] = "off"] /\ due' = TRUE
     \/ conn' = [conn EXCEPT ![m] = "dead"] /\ UNCHANGED due
  /\ UNCHANGED <<up, down, roster, st, verdict, outbox, flush, writer, file, seen, trouble, past>>

Noticed(m) ==
  /\ conn[m] = "dead"
  /\ conn' = [conn EXCEPT ![m] = "off"] /\ due' = TRUE
  /\ UNCHANGED <<up, down, roster, st, verdict, outbox, flush, writer, file, seen, turns, trouble, past>>

BroadcastRoster ==
  /\ due
  /\ due' = FALSE
  /\ down' = Append(down, [on |-> {m \in Member : conn[m] # "off"}])
  /\ UNCHANGED <<conn, up, roster, st, verdict, outbox, flush, writer, file, seen, turns, trouble, past>>

Says(v, e) == down' = Append(down, [verdict |-> v, of |-> e.of, live |-> e.live])

\* The hub's handler of a sealed envelope: too large or too many, no such member
\* connected, or forwarded.  A send to a dead connection may succeed.
Forward ==
  /\ up # << >>
  /\ up' = Tail(up)
  /\ LET e == Head(up)  m == To[e.of] IN
     \/ /\ Trouble /\ Says("error", e)
        /\ UNCHANGED <<seen, past>>
     \/ /\ conn[m] # "on" /\ Says("held", e)
        /\ UNCHANGED <<seen, past, trouble>>
     \/ /\ conn[m] = "dead" /\ Says("ack", e)
        /\ past' = [past EXCEPT !.doubt = @ \cup {e.of}]
        /\ UNCHANGED <<seen, trouble>>
     \/ /\ conn[m] = "on" /\ Says("ack", e)
        /\ seen' = [seen EXCEPT ![m] = Append(@, e.of)]
        /\ UNCHANGED <<past, trouble>>
  /\ UNCHANGED <<conn, due, roster, st, verdict, outbox, flush, writer, file, turns>>

-----------------------------------------------------------------------------
\* The sender: a message written now.

\* sendChatViaRelay up to the wait for the verdict.
SendChat(i) ==
  /\ st[i] = "unwritten" /\ \A j \in 1..i - 1 : st[j] # "unwritten"
  /\ st' = [st EXCEPT ![i] = "sent"]
  /\ up' = Append(up, Envelope(i))
  /\ UNCHANGED <<conn, due, down, roster, verdict, outbox, flush, writer, file, seen, turns, trouble, past>>

Waits(i) == verdict[i] = "none" /\ (st[i] = "sent" \/ (flush.pc = "wait" /\ flush.cur = i))

\* settleRelay and relay:ack: a verdict that nobody waits for is ignored.
OnVerdict ==
  /\ down # << >> /\ "verdict" \in DOMAIN Head(down)
  /\ down' = Tail(down)
  /\ LET d == Head(down) IN
     verdict' = IF d.live /\ Waits(d.of) THEN [verdict EXCEPT ![d.of] = d.verdict] ELSE verdict
  /\ UNCHANGED <<conn, due, up, roster, st, outbox, flush, writer, file, seen, turns, trouble, past>>

\* RELAY_VERDICT_TIMEOUT_MS: four seconds, less than the hub may take to find
\* that a member is gone.
VerdictTimeout(i) ==
  /\ Waits(i)
  /\ IF \E q \in {up, down} : \E k \in DOMAIN q : "of" \in DOMAIN q[k] /\ q[k].of = i /\ q[k].live
     THEN Trouble ELSE UNCHANGED trouble
  /\ verdict' = [verdict EXCEPT ![i] = "timeout"]
  /\ up' = Dead(up, i) /\ down' = Dead(down, i)
  /\ past' = [past EXCEPT !.doubt = @ \cup {i}]
  /\ UNCHANGED <<conn, due, roster, st, outbox, flush, writer, file, seen, turns>>

\* add: behind what waits already.
\* Mutant: what waits newest goes first.
HoldsInFront(i) ==
  /\ outbox' = <<i>> \o outbox
  /\ Persisted(i, outbox')
  /\ past' = [past EXCEPT !.raced = @ \/ Writing # {},
                          !.ahead = @ \cup {<<j, i>> : j \in {k \in ToSet(outbox) : To[k] = To[i]}}]

Holds(i) ==
  /\ outbox' = Append(outbox, i)
  /\ Persisted(i, outbox')
  /\ past' = [past EXCEPT !.raced = @ \/ Writing # {},
                          !.ahead = @ \cup {<<j, i>> : j \in {k \in ToSet(outbox) : To[k] = To[i]}}]

\* The rest of sendChatViaRelay, once the message is in the conversation file.
SendSettled(i) ==
  /\ st[i] = "sent" /\ verdict[i] # "none"
  /\ verdict' = [verdict EXCEPT ![i] = "none"]
  /\ \/ /\ verdict[i] = "held" /\ Holds(i)
        /\ st' = [st EXCEPT ![i] = "adding"]
     \/ /\ verdict[i] # "held"
        /\ st' = [st EXCEPT ![i] = CASE verdict[i] = "ack" -> "delivered" [] verdict[i] = "error" -> "refused"
                                     [] OTHER -> "assumed"]
        /\ UNCHANGED <<outbox, writer, past>>
  /\ UNCHANGED <<conn, due, up, down, roster, flush, file, seen, turns, trouble>>

-----------------------------------------------------------------------------
\* The sender: flushChatOutbox.

MayFlush == flush.pc = "idle" /\ outbox # << >>

Expired(i) == i \in past.ended
Young == {i \in Message : ~Expired(i)}

\* A roster that comes too early for a message that is held, or is ignored.
Misses == flush.pc # "idle" \/ \E i \in Message : st[i] = "sent" /\ verdict[i] = "held"

\* A roster came: the directory is replaced, and the outbox is swept and gone
\* through unless that is going on already.
OnRoster ==
  /\ down # << >> /\ "on" \in DOMAIN Head(down)
  /\ down' = Tail(down)
  /\ roster' = Head(down).on
  /\ IF MayFlush
     THEN LET kept == Kept(outbox, Young) IN
          /\ outbox' = kept
          /\ IF kept = outbox THEN UNCHANGED writer ELSE Persisted(0, kept)
          /\ flush' = [Idle EXCEPT !.pc = IF kept = outbox THEN "next" ELSE "sweep", !.list = kept]
          /\ past' = [past EXCEPT !.raced = @ \/ (kept # outbox /\ Writing # {}), !.missed = @ \/ Misses]
     ELSE UNCHANGED <<outbox, writer, flush>> /\ past' = [past EXCEPT !.missed = @ \/ Misses]
  /\ UNCHANGED <<conn, due, up, st, verdict, file, seen, turns, trouble>>

\* One entry: passed over, or sealed, signed afresh and sent.
FlushNext ==
  /\ flush.pc = "next"
  /\ \/ flush.list = << >> /\ flush' = Idle /\ UNCHANGED <<up, writer, trouble, past>>
     \/ /\ flush.list # << >>
        /\ LET i == Head(flush.list) IN
           \/ /\ To[i] \in flush.away \/ To[i] \notin roster
              /\ flush' = [flush EXCEPT !.list = Tail(@)]
              /\ UNCHANGED <<up, writer, trouble, past>>
           \/ /\ To[i] \notin flush.away /\ To[i] \in roster
              /\ flush' = [flush EXCEPT !.list = Tail(@), !.pc = "wait", !.cur = i]
              /\ up' = Append(up, Envelope(i))
              /\ UNCHANGED <<writer, trouble, past>>
           \/ /\ To[i] \notin flush.away /\ To[i] \in roster /\ Trouble \* sealing fails
              /\ flush' = [flush EXCEPT !.list = Tail(@), !.pc = "noted", !.cur = i]
              /\ Persisted(0, outbox)
              /\ past' = [past EXCEPT !.raced = @ \/ Writing # {}, !.missed = TRUE]
              /\ UNCHANGED up
  /\ UNCHANGED <<conn, due, down, roster, st, verdict, outbox, file, seen, turns>>

\* Mutant: a message that was held again is taken for delivered.
LeavesUnlessRefused(v) == v # "error"

Leaves(v) == v \in {"ack", "timeout"}

FlushVerdict ==
  /\ flush.pc = "wait" /\ verdict[flush.cur] # "none"
  /\ LET i == flush.cur  v == verdict[i] IN
     /\ verdict' = [verdict EXCEPT ![i] = "none"]
     /\ outbox' = IF Leaves(v) THEN Kept(outbox, Message \ {i}) ELSE outbox
     /\ Persisted(0, outbox')
     /\ flush' = [flush EXCEPT !.pc = "noted", !.away = IF v = "held" THEN @ \cup {To[i]} ELSE @]
     /\ past' = [past EXCEPT !.raced = @ \/ Writing # {}, !.missed = @ \/ v = "error"]
  /\ UNCHANGED <<conn, due, up, down, roster, st, file, seen, turns, trouble>>

FlushGoesOn ==
  /\ flush.pc \in {"noted", "sweep"}
  /\ Renamed(0)
  /\ flush' = [flush EXCEPT !.pc = "next", !.cur = 0]
  /\ UNCHANGED <<conn, due, up, down, roster, st, verdict, outbox, seen, turns, trouble, past>>

-----------------------------------------------------------------------------
\* Time and faults.

\* An entry's time to live passes.
Ages(i) ==
  /\ Trouble /\ i \in ToSet(outbox) /\ ~Expired(i)
  /\ past' = [past EXCEPT !.ended = @ \cup {i}]
  /\ UNCHANGED <<conn, due, up, down, roster, st, verdict, outbox, flush, writer, file, seen, turns>>

\* The sender's link to the hub breaks and is made again.
LinkBreaks ==
  /\ Trouble /\ up \o down # << >>
  /\ up' = << >> /\ down' = << >> /\ due' = TRUE
  /\ UNCHANGED <<conn, roster, st, verdict, outbox, flush, writer, file, seen, turns, past>>

\* Restart: the outbox is what the file says, nothing if it does not parse; what
\* has expired is swept from both.
Reload ==
  /\ outbox' = IF file = Torn THEN << >> ELSE Kept(file, Young)
  /\ file' = IF file = Torn THEN file ELSE outbox'
  /\ up' = << >> /\ down' = << >> /\ due' = TRUE /\ roster' = {}
  /\ st' = [i \in Message |-> IF st[i] \in {"sent", "adding"} THEN "unknown" ELSE st[i]]
  /\ verdict' = [i \in Message |-> "none"]
  /\ flush' = Idle /\ writer' = [w \in Write |-> NoWrite]
  /\ UNCHANGED <<conn, seen, turns, past>>

Restart == Trouble /\ Reload

\* The write of the flush finds the temporary file renamed already: nobody
\* catches the error, which ends the process.
FlushThrows ==
  /\ writer[0].shared
  /\ Reload /\ UNCHANGED trouble

Hub == BroadcastRoster \/ Forward \/ \E m \in Member : Noticed(m)
Sender == OnVerdict \/ OnRoster \/ FlushNext \/ FlushVerdict \/ FlushGoesOn \/ FlushThrows
            \/ \E i \in Message : SendSettled(i) \/ VerdictTimeout(i) \/ AddEnds(i)
World == \E m \in Member : Connects(m) \/ Disconnects(m)
Faults == LinkBreaks \/ Restart \/ \E i \in Message : Ages(i)

Next == Hub \/ Sender \/ World \/ Faults \/ \E i \in Message : SendChat(i)

\* Timers, links and the file go on; users, members and faults owe nothing.
Spec == Init /\ [][Next]_vars /\ WF_vars(Hub) /\ WF_vars(Sender)

-----------------------------------------------------------------------------
EnvelopeState == [of : Message, live : BOOLEAN]
AnswerState == [on : SUBSET Member] \cup [verdict : Verdict \ {"timeout"}, of : Message, live : BOOLEAN]
FlushState == [pc : {"idle", "next", "sweep", "wait", "noted"}, list : Seq(Message), away : SUBSET Member, cur : Write]
WriterState == [on : BOOLEAN, val : Seq(Message), shared : BOOLEAN]
PastState == [doubt : SUBSET Message, ended : SUBSET Message, raced : BOOLEAN, missed : BOOLEAN,
              ahead : SUBSET (Message \X Message)]

TypeOK ==
  /\ conn \in [Member -> {"on", "dead", "off"}] /\ due \in BOOLEAN /\ roster \subseteq Member
  /\ up \in Seq(EnvelopeState)
  /\ down \in Seq(AnswerState)
  /\ st \in [Message -> Status] /\ verdict \in [Message -> Verdict \cup {"none"}]
  /\ outbox \in Seq(Message)
  /\ flush \in FlushState /\ (flush.pc = "wait" => flush.cur \in Message)
  /\ writer \in [Write -> WriterState]
  /\ file \in Seq(Message) \cup {Torn}
  /\ seen \in [Member -> Seq(Message)]
  /\ turns \in 0..MaxTurns /\ trouble \in 0..MaxTrouble
  /\ past \in PastState

\* What the user was told is true: a message told as waiting waits, was shown to
\* its member or was given up for its age, also after restarts; one told as
\* delivered was shown.  Excepted are messages whose verdict timed out or whose
\* member's connection was dead, and, for those that wait, outboxes that two
\* writes at once have been at.
ToldIsTrue == \A i \in Message \ past.doubt :
  /\ st[i] = "queued" /\ ~past.raced => i \in ToSet(outbox) \cup ToSet(seen[To[i]]) \cup past.ended
  /\ st[i] = "delivered" => i \in ToSet(seen[To[i]])

\* What waits for a member reaches it in the order in which it began to wait.
\* Excepted are messages that were refused, expired or may have been lost, and
\* rosters that come while the outbox is gone through: an entry passed over
\* because its member was away is then overtaken by the next one for it.
WaitedInOrder ==
  ~past.missed /\ ~past.raced =>
    \A j, i \in Message :
      <<j, i>> \in past.ahead /\ j \notin past.doubt \cup past.ended /\ i \in ToSet(seen[To[i]]) =>
        \E x, y \in DOMAIN seen[To[i]] : x < y /\ seen[To[i]][x] = j /\ seen[To[i]][y] = i

\* What waits for a member that stays connected leaves, unless the hub refused
\* it, or a roster came while the outbox was gone through or while the verdict
\* that held a message was not yet acted on: nothing looks at the outbox again
\* until the next roster.
WaitingLeaves ==
  \A i \in Message : []<>(i \notin ToSet(outbox) \/ conn[To[i]] # "on" \/ past.missed)

-----------------------------------------------------------------------------
(* Why they hold: what the proof needs besides.                            *)

\* The verdict told on i is under way to the sender.
Was(i, told) == \E k \in DOMAIN down : "verdict" \in DOMAIN down[k] /\ down[k].of = i /\ down[k].verdict = told
InUp(i) == \E k \in DOMAIN up : up[k].of = i
OnceUp(i) == \A k, l \in DOMAIN up : up[k].of = i /\ up[l].of = i => k = l
Shown(i) == i \in ToSet(seen[To[i]])

\* An ack was given for a message that was shown or went to a dead connection;
\* a wait that timed out left a doubt.
AckMeansShown == \A i \in Message \ past.doubt :
  /\ Was(i, "ack") \/ verdict[i] = "ack" \/ st[i] = "delivered" => Shown(i)
  /\ verdict[i] # "timeout"

\* As long as no two writes were at the file at once: a write in progress is the
\* only one, and holds what the outbox holds.
OneWriter == ~past.raced =>
  /\ file # Torn
  /\ \A w \in Write : writer[w].on => writer[w].val = outbox /\ ~writer[w].shared /\ Writing = {w}

\* An add that is being written has yet to tell the user.
AddsWrite == \A i \in Message : writer[i].on => st[i] = "adding"

\* A message told as waiting, or about to be, is in the outbox; one told so is in
\* the file as well, so that a restart finds it.
QueuedIsHeld == ~past.raced => \A i \in Message \ past.doubt :
  /\ st[i] \in {"adding", "queued"} => i \in ToSet(outbox) \/ Shown(i) \/ Expired(i)
  /\ st[i] = "queued" => i \in ToSet(file) \/ Shown(i) \/ Expired(i)

\* A message that has not been answered was in no outbox yet, and while it waits
\* for its first verdict it is under way once, or shown, or held, and not two of them.
FirstTry == \A i \in Message : st[i] \in {"unwritten", "sent"} =>
  /\ i \notin ToSet(outbox) \cup ToSet(flush.list) \cup ToSet(file)
  /\ \A w \in Write : i \notin ToSet(writer[w].val)
  /\ flush.pc = "wait" => flush.cur # i
  /\ OnceUp(i)
  /\ InUp(i) => ~Shown(i) /\ ~Was(i, "held") /\ verdict[i] # "held"
  /\ Was(i, "held") \/ verdict[i] = "held" => ~Shown(i)
  /\ st[i] = "unwritten" => ~InUp(i) /\ ~Shown(i) /\ verdict[i] = "none" /\ \A told \in Verdict : ~Was(i, told)

\* Wherever i is in a list, j comes before it.
Leads(j, i, s) == \A y \in DOMAIN s : s[y] = i => \E x \in 1..(y - 1) : s[x] = j

\* i stands behind j, which was not shown yet, wherever both may be: in the outbox,
\* the file and what is left to the flush, unless the flush waits for the verdict
\* on j or passes over their member.
Behind(j, i) ==
  /\ ~InUp(i) /\ ~(flush.pc = "wait" /\ flush.cur = i)
  /\ Leads(j, i, outbox) /\ Leads(j, i, file)
  /\ \/ flush.pc = "idle" \/ Leads(j, i, flush.list)
     \/ To[i] \in flush.away \/ To[i] \notin roster
     \/ flush.pc = "wait" /\ flush.cur = j

OrderKept == \A j, i \in Message : <<j, i>> \in past.ahead =>
  /\ To[j] = To[i] /\ st[i] \notin {"unwritten", "sent"}
  /\ ~past.missed /\ ~past.raced /\ j \notin past.doubt \cup past.ended =>
       Leads(j, i, seen[To[i]]) /\ (Shown(j) \/ Behind(j, i))

\* The inductive invariant.
RelayInv == TypeOK /\ AckMeansShown /\ OneWriter /\ AddsWrite /\ QueuedIsHeld /\ FirstTry /\ OrderKept
=============================================================================
