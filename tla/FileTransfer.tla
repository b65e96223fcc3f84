---------------------------- MODULE FileTransfer ----------------------------
(***************************************************************************)
(* One VoleDrop transfer (src/src/volenet/src/files.ts): a sender, a       *)
(* receiver, and a hub that keeps ciphertext for peers that cannot reach   *)
(* each other (blob-store.ts).  Control messages are signed messages that  *)
(* may overtake each other or be lost; the bytes go over HTTP, by pull,    *)
(* push or relay as the receiver chose, and any request may break.         *)
(*                                                                         *)
(* A file is the number of its chunks that are present, and more than      *)
(* Chunks once a request wrote past another; it is whole when all chunks   *)
(* are present, which is what its hash and size tell.  POST number a       *)
(* writes a file of its own, inode a; loop l of requests appends to the    *)
(* file the path names, or begins inode Tries + l.                         *)
(***************************************************************************)
EXTENDS Naturals, Sequences, FiniteSets

CONSTANTS
  Chunks,    \* chunks of the file
  Tries,     \* requests of one pull, push or download: RETRY_DELAYS_MS and the first
  MaxAccepts, \* bound: times the user accepts the offer
  MaxTrouble \* bound: rejections, cancellations, broken requests, lost messages, restarts
             \* and an early end of the offer's time, together; a further accept is two

ASSUME TransferAssumption ==
  Chunks \in Nat \ {0} /\ Tries \in Nat \ {0} /\ MaxAccepts \in Nat \ {0} /\ MaxTrouble \in Nat

VARIABLES
  route,   \* what is reachable: chosen once
  snd,     \* the sender's record of the transfer, and its upload in progress
  rcv,     \* the receiver's record
  loop,    \* what each accept started at the receiver: the probe, then a loop of requests
  post,    \* the receiver's end of each POST of the sender
  file,    \* what is in the file of each inode
  fin,     \* finalizeReceive of what a POST brought
  hub,     \* the blob on the hub and its tokens
  net,     \* control messages under way
  landed,  \* what was renamed into the inbox, in order
  accepts, \* how often the user, or the policy, accepted the offer
  late,    \* the offer's time to live has passed
  trouble, \* counter of the bound
  overlap  \* history: the receiver served two requests of this transfer at once

vars == <<route, snd, rcv, loop, post, file, fin, hub, net, landed, accepts, late, trouble, overlap>>

Terminal == {"done", "rejected", "failed", "cancelled", "expired"}
TransferState == {"unsent", "none", "offered", "pending", "accepted", "transferring", "verifying"} \cup Terminal
Mode == {"none", "pull", "push", "relay"}
Attempt == 1..Tries
Loop == 1..MaxAccepts
Inode == 1..(Tries + MaxAccepts)

Route == {r \in [sender : BOOLEAN, receiver : BOOLEAN, hub : BOOLEAN, relayed : BOOLEAN] :
            r.relayed => r.hub /\ ~r.sender /\ ~r.receiver}

ToSender == {"accept", "reject", "done"}
ToReceiver == {"offer", "ready"}
Message ==
  [to : {"receiver"}, type : ToReceiver] \cup [to : {"sender"}, type : ToSender \ {"accept"}]
    \cup [to : {"sender"}, type : {"accept"}, mode : Mode \ {"none"}, push : 0..MaxAccepts]
    \cup [to : {"sender", "receiver"}, type : {"cancel"}]
    \cup [to : {"sender", "receiver"}, type : {"error"}, code : {"io", "pull-unreachable", "expired"}]
    \cup [to : {"hub"}, type : {"freed"}]

\* push is the token the sender was given, by the accept that made it.
Sender == [state : TransferState, mode : Mode, tok : BOOLEAN, push : 0..MaxAccepts,
           run : {"idle", "post", "cut", "wait", "grant", "upload"}, try : 0..Tries]

\* tok holds the live tokens for a push, blob tells that the hub is to be told,
\* active is the stream opened last, path the inode of the partial file.
Receiver == [state : TransferState, tok : SUBSET Loop, blob : BOOLEAN,
             active : {0} \cup Inode, path : {0} \cup Inode]

\* out is the inode that the stream writes, pos the chunk it is at.
LoopState == [run : {"idle", "probe", "grant", "try", "stream", "cut", "wait", "check", "land", "tell"},
              kind : {"pull", "relay"}, try : 0..Tries, from : 0..Chunks, pos : 0..Chunks,
              out : {0} \cup Inode]

Troubles(n) == trouble + n <= MaxTrouble /\ trouble' = trouble + n
Trouble == Troubles(1)

Msg(to, type) == [to |-> to, type |-> type]
Failure(to, code) == [to |-> to, type |-> "error", code |-> code]

NoSender == [state |-> "none", mode |-> "none", tok |-> FALSE, push |-> 0, run |-> "idle", try |-> 0]
NoReceiver == [state |-> "none", tok |-> {}, blob |-> FALSE, active |-> 0, path |-> 0]
NoLoop == [run |-> "idle", kind |-> "pull", try |-> 0, from |-> 0, pos |-> 0, out |-> 0]
NoHub == [blob |-> "none", up |-> FALSE, down |-> FALSE]

Init ==
  /\ route \in Route
  /\ snd = [NoSender EXCEPT !.state = "unsent"] /\ rcv = NoReceiver /\ hub = NoHub
  /\ loop = [l \in Loop |-> NoLoop]
  /\ post = [a \in Attempt |-> "none"]
  /\ file = [i \in Inode |-> 0]
  /\ fin = [a \in Attempt |-> "none"]
  /\ net = {} /\ landed = << >> /\ accepts = 0
  /\ late = FALSE /\ trouble \in 0..MaxTrouble /\ overlap = FALSE

-----------------------------------------------------------------------------
\* What a node does to its own record.

\* t.active?.destroy(): the request of the sender that is under way breaks.
CutUpload(s) == IF s.run \in {"post", "upload"} THEN [s EXCEPT !.run = "cut"] ELSE s

\* The same at the receiver: the stream opened last, a POST's or a loop's.
CutPosts(r) == [a \in Attempt |-> IF r.active = a THEN "broken" ELSE post[a]]
CutLoops(r, ls) ==
  [l \in Loop |-> IF r.active = Tries + l /\ ls[l].run = "stream" THEN [ls[l] EXCEPT !.run = "cut"] ELSE ls[l]]

\* touch, with the tokens revoked: the end of a transfer at one node.
EndSender(s, state) == [s EXCEPT !.state = state, !.tok = FALSE]
\* Mutant: the tokens live on.
EndReceiverOnly(r, state) == [r EXCEPT !.state = state]

EndReceiver(r, state) == [r EXCEPT !.state = state, !.tok = {}]

FailSender(s) == EndSender(CutUpload(s), "failed")

\* The end of a transfer at the receiver whose open stream is destroyed.
EndReceiving(r, ls, state) ==
  rcv' = EndReceiver(r, state) /\ post' = CutPosts(r) /\ loop' = CutLoops(r, ls)

\* The partial file is unlinked; a stream that has it open goes on writing to nothing.
Unlinked(r) == [r EXCEPT !.path = 0]

\* A request other than these is being served, or what it brought verified.
Busy(l) == loop[l].run \in {"stream", "cut", "check", "land"}
Serving(a) == post[a] \in {"asked", "open", "broken"}
InWork(a) == Serving(a) \/ fin[a] # "none"
Served(loops, posts) == (\E l \in Loop \ loops : Busy(l)) \/ (\E a \in Attempt \ posts : InWork(a))

\* A node that lost its record ignores what is about the transfer.
Receives(m) == m \in net
Take(m, sent) == net' = (net \ {m}) \cup sent

-----------------------------------------------------------------------------
\* The offer and the user's answer.

SendFile ==
  /\ snd.state = "unsent"
  /\ snd' = [snd EXCEPT !.state = "offered", !.tok = route.sender /\ ~route.relayed]
  /\ net' = {Msg("receiver", "offer")}
  /\ UNCHANGED <<route, rcv, loop, post, file, fin, hub, landed, accepts, late, trouble, overlap>>

\* Disabled, no space and too large are answered at once; else the offer waits
\* for the user, or for the policy that accepts it in the same handler.
OnOffer ==
  /\ Receives(Msg("receiver", "offer"))
  /\ \/ /\ Take(Msg("receiver", "offer"), {Msg("sender", "reject")}) /\ UNCHANGED rcv
     \/ /\ Take(Msg("receiver", "offer"), {})
        /\ rcv' = [rcv EXCEPT !.state = "pending"]
  /\ UNCHANGED <<route, snd, loop, post, file, fin, hub, landed, accepts, late, trouble, overlap>>

\* acceptFile up to the probe of the sender's endpoint, which is awaited while
\* the offer stays pending: it can be accepted again, by the user or after the
\* policy, and each accept begins to receive.  A key that does not unseal fails
\* the transfer.  An offer past its time is swept within the minute; an answer
\* in that minute is left out.
AcceptFile ==
  /\ rcv.state = "pending" /\ ~late /\ accepts < MaxAccepts
  /\ accepts' = accepts + 1
  /\ \/ /\ IF accepts = 0 THEN UNCHANGED trouble ELSE route.sender /\ Troubles(2)
        /\ loop' = [loop EXCEPT ![accepts + 1].run = "probe"] /\ UNCHANGED <<rcv, net>>
     \/ /\ accepts = 0
        /\ rcv' = [rcv EXCEPT !.state = "failed"] /\ net' = net \cup {Failure("sender", "io")}
        /\ UNCHANGED <<loop, trouble>>
  /\ UNCHANGED <<route, snd, post, file, fin, hub, landed, late, overlap>>

\* The modes the receiver can choose: the probe of the sender's endpoint may
\* fail; a receiver with an endpoint then waits for a push, else a hub is used.
Choices ==
  IF route.relayed THEN {"relay"}
  ELSE (IF route.sender THEN {"pull"} ELSE {})
         \cup {IF route.receiver THEN "push" ELSE IF route.hub THEN "relay" ELSE "none"}

\* beginReceive after the probe.  The state is not looked at again.
BeginReceive(l) ==
  /\ loop[l].run = "probe"
  /\ \E mode \in Choices :
       IF mode = "none"
       THEN /\ rcv' = [rcv EXCEPT !.state = "rejected"]
            /\ loop' = [loop EXCEPT ![l] = NoLoop]
            /\ net' = net \cup {Msg("sender", "reject")}
       ELSE LET push == IF route.receiver /\ mode # "relay" THEN l ELSE 0 IN
            /\ rcv' = [rcv EXCEPT !.state = IF mode = "pull" THEN "transferring" ELSE "accepted",
                                  !.tok = @ \cup ({push} \ {0}), !.blob = @ /\ mode = "relay"]
            /\ loop' = [loop EXCEPT ![l] = IF mode = "pull" THEN [NoLoop EXCEPT !.run = "try", !.try = 1] ELSE NoLoop]
            /\ net' = net \cup {[to |-> "sender", type |-> "accept", mode |-> mode, push |-> push]}
  /\ UNCHANGED <<route, snd, post, file, fin, hub, landed, accepts, late, trouble, overlap>>

OnAccept ==
  \E m \in net :
    /\ m.type = "accept"
    /\ Take(m, {})
    /\ snd' = IF snd.state # "offered" THEN snd
              ELSE [snd EXCEPT !.state = "transferring",
                               !.mode = m.mode, !.push = m.push, !.try = 1,
                               !.run = CASE m.mode = "pull" -> "idle"
                                         [] m.mode = "push" -> "post"
                                         [] m.mode = "relay" -> "grant"]
    /\ UNCHANGED <<route, rcv, loop, post, file, fin, hub, landed, accepts, late, trouble, overlap>>

OnReject ==
  /\ Receives(Msg("sender", "reject"))
  /\ Take(Msg("sender", "reject"), {})
  /\ snd' = IF snd.state = "none" THEN snd ELSE EndSender(snd, "rejected")
  /\ UNCHANGED <<route, rcv, loop, post, file, fin, hub, landed, accepts, late, trouble, overlap>>

\* rejectFile and cancelTransfer: neither looks at the state.
RejectFile ==
  /\ Trouble /\ rcv.state # "none"
  /\ rcv' = EndReceiver(rcv, "rejected")
  /\ net' = net \cup {Msg("sender", "reject")}
  /\ UNCHANGED <<route, snd, loop, post, file, fin, hub, landed, accepts, late, overlap>>

CancelSend ==
  /\ Trouble /\ snd.state \notin {"unsent", "none"}
  /\ snd' = EndSender(CutUpload(snd), "cancelled")
  /\ net' = net \cup {Msg("receiver", "cancel")}
  /\ UNCHANGED <<route, rcv, loop, post, file, fin, hub, landed, accepts, late, overlap>>

CancelReceive ==
  /\ Trouble /\ rcv.state # "none"
  /\ EndReceiving(Unlinked(rcv), loop, "cancelled")
  /\ net' = net \cup {Msg("sender", "cancel")}
  /\ UNCHANGED <<route, snd, file, fin, hub, landed, accepts, late, overlap>>

-----------------------------------------------------------------------------
\* The other control messages.

OnRelayReady ==
  /\ Receives(Msg("receiver", "ready"))
  /\ Take(Msg("receiver", "ready"), {})
  /\ IF rcv.state # "accepted" THEN UNCHANGED <<rcv, loop>>
     ELSE /\ rcv' = [rcv EXCEPT !.state = "transferring", !.blob = TRUE]
          /\ \E l \in 1..accepts : loop[l].run = "idle" /\ loop' = [loop EXCEPT ![l].run = "grant", ![l].kind = "relay"]
  /\ UNCHANGED <<route, snd, post, file, fin, hub, landed, accepts, late, trouble, overlap>>

OnDone ==
  /\ Receives(Msg("sender", "done"))
  /\ Take(Msg("sender", "done"), {})
  /\ snd' = IF snd.state = "none" THEN snd ELSE EndSender(snd, "done")
  /\ UNCHANGED <<route, rcv, loop, post, file, fin, hub, landed, accepts, late, trouble, overlap>>

\* onPeerError at the sender: a receiver that could not pull gets a push if it
\* had given the means; anything else fails the transfer, whatever its state
\* except done and failed.  A second pull that gives up begins a second chain of
\* POSTs, which is left out.
OnPeerErrorSender ==
  \E m \in net :
    /\ m.type = "error" /\ m.to = "sender"
    /\ Take(m, {})
    /\ snd' = CASE snd.state \in {"none", "done", "failed"} -> snd
                [] snd.state \notin {"none", "done", "failed"} /\ m.code = "pull-unreachable" /\ snd.push # 0 ->
                     IF snd.run = "idle" /\ \A a \in Attempt : post[a] = "none"
                     THEN [snd EXCEPT !.mode = "push", !.state = "transferring", !.run = "post", !.try = 1]
                     ELSE [snd EXCEPT !.state = "transferring"]
                [] OTHER -> FailSender(snd)
    /\ UNCHANGED <<route, rcv, loop, post, file, fin, hub, landed, accepts, late, trouble, overlap>>

OnPeerErrorReceiver ==
  \E m \in net :
    /\ m.type = "error" /\ m.to = "receiver"
    /\ Take(m, {})
    /\ IF rcv.state \in {"none", "done", "failed"} THEN UNCHANGED <<rcv, post, loop>> ELSE EndReceiving(rcv, loop, "failed")
    /\ UNCHANGED <<route, snd, file, fin, hub, landed, accepts, late, trouble, overlap>>

OnPeerCancelSender ==
  /\ Receives(Msg("sender", "cancel"))
  /\ Take(Msg("sender", "cancel"), {})
  /\ snd' = IF snd.state = "none" THEN snd ELSE EndSender(CutUpload(snd), "cancelled")
  /\ UNCHANGED <<route, rcv, loop, post, file, fin, hub, landed, accepts, late, trouble, overlap>>

OnPeerCancelReceiver ==
  /\ Receives(Msg("receiver", "cancel"))
  /\ Take(Msg("receiver", "cancel"), {})
  /\ IF rcv.state = "none" THEN UNCHANGED <<rcv, post, loop>>
     ELSE EndReceiving(Unlinked(rcv), loop, "cancelled")
  /\ UNCHANGED <<route, snd, file, fin, hub, landed, accepts, late, trouble, overlap>>

-----------------------------------------------------------------------------
\* The receiver's loops of requests: runPull against the sender, and
\* runRelayDownload against the hub.

\* countCompleteChunks: what a file holds, whatever was written into it, and what
\* a chunk appended to it by a stream at pos makes of it.
Size(f) == IF f > Chunks THEN f - Chunks ELSE f
Written(f, pos) == IF f = pos THEN f + 1 ELSE Chunks + (IF Size(f) < Chunks THEN Size(f) + 1 ELSE Chunks)

\* The catch of the loop: the state is compared with "cancelled" only, the
\* partial file is counted, and the next request comes after a delay.
RequestFails(l, r) ==
  LET idle == [loop EXCEPT ![l] = NoLoop]
      next(run) == [NoLoop EXCEPT !.run = run, !.kind = loop[l].kind, !.try = loop[l].try,
                                  !.from = IF r.path = 0 THEN 0 ELSE Size(file[r.path])] IN
  CASE r.state = "cancelled" -> rcv' = r /\ loop' = idle /\ UNCHANGED <<net, post>>
    [] r.state # "cancelled" /\ loop[l].try < Tries ->
         rcv' = r /\ loop' = [loop EXCEPT ![l] = next("wait")] /\ UNCHANGED <<net, post>>
    [] r.state # "cancelled" /\ loop[l].try = Tries /\ loop[l].kind = "pull" ->
         /\ rcv' = r /\ loop' = [loop EXCEPT ![l] = next("tell")]
         /\ net' = net \cup {Failure("sender", "pull-unreachable")}
         /\ UNCHANGED post
    [] OTHER -> EndReceiving(r, idle, "failed") /\ UNCHANGED net

\* Grant or denial of the hub, its silence and its absence.
FetchGrant(l) ==
  /\ loop[l].run = "grant"
  /\ \/ /\ hub.blob = "full"
        /\ hub' = [hub EXCEPT !.down = TRUE]
        /\ loop' = [loop EXCEPT ![l].run = "try", ![l].try = 1] /\ UNCHANGED <<rcv, post>>
     \/ UNCHANGED hub /\ EndReceiving(rcv, [loop EXCEPT ![l] = NoLoop], "failed")
  /\ UNCHANGED <<route, snd, file, fin, net, landed, accepts, late, trouble, overlap>>

\* A request that is served: by the sender as long as its token lives
\* (serveSenderPull looks at no state), by the hub as long as the blob is there.
Serves(l) == IF loop[l].kind = "pull" THEN snd.tok ELSE hub.down /\ hub.blob = "full"

\* A request from the start removes the partial file; the stream then opens what
\* the path names, or begins a file.
Request(l) ==
  /\ loop[l].run = "try" /\ Serves(l)
  /\ snd' = IF loop[l].kind = "pull" THEN [snd EXCEPT !.state = "transferring"] ELSE snd
  /\ LET begins == loop[l].from = 0 \/ rcv.path = 0
         out == IF begins THEN Tries + l ELSE rcv.path IN
     /\ file' = IF begins THEN [file EXCEPT ![out] = 0] ELSE file
     /\ loop' = [loop EXCEPT ![l].run = "stream", ![l].pos = loop[l].from, ![l].out = out]
     /\ rcv' = [rcv EXCEPT !.active = Tries + l, !.path = out]
  /\ overlap' = (overlap \/ Served({l}, {}))
  /\ UNCHANGED <<route, post, fin, hub, net, landed, accepts, late, trouble>>

RequestRefused(l) ==
  /\ loop[l].run = "try"
  /\ IF Serves(l) THEN Trouble ELSE UNCHANGED trouble
  /\ RequestFails(l, rcv)
  /\ UNCHANGED <<route, snd, file, fin, hub, landed, accepts, late, overlap>>

Chunk(l) ==
  /\ loop[l].run = "stream" /\ loop[l].pos < Chunks
  /\ loop' = [loop EXCEPT ![l].pos = @ + 1]
  /\ file' = [file EXCEPT ![loop[l].out] = Written(@, loop[l].pos)]
  /\ UNCHANGED <<route, snd, rcv, post, fin, hub, net, landed, accepts, late, trouble, overlap>>

\* The stream breaks, or was destroyed.
Break(l) ==
  /\ \/ loop[l].run = "stream" /\ Trouble
     \/ loop[l].run = "cut" /\ UNCHANGED trouble
  /\ RequestFails(l, [rcv EXCEPT !.active = 0])
  /\ UNCHANGED <<route, snd, file, fin, hub, landed, accepts, late, overlap>>

StreamEnds(l) ==
  /\ loop[l].run = "stream" /\ loop[l].pos = Chunks
  /\ rcv' = [rcv EXCEPT !.state = "verifying", !.active = 0]
  /\ loop' = [loop EXCEPT ![l].run = "check", ![l].out = 0]
  /\ UNCHANGED <<route, snd, post, file, fin, hub, net, landed, accepts, late, trouble, overlap>>

Retry(l) ==
  /\ loop[l].run = "wait"
  /\ loop' = [loop EXCEPT ![l].run = "try", ![l].try = @ + 1]
  /\ UNCHANGED <<route, snd, rcv, post, file, fin, hub, net, landed, accepts, late, trouble, overlap>>

\* runPull gives up after it has told the sender.
GiveUp(l) ==
  /\ loop[l].run = "tell"
  /\ EndReceiving(rcv, [loop EXCEPT ![l] = NoLoop], "failed")
  /\ UNCHANGED <<route, snd, file, fin, hub, net, landed, accepts, late, trouble, overlap>>

-----------------------------------------------------------------------------
\* finalizeReceive: the hash and the size, then the rename into the inbox.

\* Mutant: neither hash nor size is compared.
Present == rcv.path # 0

Whole == rcv.path # 0 /\ file[rcv.path] = Chunks

\* Nothing of the receiver's memory outlives its process; of the POSTs the sender
\* sees broken connections.
Restarted ==
  /\ rcv' = NoReceiver /\ loop' = [l \in Loop |-> NoLoop]
  /\ post' = [a \in Attempt |-> IF Serving(a) THEN "gone" ELSE post[a]]
  /\ fin' = [a \in Attempt |-> "none"]

\* The hash or the size is another, or the file is gone between the two.
Mismatches(ls) == EndReceiving(Unlinked(rcv), ls, "failed") /\ net' = net \cup {Failure("sender", "io")}

Saves(ls) ==
  /\ rcv.path # 0
  /\ landed' = Append(landed, file[rcv.path])
  /\ rcv' = EndReceiver(Unlinked(rcv), "done") /\ loop' = ls
  /\ net' = net \cup {Msg("sender", "done")} \cup (IF rcv.blob THEN {Msg("hub", "freed")} ELSE {})
  /\ UNCHANGED post

\* What a loop brought: a file that is not there throws into the loop's catch.
VerifyDownload(l) ==
  /\ loop[l].run = "check"
  /\ CASE rcv.path = 0 -> RequestFails(l, rcv)
       [] Whole -> loop' = [loop EXCEPT ![l].run = "land"] /\ UNCHANGED <<rcv, net, post>>
       [] OTHER -> Mismatches([loop EXCEPT ![l] = NoLoop])
  /\ UNCHANGED <<route, snd, file, fin, hub, landed, accepts, late, trouble, overlap>>

LandDownload(l) ==
  /\ loop[l].run = "land"
  /\ \/ Saves([loop EXCEPT ![l] = NoLoop])
     \/ rcv.path = 0 /\ UNCHANGED landed /\ (RequestFails(l, rcv) \/ Mismatches([loop EXCEPT ![l] = NoLoop]))
  /\ UNCHANGED <<route, snd, file, fin, hub, accepts, late, trouble, overlap>>

\* What a POST brought: it was answered, nobody awaits this, and what it throws
\* is a rejection without a handler, which ends the process.
VerifyPost(a) ==
  /\ fin[a] = "check"
  /\ CASE rcv.path = 0 -> Restarted /\ UNCHANGED net
       [] Whole -> fin' = [fin EXCEPT ![a] = "land"] /\ UNCHANGED <<rcv, loop, net, post>>
       [] OTHER -> fin' = [fin EXCEPT ![a] = "none"] /\ Mismatches(loop)
  /\ UNCHANGED <<route, snd, file, hub, landed, accepts, late, trouble, overlap>>

LandPost(a) ==
  /\ fin[a] = "land"
  /\ \/ fin' = [fin EXCEPT ![a] = "none"] /\ Saves(loop)
     \/ /\ rcv.path = 0 /\ UNCHANGED landed
        /\ \/ Restarted /\ UNCHANGED net
           \/ fin' = [fin EXCEPT ![a] = "none"] /\ Mismatches(loop)
  /\ UNCHANGED <<route, snd, file, hub, accepts, late, trouble, overlap>>

-----------------------------------------------------------------------------
\* Push: the sender's POSTs and what the receiver makes of them.

\* handleBlobRequest: a live token lets the request in; receivePushUpload then
\* makes the directory, takes the path and streams.
PostAdmitted(a) ==
  /\ snd.run = "post" /\ snd.try = a /\ post[a] = "none" /\ snd.push \in rcv.tok
  /\ post' = [post EXCEPT ![a] = "asked"]
  /\ overlap' = (overlap \/ Served({}, {a}))
  /\ UNCHANGED <<route, snd, rcv, loop, file, fin, hub, net, landed, accepts, late, trouble>>

PostOpens(a) ==
  /\ post[a] = "asked" /\ rcv.state # "none"
  /\ post' = [post EXCEPT ![a] = "open"]
  /\ rcv' = [rcv EXCEPT !.state = "transferring", !.active = a, !.path = a]
  /\ file' = [file EXCEPT ![a] = 0]
  /\ overlap' = (overlap \/ Served({}, {a}))
  /\ UNCHANGED <<route, snd, loop, fin, hub, net, landed, accepts, late, trouble>>

PostChunk(a) ==
  /\ post[a] = "open" /\ snd.run = "post" /\ snd.try = a /\ file[a] < Chunks
  /\ file' = [file EXCEPT ![a] = @ + 1]
  /\ UNCHANGED <<route, snd, rcv, loop, post, fin, hub, net, landed, accepts, late, trouble, overlap>>

\* The body is complete: 201 is written, then finalizeReceive runs.
PostEnds(a) ==
  /\ post[a] = "open" /\ file[a] >= Chunks
  /\ post' = [post EXCEPT ![a] = "answered"]
  /\ rcv' = [rcv EXCEPT !.state = "verifying", !.active = 0]
  /\ fin' = [fin EXCEPT ![a] = "check"]
  /\ UNCHANGED <<route, snd, loop, file, hub, net, landed, accepts, late, trouble, overlap>>

\* The body breaks off: the partial file is removed by its path, whoever wrote it.
PostBreaks(a) ==
  /\ \/ post[a] = "broken"
     \/ post[a] = "open" /\ file[a] < Chunks /\ ~(snd.run = "post" /\ snd.try = a)
  /\ post' = [post EXCEPT ![a] = "gone"]
  /\ rcv' = [Unlinked(rcv) EXCEPT !.active = 0]
  /\ UNCHANGED <<route, snd, loop, file, fin, hub, net, landed, accepts, late, trouble, overlap>>

\* Mutant: the answer to the POST is taken for file:done.
PostAnsweredIsDone ==
  /\ snd.run = "post" /\ post[snd.try] = "answered"
  /\ snd' = EndSender([snd EXCEPT !.run = "idle"], "done")
  /\ UNCHANGED <<route, rcv, loop, post, file, fin, hub, net, landed, accepts, late, trouble, overlap>>

PostAnswered ==
  /\ snd.run = "post" /\ post[snd.try] = "answered"
  /\ snd' = [snd EXCEPT !.run = "idle"]
  /\ UNCHANGED <<route, rcv, loop, post, file, fin, hub, net, landed, accepts, late, trouble, overlap>>

\* A refusal, a broken connection, a lost answer, or a stream destroyed here:
\* the catch of runPush, with the relay as the last resort.
PostFails ==
  /\ snd.run \in {"post", "cut"} /\ snd.mode = "push"
  /\ IF snd.run = "cut" \/ post[snd.try] \in {"broken", "gone"} \/ (post[snd.try] = "none" /\ snd.push \notin rcv.tok)
     THEN UNCHANGED trouble ELSE Trouble
  /\ CASE snd.state = "cancelled" -> snd' = [snd EXCEPT !.run = "idle"] /\ UNCHANGED net
       [] snd.state # "cancelled" /\ snd.try < Tries -> snd' = [snd EXCEPT !.run = "wait"] /\ UNCHANGED net
       [] snd.state # "cancelled" /\ snd.try = Tries /\ route.hub ->
            snd' = [snd EXCEPT !.run = "grant", !.state = "transferring", !.mode = "relay"] /\ UNCHANGED net
       [] OTHER -> /\ snd' = EndSender([snd EXCEPT !.run = "idle"], "failed")
                   /\ net' = net \cup {Failure("receiver", "io")}
  /\ UNCHANGED <<route, rcv, loop, post, file, fin, hub, landed, accepts, late, overlap>>

PostAgain ==
  /\ snd.run = "wait"
  /\ snd' = [snd EXCEPT !.run = "post", !.try = @ + 1]
  /\ UNCHANGED <<route, rcv, loop, post, file, fin, hub, net, landed, accepts, late, trouble, overlap>>

-----------------------------------------------------------------------------
\* Relay: the sender's upload and the hub.

\* relay:blob:create: denied (not connected, rate, size, quota, silence) or an
\* empty blob and an upload token.
UploadGrant ==
  /\ snd.run = "grant"
  /\ \/ /\ snd' = [snd EXCEPT !.run = "upload"]
        /\ hub' = [hub EXCEPT !.blob = "part", !.up = TRUE]
        /\ UNCHANGED net
     \/ /\ snd' = EndSender([snd EXCEPT !.run = "idle"], "failed")
        /\ net' = net \cup {Failure("receiver", "io")}
        /\ UNCHANGED hub
  /\ UNCHANGED <<route, rcv, loop, post, file, fin, landed, accepts, late, trouble, overlap>>

Upload ==
  /\ snd.run = "upload" /\ hub.up /\ hub.blob = "part"
  /\ snd' = [snd EXCEPT !.run = "idle"]
  /\ hub' = [hub EXCEPT !.blob = "full", !.up = FALSE]
  /\ net' = net \cup {Msg("receiver", "ready")}
  /\ UNCHANGED <<route, rcv, loop, post, file, fin, landed, accepts, late, trouble, overlap>>

\* An upload that breaks is not tried again and the receiver is not told.
UploadFails ==
  /\ \/ snd.run = "upload" /\ (IF hub.up /\ hub.blob = "part" THEN Trouble ELSE UNCHANGED trouble)
     \/ snd.run = "cut" /\ snd.mode = "relay" /\ UNCHANGED trouble
  /\ snd' = EndSender([snd EXCEPT !.run = "idle"], "failed")
  /\ UNCHANGED <<route, rcv, loop, post, file, fin, hub, net, landed, accepts, late, overlap>>

HubFrees ==
  /\ Receives(Msg("hub", "freed"))
  /\ Take(Msg("hub", "freed"), {})
  /\ hub' = NoHub
  /\ UNCHANGED <<route, snd, rcv, loop, post, file, fin, landed, accepts, late, trouble, overlap>>

\* No request and no message is under way: the offer's hour is long against
\* both, so that its end in the middle of one is counted among the troubles, and
\* the day that a blob is kept is longer still.
Quiet ==
  /\ net = {} /\ snd.run = "idle" /\ \A l \in Loop : loop[l].run = "idle"
  /\ \A a \in Attempt : ~InWork(a)

\* The hub's sweep of blobs past their time to live.
BlobSweep ==
  /\ late /\ Quiet /\ hub.blob # "none"
  /\ hub' = [hub EXCEPT !.blob = "none"]
  /\ UNCHANGED <<route, snd, rcv, loop, post, file, fin, net, landed, accepts, late, trouble, overlap>>

-----------------------------------------------------------------------------
\* Time, sweeps and faults.

TimePasses ==
  /\ ~late /\ snd.state # "unsent"
  /\ late' = TRUE
  /\ \/ Quiet /\ UNCHANGED trouble
     \/ ~Quiet /\ Trouble
  /\ UNCHANGED <<route, snd, rcv, loop, post, file, fin, hub, net, landed, accepts, overlap>>

Open(state) == state \notin Terminal \cup {"none", "unsent"}

SweepSender ==
  /\ late /\ Open(snd.state)
  /\ snd' = EndSender(CutUpload(snd), "expired")
  /\ net' = net \cup {Failure("receiver", "expired")}
  /\ UNCHANGED <<route, rcv, loop, post, file, fin, hub, landed, accepts, late, trouble, overlap>>

\* Mutant: only offers that nobody answered are swept.
SweepUnanswered ==
  /\ late /\ rcv.state = "pending"
  /\ rcv' = EndReceiver(rcv, "expired")
  /\ net' = net \cup {Failure("sender", "expired")}
  /\ UNCHANGED <<route, snd, loop, post, file, fin, hub, landed, accepts, late, trouble, overlap>>

SweepReceiver ==
  /\ late /\ Open(rcv.state)
  /\ EndReceiving(Unlinked(rcv), loop, "expired")
  /\ net' = net \cup {Failure("sender", "expired")}
  /\ UNCHANGED <<route, snd, file, fin, hub, landed, accepts, late, trouble, overlap>>

Lose ==
  /\ Trouble
  /\ \E m \in net : net' = net \ {m}
  /\ UNCHANGED <<route, snd, rcv, loop, post, file, fin, hub, landed, accepts, late, overlap>>

\* A node restarts: transfers and tokens are in memory only, blobs are on disk.
RestartSender ==
  /\ Trouble /\ snd.state \notin {"unsent", "none"}
  /\ snd' = NoSender
  /\ UNCHANGED <<route, rcv, loop, post, file, fin, hub, net, landed, accepts, late, overlap>>

RestartReceiver ==
  /\ Trouble /\ rcv.state # "none"
  /\ Restarted
  /\ UNCHANGED <<route, snd, file, hub, net, landed, accepts, late, overlap>>

RestartHub ==
  /\ Trouble /\ hub.blob # "none"
  /\ hub' = [hub EXCEPT !.up = FALSE, !.down = FALSE]
  /\ UNCHANGED <<route, snd, rcv, loop, post, file, fin, net, landed, accepts, late, overlap>>

User == SendFile \/ RejectFile \/ CancelSend \/ CancelReceive
Control == OnOffer \/ OnAccept \/ OnReject \/ OnRelayReady \/ OnDone \/ OnPeerErrorSender
             \/ OnPeerErrorReceiver \/ OnPeerCancelSender \/ OnPeerCancelReceiver \/ HubFrees
Receiving ==
  \/ \E l \in Loop : BeginReceive(l) \/ FetchGrant(l) \/ Request(l) \/ RequestRefused(l) \/ Chunk(l) \/ Break(l)
                      \/ StreamEnds(l) \/ Retry(l) \/ GiveUp(l) \/ VerifyDownload(l) \/ LandDownload(l)
  \/ \E a \in Attempt : VerifyPost(a) \/ LandPost(a)
Pushing == PostAnswered \/ PostFails \/ PostAgain
             \/ \E a \in Attempt : PostAdmitted(a) \/ PostOpens(a) \/ PostChunk(a) \/ PostEnds(a) \/ PostBreaks(a)
Relaying == UploadGrant \/ Upload \/ UploadFails
Sweeps == SweepSender \/ SweepReceiver \/ BlobSweep
Faults == Lose \/ RestartSender \/ RestartReceiver \/ RestartHub

Next == User \/ AcceptFile \/ Control \/ Receiving \/ Pushing \/ Relaying \/ TimePasses \/ Sweeps \/ Faults

\* The timers run, a message that is not lost is delivered, and a request that
\* is under way goes on or breaks; users and faults owe nothing.
Fairness == WF_vars(TimePasses) /\ WF_vars(SweepSender) /\ WF_vars(SweepReceiver) /\ WF_vars(BlobSweep)
              /\ WF_vars(Control) /\ WF_vars(Receiving) /\ WF_vars(Pushing) /\ WF_vars(Relaying)

Spec == Init /\ [][Next]_vars /\ Fairness

-----------------------------------------------------------------------------
TypeOK ==
  /\ route \in Route /\ snd \in Sender /\ rcv \in Receiver
  /\ loop \in [Loop -> LoopState]
  /\ post \in [Attempt -> {"none", "asked", "open", "broken", "answered", "gone"}]
  /\ file \in [Inode -> 0..(Chunks + Chunks)]
  /\ fin \in [Attempt -> {"none", "check", "land"}]
  /\ hub \in [blob : {"none", "part", "full"}, up : BOOLEAN, down : BOOLEAN]
  /\ net \subseteq Message
  /\ landed \in Seq(0..(Chunks + Chunks)) /\ accepts \in 0..MaxAccepts
  /\ late \in BOOLEAN /\ overlap \in BOOLEAN
  /\ trouble \in 0..MaxTrouble

\* A sender that reports the file as sent is right, whatever was lost, retried,
\* rejected or restarted: the file is in the receiver's inbox.
SentMeansSaved == snd.state = "done" => landed # << >>

\* What is in the inbox is the whole file, once for every time the offer was
\* accepted at the most, as long as the receiver never served two requests of the
\* transfer side by side: a POST that is tried again while the first is still
\* being verified takes the partial file away under it.
SavedWholeOnce == ~overlap => Len(landed) <= accepts /\ \A i \in 1..Len(landed) : landed[i] = Chunks

\* A transfer that has ended at a node has no token left there, so that no new
\* request can begin, although users, sweeps, errors and late messages end it
\* at any moment of a request.
NoTokenAfterTheEnd ==
  /\ snd.tok => Open(snd.state)
  /\ rcv.tok # {} => Open(rcv.state)

\* Every offer comes to an end at both peers, whatever is lost or restarted, and
\* the hub does not keep the blob.
Settled == ~Open(snd.state) /\ ~Open(rcv.state) /\ hub.blob = "none"
Settles == [](snd.state = "offered" => <>Settled)

-----------------------------------------------------------------------------
(* Why the invariants hold. *)

Answers == {m \in net : m.type = "accept"}
Unreachable == Failure("sender", "pull-unreachable")

\* A request that waits to be tried again has a try left.
TryLeft == (snd.run = "wait" => snd.try < Tries) /\ \A l \in Loop : loop[l].run = "wait" => loop[l].try < Tries

\* What the receiver takes for its open stream is one.
ActiveIsOpen ==
  /\ \A a \in Attempt : rcv.active = a => post[a] \in {"open", "broken"}
  /\ \A l \in Loop : rcv.active = Tries + l => loop[l].run \in {"stream", "cut"}

\* A message that says done, like a sender that believes it, has a file behind it.
DoneMeansSaved == snd.state = "done" \/ Msg("sender", "done") \in net => landed # << >>

\* An accept that has not been made started nothing.
LoopsAccepted ==
  /\ \A l \in Loop : accepts < l => loop[l] = NoLoop
  /\ accepts = 0 => rcv.tok = {} /\ \A a \in Attempt : post[a] = "none"

\* A token for a push is given where a push can come.
TokensRouted == rcv.tok # {} => route.receiver

-----------------------------------------------------------------------------
(* What holds besides when the offer is accepted once, which is by loop 1. *)

Run == loop[1].run
Kind == loop[1].kind

\* The receiver has not chosen a mode: nobody has begun anything.
Undecided == snd.state = "unsent" \/ Msg("receiver", "offer") \in net \/ rcv.state = "pending" \/ Run = "probe"
NothingBegun ==
  /\ snd.state = "unsent" => net = {}
  /\ snd.state = "unsent" \/ Msg("receiver", "offer") \in net => rcv = NoReceiver /\ accepts = 0
  /\ Undecided =>
       /\ snd.run = "idle" /\ snd.push = 0 /\ Run \in {"idle", "probe"} /\ rcv.tok = {}
       /\ Answers = {} /\ Msg("receiver", "ready") \notin net /\ Unreachable \notin net
       /\ landed = << >> /\ \A a \in Attempt : post[a] = "none" /\ fin[a] = "none"

\* The sender does nothing before the answer, and the answer comes once.
AnswerFirst ==
  /\ Answers # {} => snd.run = "idle" /\ snd.push = 0 /\ Msg("receiver", "ready") \notin net
  /\ \A m, n \in Answers : m = n

\* An accepted transfer waits for its first request.
AcceptedWaits ==
  rcv.state = "accepted" => Run = "idle" /\ \A a \in Attempt : post[a] \in {"none", "asked"} /\ fin[a] = "none"

Looping == Run \in {"try", "stream", "cut", "wait", "check", "land"}

\* While the receiver pulls, the sender pushes nothing; it may when the pull has
\* given up, and the receiver does not accept anything else by then.
Pulls == Looping /\ Kind = "pull"
PullAlone ==
  /\ Run = "grant" => Kind = "relay"
  /\ Pulls \/ Unreachable \in net =>
       snd.run = "idle" /\ Msg("receiver", "ready") \notin net /\ \A m \in Answers : m.mode = "pull"
  /\ Pulls => Unreachable \notin net /\ \A a \in Attempt : post[a] = "none"
  /\ Unreachable \in net => Run \in {"idle", "tell"} /\ rcv.state # "accepted"

\* By the time the receiver downloads from the hub, the sender has pushed in vain.
Downloading == Kind = "relay" /\ (Looping \/ Run = "grant")
RelayAlone ==
  /\ Msg("receiver", "ready") \in net \/ Downloading => snd.run = "idle" /\ Answers = {} /\ Unreachable \notin net
  /\ Downloading /\ ~overlap => \A a \in Attempt : post[a] # "answered" /\ (post[a] = "open" => file[a] = 0)

\* A file is being verified for the POST that brought it.
VerifiedForRequest == \A a \in Attempt : fin[a] # "none" => post[a] = "answered"

\* One request at a time, unless they met.
OneAtATime ==
  ~overlap =>
    /\ \A a, b \in Attempt : InWork(a) /\ InWork(b) => a = b
    /\ Busy(1) => \A a \in Attempt : ~InWork(a)

\* What was verified stays whole until it is renamed.
WholeStays ==
  ~overlap /\ (Run = "land" \/ \E a \in Attempt : fin[a] = "land") /\ rcv.path # 0 => file[rcv.path] = Chunks

\* The request that saved the file was the last.
SavedLast ==
  ~overlap /\ landed # << >> =>
    /\ Run \in {"idle", "tell"} /\ rcv.tok = {} /\ rcv.state # "accepted"
    /\ \A a \in Attempt : ~InWork(a)

InOrder ==
  /\ NothingBegun /\ AnswerFirst /\ AcceptedWaits /\ PullAlone /\ RelayAlone
  /\ VerifiedForRequest /\ OneAtATime /\ WholeStays /\ SavedLast /\ SavedWholeOnce

Inv ==
  /\ TypeOK /\ TryLeft /\ NoTokenAfterTheEnd /\ DoneMeansSaved
  /\ ActiveIsOpen /\ LoopsAccepted /\ TokensRouted /\ (accepts <= 1 => InOrder)
=============================================================================
