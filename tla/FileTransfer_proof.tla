------------------------ MODULE FileTransfer_proof ------------------------
(***************************************************************************)
(* Proofs about a file transfer, for any number of chunks, tries, accepts  *)
(* and troubles.                                                           *)
(***************************************************************************)
EXTENDS FileTransfer, SequenceTheorems, TLAPS

LEMMA Numbers ==
  /\ Tries \in Nat /\ Chunks \in Nat /\ MaxAccepts \in Nat /\ MaxTrouble \in Nat
  /\ Attempt = 1..Tries /\ Loop = 1..MaxAccepts /\ Inode = 1..(Tries + MaxAccepts)
  /\ 1 \in Attempt /\ 1 \in Loop /\ 1 \in 0..Tries /\ 0 \in 0..Tries /\ 0 \in 0..Chunks /\ 0 # Chunks
BY TransferAssumption DEF Attempt, Loop, Inode

\* The inodes of POSTs and of loops are apart.
LEMMA Inodes ==
  /\ Attempt \subseteq Inode /\ 0 \notin Inode /\ 0 \notin Attempt
  /\ \A l \in Loop : Tries + l \in Inode \ Attempt
  /\ \A k, l \in Loop : Tries + k = Tries + l => k = l
BY Numbers

-----------------------------------------------------------------------------
(* What a node does to its own record.                                     *)

LEMMA EndSenderOf ==
  ASSUME NEW s \in Sender, NEW state \in TransferState
  PROVE  LET n == EndSender(s, state) IN
         n \in Sender /\ n.state = state /\ n.tok = FALSE /\ n.run = s.run /\ n.try = s.try
BY DEF EndSender, Sender

LEMMA CutUploadOf ==
  ASSUME NEW s \in Sender
  PROVE  LET n == CutUpload(s) IN
         /\ n \in Sender /\ n.state = s.state /\ n.tok = s.tok /\ n.try = s.try
         /\ n.run = "wait" => s.run = "wait"
BY DEF CutUpload, Sender

LEMMA FailSenderOf ==
  ASSUME NEW s \in Sender
  PROVE  LET n == FailSender(s) IN
         /\ n \in Sender /\ n.state = "failed" /\ n.tok = FALSE /\ n.try = s.try
         /\ n.run = "wait" => s.run = "wait"
<1>1. "failed" \in TransferState
  BY DEF TransferState, Terminal
<1> DEFINE c == CutUpload(s)
<1>2. c \in Sender /\ c.try = s.try /\ (c.run = "wait" => s.run = "wait")
  BY CutUploadOf
<1> HIDE DEF c
<1>3. EndSender(c, "failed") \in Sender
  BY <1>1, <1>2, EndSenderOf
<1> QED BY <1>1, <1>2, <1>3, EndSenderOf DEF FailSender, c

LEMMA EndReceiverOf ==
  ASSUME NEW r \in Receiver, NEW state \in TransferState
  PROVE  LET n == EndReceiver(r, state) IN
         /\ n \in Receiver /\ n.state = state /\ n.tok = {}
         /\ n.blob = r.blob /\ n.active = r.active /\ n.path = r.path
BY DEF EndReceiver, Receiver

LEMMA UnlinkedOf ==
  ASSUME NEW r \in Receiver
  PROVE  LET n == Unlinked(r) IN
         /\ n \in Receiver /\ n.state = r.state /\ n.tok = r.tok /\ n.path = 0
         /\ n.blob = r.blob /\ n.active = r.active
BY DEF Unlinked, Receiver

PostType == [Attempt -> {"none", "asked", "open", "broken", "answered", "gone"}]
LoopType == [Loop -> LoopState]
FileType == [Inode -> 0..(Chunks + Chunks)]

LEMMA Typed ==
  ASSUME Inv
  PROVE  /\ snd \in Sender /\ rcv \in Receiver /\ loop \in LoopType /\ post \in PostType /\ file \in FileType
         /\ fin \in [Attempt -> {"none", "check", "land"}] /\ net \subseteq Message
         /\ landed \in Seq(0..(Chunks + Chunks)) /\ overlap \in BOOLEAN /\ accepts \in 0..MaxAccepts
         /\ ActiveIsOpen
BY DEF Inv, TypeOK, PostType, FileType, LoopType

LEMMA NothingYet ==
  /\ NoSender \in Sender /\ NoSender.tok = FALSE /\ NoSender.run = "idle" /\ NoSender.state = "none"
  /\ NoReceiver \in Receiver /\ NoReceiver.tok = {} /\ NoReceiver.state = "none" /\ NoReceiver.active = 0
  /\ NoLoop \in LoopState /\ NoLoop.run = "idle" /\ NoLoop.kind = "pull"
BY Numbers DEF NoSender, NoReceiver, NoLoop, Sender, Receiver, LoopState, TransferState, Mode

\* Only a POST that is open is cut, and only a loop that streams.
OnlyCuts == \A a \in Attempt : post'[a] = post[a] \/ (post[a] \in {"open", "broken"} /\ post'[a] = "broken")
CutFrom(s, t) == t = s \/ (s.run = "stream" /\ t = [s EXCEPT !.run = "cut"])

LEMMA PostStays == post \in PostType /\ post' = post => post' \in PostType /\ OnlyCuts
BY DEF PostType, OnlyCuts

LEMMA EndReceivingOf ==
  ASSUME Inv, NEW r \in Receiver, r.active \in {rcv.active, 0}, NEW ls \in LoopType, NEW state \in Terminal,
         EndReceiving(r, ls, state)
  PROVE  /\ rcv' \in Receiver /\ rcv'.state = state /\ rcv'.tok = {}
         /\ rcv'.blob = r.blob /\ rcv'.active = r.active /\ rcv'.path = r.path
         /\ loop' \in LoopType /\ \A l \in Loop : CutFrom(ls[l], loop'[l])
         /\ post' \in PostType /\ OnlyCuts
<1>1. rcv' = EndReceiver(r, state) /\ post' = CutPosts(r) /\ loop' = CutLoops(r, ls)
  BY DEF EndReceiving
<1>2. state \in TransferState
  BY DEF TransferState
<1>3. /\ rcv' \in Receiver /\ rcv'.state = state /\ rcv'.tok = {}
      /\ rcv'.blob = r.blob /\ rcv'.active = r.active /\ rcv'.path = r.path
  BY <1>1, <1>2, EndReceiverOf
<1>4. post' \in PostType /\ OnlyCuts
  <2>1. post \in PostType /\ \A a \in Attempt : a # 0 /\ (rcv.active = a => post[a] \in {"open", "broken"})
    BY Typed, Inodes DEF ActiveIsOpen
  <2> QED BY <1>1, <2>1 DEF CutPosts, PostType, OnlyCuts
<1>5. loop' \in LoopType /\ \A l \in Loop : CutFrom(ls[l], loop'[l])
  <2>1. \A l \in Loop : ls[l] \in LoopState
    BY DEF LoopType
  <2>2. \A l \in Loop : [ls[l] EXCEPT !.run = "cut"] \in LoopState
    BY <2>1 DEF LoopState
  <2>3. loop' = [l \in Loop |-> IF r.active = Tries + l /\ ls[l].run = "stream" THEN [ls[l] EXCEPT !.run = "cut"] ELSE ls[l]]
    BY <1>1 DEF CutLoops
  <2> QED BY <2>1, <2>2, <2>3 DEF LoopType, CutFrom
<1> QED BY <1>3, <1>4, <1>5

LEMMA SizeOf ==
  ASSUME NEW f \in 0..(Chunks + Chunks)
  PROVE  /\ Size(f) \in 0..Chunks
         /\ \A pos \in 0..Chunks : pos < Chunks => Written(f, pos) \in 0..(Chunks + Chunks)
BY Numbers DEF Size, Written

\* What a loop comes to when its request fails.
LoopFailed(l) ==
  \/ loop'[l] = NoLoop
  \/ /\ loop'[l].run \in {"wait", "tell"} /\ loop'[l].kind = loop[l].kind
     /\ loop'[l].run = "wait" => loop'[l].try < Tries

LEMMA RequestFailsOf ==
  ASSUME Inv, NEW l \in Loop, NEW r \in Receiver,
         r.active \in {rcv.active, 0}, r.state = rcv.state, r.tok = rcv.tok, r.path = rcv.path, RequestFails(l, r)
  PROVE  /\ rcv' \in Receiver /\ rcv'.active = r.active /\ rcv'.path = rcv.path
         /\ \/ rcv'.state = rcv.state /\ rcv'.tok = rcv.tok
            \/ rcv'.state = "failed" /\ rcv'.tok = {}
         /\ loop' \in LoopType /\ LoopFailed(l) /\ \A k \in Loop : k # l => CutFrom(loop[k], loop'[k])
         /\ post' \in PostType /\ OnlyCuts
         /\ \/ net' = net
            \/ net' = net \cup {Unreachable} /\ loop[l].kind = "pull" /\ loop'[l].run = "tell"
<1> USE Typed
<1> DEFINE from == IF r.path = 0 THEN 0 ELSE Size(file[r.path])
           n(run) == [NoLoop EXCEPT !.run = run, !.kind = loop[l].kind, !.try = loop[l].try, !.from = from]
           idle == [loop EXCEPT ![l] = NoLoop]
<1>1. from \in 0..Chunks
  <2>1. CASE r.path = 0
    BY <2>1, Numbers
  <2>2. CASE r.path # 0
    <3>1. file[r.path] \in 0..(Chunks + Chunks)
      BY <2>2 DEF FileType, Receiver
    <3> QED BY <2>2, <3>1, SizeOf
  <2> QED BY <2>1, <2>2
<1> HIDE DEF from
<1>2. loop[l] \in LoopState /\ NoLoop \in LoopState
  BY NothingYet DEF LoopType
<1>3. \A run \in {"wait", "tell"} :
        n(run) \in LoopState /\ n(run).run = run /\ n(run).kind = loop[l].kind /\ n(run).try = loop[l].try
  BY <1>1, <1>2 DEF LoopState
<1>4. \/ rcv' = r /\ loop' = idle /\ UNCHANGED <<net, post>>
      \/ loop[l].try < Tries /\ rcv' = r /\ loop' = [loop EXCEPT ![l] = n("wait")] /\ UNCHANGED <<net, post>>
      \/ /\ loop[l].kind = "pull" /\ rcv' = r /\ loop' = [loop EXCEPT ![l] = n("tell")]
         /\ net' = net \cup {Failure("sender", "pull-unreachable")} /\ UNCHANGED post
      \/ EndReceiving(r, idle, "failed") /\ UNCHANGED net
  BY DEF RequestFails, from
<1> HIDE DEF n
<1>5. UNCHANGED post => post' \in PostType /\ OnlyCuts
  BY PostStays
<1>6. CASE rcv' = r /\ loop' = idle /\ UNCHANGED <<net, post>>
  BY <1>2, <1>5, <1>6 DEF LoopType, CutFrom, LoopFailed
<1>7. CASE loop[l].try < Tries /\ rcv' = r /\ loop' = [loop EXCEPT ![l] = n("wait")] /\ UNCHANGED <<net, post>>
  BY <1>3, <1>5, <1>7 DEF LoopType, CutFrom, LoopFailed
<1>8. CASE /\ loop[l].kind = "pull" /\ rcv' = r /\ loop' = [loop EXCEPT ![l] = n("tell")]
           /\ net' = net \cup {Failure("sender", "pull-unreachable")} /\ UNCHANGED post
  BY <1>3, <1>5, <1>8 DEF LoopType, CutFrom, LoopFailed, Unreachable
<1>9. CASE EndReceiving(r, idle, "failed") /\ UNCHANGED net
  <2>1. "failed" \in Terminal /\ idle \in LoopType
    BY <1>2 DEF Terminal, LoopType
  <2>2. /\ rcv' \in Receiver /\ rcv'.state = "failed" /\ rcv'.tok = {} /\ rcv'.active = r.active /\ rcv'.path = r.path
        /\ loop' \in LoopType /\ \A k \in Loop : CutFrom(idle[k], loop'[k])
        /\ post' \in PostType /\ OnlyCuts
    BY <1>9, <2>1, EndReceivingOf
  <2>3. loop'[l] = NoLoop
    BY <2>2, NothingYet DEF CutFrom, LoopType
  <2> QED BY <1>9, <2>2, <2>3 DEF LoopFailed, LoopType
<1> QED BY <1>4, <1>6, <1>7, <1>8, <1>9

-----------------------------------------------------------------------------
(* The sender.                                                             *)

LEMMA AcceptOf ==
  ASSUME NEW m \in Message, m.type = "accept"
  PROVE  m.mode \in {"pull", "push", "relay"} /\ m.push \in 0..MaxAccepts /\ m.to = "sender"
BY DEF Message, Mode, ToReceiver, ToSender

\* What OnAccept makes of the sender's record.
Answered(m) ==
  [snd EXCEPT !.state = "transferring", !.mode = m.mode, !.push = m.push, !.try = 1,
              !.run = CASE m.mode = "pull" -> "idle"
                        [] m.mode = "push" -> "post"
                        [] m.mode = "relay" -> "grant"]

LEMMA AnsweredOf ==
  ASSUME snd \in Sender, NEW m \in Message, m.type = "accept"
  PROVE  LET n == Answered(m) IN
         /\ n \in Sender /\ n.state = "transferring" /\ n.tok = snd.tok /\ n.run # "wait"
         /\ n.run = "idle" <=> m.mode = "pull"
<1>1. m.mode \in {"pull", "push", "relay"} /\ m.push \in 0..MaxAccepts
  BY AcceptOf
<1> DEFINE run == CASE m.mode = "pull" -> "idle"
                    [] m.mode = "push" -> "post"
                    [] m.mode = "relay" -> "grant"
<1>2. run \in {"idle", "post", "grant"} /\ (run = "idle" <=> m.mode = "pull")
  <2>1. m.mode = "pull" => run = "idle"
    OBVIOUS
  <2>2. m.mode = "push" => run = "post"
    OBVIOUS
  <2>3. m.mode = "relay" => run = "grant"
    OBVIOUS
  <2> QED BY <1>1, <2>1, <2>2, <2>3
<1>3. Answered(m) = [snd EXCEPT !.state = "transferring", !.mode = m.mode, !.push = m.push, !.try = 1, !.run = run]
  BY DEF Answered
<1> HIDE DEF run
<1> QED BY <1>1, <1>2, <1>3, Numbers DEF Sender, TransferState, Mode

LEMMA AcceptKind ==
  ASSUME OnAccept
  PROVE  \E m \in Answers : /\ net' = net \ {m} /\ (snd' = snd \/ snd' = Answered(m))
                            /\ UNCHANGED <<rcv, loop, post, file, fin, landed, overlap, accepts>>
<1>1. PICK m \in net :
        /\ m.type = "accept" /\ net' = net \ {m}
        /\ \/ snd' = snd
           \/ snd' = [snd EXCEPT !.state = "transferring", !.mode = m.mode, !.push = m.push, !.try = 1,
                                 !.run = CASE m.mode = "pull" -> "idle"
                                           [] m.mode = "push" -> "post"
                                           [] m.mode = "relay" -> "grant"]
        /\ UNCHANGED <<rcv, loop, post, file, fin, landed, overlap, accepts>>
  BY Zenon DEF OnAccept, Take
<1> QED BY <1>1, Zenon DEF Answers, Answered

\* The receiver's loop is no business of the sender's, except for a request.
LEMMA LoopAlone ==
  ASSUME NEW l \in Loop,
         \/ BeginReceive(l) \/ FetchGrant(l) \/ RequestRefused(l) \/ Chunk(l) \/ Break(l) \/ StreamEnds(l)
         \/ Retry(l) \/ GiveUp(l) \/ VerifyDownload(l) \/ LandDownload(l)
  PROVE  UNCHANGED snd
<1>1. CASE BeginReceive(l) \/ FetchGrant(l) \/ RequestRefused(l) \/ Chunk(l) \/ Break(l)
  BY <1>1, Zenon DEF BeginReceive, FetchGrant, RequestRefused, Chunk, Break
<1>2. CASE StreamEnds(l) \/ Retry(l) \/ GiveUp(l)
  BY <1>2, Zenon DEF StreamEnds, Retry, GiveUp
<1>3. CASE VerifyDownload(l)
  BY <1>3, Zenon DEF VerifyDownload
<1>4. CASE LandDownload(l)
  BY <1>4, Zenon DEF LandDownload
<1> QED BY <1>1, <1>2, <1>3, <1>4

SenderOK ==
  /\ snd \in Sender
  /\ snd.tok => Open(snd.state)
  /\ snd.run = "wait" => snd.try < Tries

LEMMA SenderStep ==
  ASSUME SenderOK, net \subseteq Message, [Next]_vars
  PROVE  SenderOK'
<1>u. ASSUME UNCHANGED snd PROVE SenderOK'
  BY <1>u DEF SenderOK
<1> USE Numbers DEF SenderOK, Open, TransferState, Terminal, Mode, Sender, EndSender, CutUpload, FailSender
<1>1. CASE OnOffer \/ AcceptFile \/ RejectFile \/ CancelReceive \/ OnRelayReady \/
          OnPeerErrorReceiver \/ OnPeerCancelReceiver \/ HubFrees \/ BlobSweep \/ TimePasses \/
          SweepReceiver \/ Lose \/ RestartReceiver \/ RestartHub
  BY <1>1, <1>u DEF OnOffer, AcceptFile, RejectFile, CancelReceive, OnRelayReady,
     OnPeerErrorReceiver, OnPeerCancelReceiver, HubFrees, BlobSweep, TimePasses, SweepReceiver, Lose,
     RestartReceiver, RestartHub
<1>2. ASSUME NEW a \in Attempt, VerifyPost(a) \/ LandPost(a) \/ PostAdmitted(a) \/ PostOpens(a) \/
       PostChunk(a) \/ PostEnds(a) \/ PostBreaks(a) PROVE SenderOK'
  BY <1>2, <1>u DEF VerifyPost, LandPost, PostAdmitted, PostOpens, PostChunk, PostEnds, PostBreaks
<1>20. ASSUME NEW l \in Loop, BeginReceive(l) \/ FetchGrant(l) \/ RequestRefused(l) \/ Chunk(l) \/ Break(l) \/
       StreamEnds(l) \/ Retry(l) \/ GiveUp(l) \/ VerifyDownload(l) \/ LandDownload(l) PROVE SenderOK'
  BY <1>20, <1>u, LoopAlone
<1>3. CASE SendFile
  BY <1>3 DEF SendFile
<1>4. CASE OnAccept
  <2>1. PICK m \in Answers : snd' = snd \/ snd' = Answered(m)
    BY <1>4, AcceptKind
  <2>2. m \in Message /\ m.type = "accept"
    BY <2>1 DEF Answers
  <2>3. Answered(m) \in Sender /\ Answered(m).state = "transferring" /\ Answered(m).run # "wait"
    BY <2>2, AnsweredOf
  <2> QED BY <2>1, <2>3
<1>5. CASE OnReject
  BY <1>5 DEF OnReject
<1>6. CASE CancelSend
  BY <1>6 DEF CancelSend
<1>7. CASE OnDone
  BY <1>7 DEF OnDone
<1>8. CASE OnPeerErrorSender
  <2>1. \/ UNCHANGED snd
        \/ snd' = [snd EXCEPT !.mode = "push", !.state = "transferring", !.run = "post", !.try = 1]
        \/ snd' = [snd EXCEPT !.state = "transferring"]
        \/ snd' = FailSender(snd)
    BY <1>8 DEF OnPeerErrorSender
  <2>2. CASE snd' = [snd EXCEPT !.mode = "push", !.state = "transferring", !.run = "post", !.try = 1]
    BY <2>2
  <2>3. CASE snd' = FailSender(snd)
    BY <2>3
  <2>4. CASE snd' = [snd EXCEPT !.state = "transferring"]
    BY <2>4
  <2> QED BY <2>1, <2>2, <2>3, <2>4, <1>u
<1>9. CASE OnPeerCancelSender
  BY <1>9 DEF OnPeerCancelSender
<1>10. ASSUME NEW l \in Loop, Request(l) PROVE SenderOK'
  BY <1>10 DEF Request
<1>11. CASE PostAnswered
  BY <1>11 DEF PostAnswered
<1>12. CASE PostFails
  <2>1. \/ snd' = [snd EXCEPT !.run = "idle"]
        \/ snd.try < Tries /\ snd' = [snd EXCEPT !.run = "wait"]
        \/ snd' = [snd EXCEPT !.run = "grant", !.state = "transferring", !.mode = "relay"]
        \/ snd' = EndSender([snd EXCEPT !.run = "idle"], "failed")
    BY <1>12 DEF PostFails
  <2>2. CASE snd' = [snd EXCEPT !.run = "grant", !.state = "transferring", !.mode = "relay"]
    BY <2>2
  <2>3. CASE snd' = EndSender([snd EXCEPT !.run = "idle"], "failed")
    BY <2>3
  <2>4. CASE snd.try < Tries /\ snd' = [snd EXCEPT !.run = "wait"]
    BY <2>4
  <2> QED BY <2>1, <2>2, <2>3, <2>4
<1>13. CASE PostAgain
  <2>1. snd.try + 1 \in 0..Tries
    BY <1>13 DEF PostAgain
  <2> QED BY <1>13, <2>1 DEF PostAgain
<1>14. CASE UploadGrant
  BY <1>14 DEF UploadGrant
<1>15. CASE Upload
  BY <1>15 DEF Upload
<1>16. CASE UploadFails
  BY <1>16 DEF UploadFails
<1>17. CASE SweepSender
  BY <1>17 DEF SweepSender
<1>18. CASE RestartSender
  BY <1>18, NothingYet DEF RestartSender
<1>19. CASE UNCHANGED vars
  BY <1>19, <1>u DEF vars
<1> QED BY <1>1, <1>2, <1>3, <1>4, <1>5, <1>6, <1>7, <1>8, <1>9, <1>10, <1>11, <1>12, <1>13, <1>14,
          <1>15, <1>16, <1>17, <1>18, <1>19, <1>20 DEF Next, User, Control, Receiving, Pushing, Relaying,
          Sweeps, Faults

-----------------------------------------------------------------------------
(* Most steps are of one of a few kinds.                                   *)

\* The new messages say that something failed or ended.
BadNews == \A m \in net' : m \in net \/ (m \in Message /\ m.type \in {"reject", "cancel", "error"} /\ m # Unreachable)

\* The sender goes on with what it is doing, or ends it; or nobody does anything.
SenderGoesOn ==
  /\ UNCHANGED <<rcv, loop, post, file, fin, landed, overlap, accepts>> /\ BadNews
  /\ snd.run = "idle" => snd'.run = "idle"
  /\ snd'.push # 0 => snd.push # 0
  /\ accepts <= 1 /\ snd'.state = "unsent" => snd.state = "unsent" /\ net' \subseteq net

\* A request of the loop is under way, or what it brought is verified.
Works(l) == loop[l].run \in {"try", "stream", "cut", "check", "land"}

LoopHindered(l) ==
  \/ CutFrom(loop[l], loop'[l])
  \/ Works(l) /\ LoopFailed(l)
  \/ loop[l].run \in {"grant", "tell"} /\ loop'[l] = NoLoop

\* A request of the receiver's fails, or its transfer ends.
Hindered ==
  /\ rcv' \in Receiver /\ rcv'.active \in {rcv.active, 0} /\ rcv'.path \in {rcv.path, 0}
  /\ \/ rcv'.state = rcv.state /\ rcv'.tok = rcv.tok
     \/ rcv'.state \in Terminal /\ rcv'.tok = {}
  /\ loop' \in LoopType /\ \A l \in Loop : LoopHindered(l)
  /\ rcv'.active # 0 => \A l \in Loop : loop[l].run \in {"stream", "cut"} => loop'[l].run \in {"stream", "cut"}
  /\ post' \in PostType /\ OnlyCuts
  /\ \/ BadNews
     \/ /\ net' = net \cup {Unreachable}
        /\ \E l \in Loop : Works(l) /\ loop[l].kind = "pull" /\ loop'[l].run = "tell"

ReceiverHindered ==
  /\ Hindered /\ UNCHANGED <<snd, file, fin, landed, overlap, accepts>>
  /\ \/ rcv.state # "none" \/ \E l \in Loop : loop[l].run # "idle"
     \/ rcv' = rcv /\ net' \subseteq net

\* What a POST brought is not kept.
Discards(a) ==
  /\ fin[a] # "none" /\ fin' = [fin EXCEPT ![a] = "none"]
  /\ Hindered /\ UNCHANGED <<snd, file, landed, overlap, accepts>>

\* The receiver's process ends and starts again.
Restarts ==
  /\ rcv.state # "none" \/ \E a \in Attempt : fin[a] # "none"
  /\ Restarted /\ UNCHANGED <<snd, file, net, landed, overlap, accepts>>

LEMMA SenderStays ==
  snd' = snd => (snd.run = "idle" => snd'.run = "idle") /\ (snd'.push # 0 => snd.push # 0) /\ (snd'.state = "unsent" => snd.state = "unsent")
OBVIOUS

LEMMA FewerMessages == net' \subseteq net => BadNews
BY DEF BadNews

LEMMA OneMore ==
  ASSUME NEW m \in Message, m.type \in {"reject", "cancel", "error"}, m # Unreachable, net' \subseteq net \cup {m}
  PROVE  BadNews
BY DEF BadNews

LEMMA Messages ==
  /\ \A type \in {"offer", "ready", "cancel"} : Msg("receiver", type) \in Message
  /\ \A type \in {"reject", "done", "cancel"} : Msg("sender", type) \in Message
  /\ Msg("hub", "freed") \in Message
  /\ \A to \in {"sender", "receiver"}, code \in {"io", "pull-unreachable", "expired"} : Failure(to, code) \in Message
<1>1. \A type \in {"offer", "ready", "cancel"} : Msg("receiver", type) \in Message
  BY DEF Message, Msg, ToReceiver
<1>2. \A type \in {"reject", "done", "cancel"} : Msg("sender", type) \in Message
  BY DEF Message, Msg, ToSender
<1>3. Msg("hub", "freed") \in Message
  BY DEF Message, Msg
<1>4. \A to \in {"sender", "receiver"}, code \in {"io", "pull-unreachable", "expired"} : Failure(to, code) \in Message
  BY DEF Message, Failure
<1> QED BY <1>1, <1>2, <1>3, <1>4

LEMMA News ==
  /\ \A to \in {"sender", "receiver"}, code \in {"io", "expired"} :
       /\ Failure(to, code) \in Message /\ Failure(to, code).type = "error" /\ Failure(to, code) # Unreachable
  /\ \A m \in {Msg("sender", "reject"), Msg("sender", "cancel"), Msg("receiver", "cancel")} :
       m \in Message /\ m.type \in {"reject", "cancel"} /\ m # Unreachable
<1>1. \A to \in {"sender", "receiver"}, code \in {"io", "expired"} :
        Failure(to, code).type = "error" /\ Failure(to, code) # Unreachable
  BY DEF Failure, Unreachable
<1>2. \A m \in {Msg("sender", "reject"), Msg("sender", "cancel"), Msg("receiver", "cancel")} :
        m.type \in {"reject", "cancel"} /\ m # Unreachable
  BY DEF Msg, Failure, Unreachable
<1> QED BY <1>1, <1>2, Messages

\* Before the offer is sent there is nothing to lose or to answer.
LEMMA UnsentIsIdle ==
  ASSUME Inv, accepts <= 1, snd.state = "unsent"
  PROVE  accepts = 0 /\ net = {} /\ snd.run = "idle" /\ rcv = NoReceiver
BY DEF Inv, InOrder, NothingBegun, Undecided

LEMMA SenderKind ==
  ASSUME Inv,
         \/ OnReject \/ CancelSend \/ OnDone \/ OnPeerCancelSender \/ HubFrees \/ BlobSweep \/ TimePasses
         \/ SweepSender \/ Lose \/ RestartSender \/ RestartHub \/ PostAnswered \/ PostFails \/ PostAgain
         \/ UploadGrant \/ UploadFails \/ UNCHANGED vars
  PROVE  SenderGoesOn
<1>1. snd \in Sender /\ (accepts <= 1 /\ snd.state = "unsent" => net = {} /\ snd.run = "idle")
  BY Typed, UnsentIsIdle
<1>2. UNCHANGED <<rcv, loop, post, file, fin, landed, overlap, accepts>>
  BY DEF OnReject, CancelSend, OnDone, OnPeerCancelSender, HubFrees, BlobSweep, TimePasses, SweepSender, Lose,
         RestartSender, RestartHub, PostAnswered, PostFails, PostAgain, UploadGrant, UploadFails, vars
<1>3. BadNews
  <2>1. CASE OnReject \/ OnDone \/ OnPeerCancelSender \/ HubFrees \/ BlobSweep \/ TimePasses \/ Lose \/
             RestartSender \/ RestartHub \/ PostAnswered \/ PostAgain \/ UploadFails \/ UNCHANGED vars
    <3>1. net' \subseteq net
      BY <2>1 DEF OnReject, OnDone, OnPeerCancelSender, HubFrees, BlobSweep, TimePasses, Lose, RestartSender,
           RestartHub, PostAnswered, PostAgain, UploadFails, vars, Take
    <3> QED BY <3>1, FewerMessages
  <2>2. CASE CancelSend
    BY <2>2, News, OneMore DEF CancelSend
  <2>3. CASE SweepSender
    BY <2>3, News, OneMore DEF SweepSender
  <2>4. CASE PostFails
    <3>1. net' \subseteq net \cup {Failure("receiver", "io")}
      BY <2>4 DEF PostFails
    <3> QED BY <3>1, News, OneMore
  <2>5. CASE UploadGrant
    <3>1. net' \subseteq net \cup {Failure("receiver", "io")}
      BY <2>5 DEF UploadGrant
    <3> QED BY <3>1, News, OneMore
  <2> QED BY <2>1, <2>2, <2>3, <2>4, <2>5
<1>4. /\ snd.run = "idle" => snd'.run = "idle"
      /\ snd'.push # 0 => snd.push # 0
      /\ snd'.state = "unsent" => snd.state = "unsent"
  <2>1. CASE HubFrees \/ BlobSweep \/ TimePasses \/ Lose \/ RestartHub \/ UNCHANGED vars
    BY <2>1, SenderStays DEF HubFrees, BlobSweep, TimePasses, Lose, RestartHub, vars
  <2>2. CASE OnReject
    BY <2>2, <1>1 DEF OnReject, EndSender, Sender
  <2>3. CASE CancelSend
    BY <2>3, <1>1 DEF CancelSend, EndSender, CutUpload, Sender
  <2>4. CASE OnDone
    BY <2>4, <1>1 DEF OnDone, EndSender, Sender
  <2>5. CASE OnPeerCancelSender
    BY <2>5, <1>1 DEF OnPeerCancelSender, EndSender, CutUpload, Sender
  <2>6. CASE SweepSender
    BY <2>6, <1>1 DEF SweepSender, EndSender, CutUpload, Sender
  <2>7. CASE RestartSender
    BY <2>7 DEF RestartSender, NoSender
  <2>8. CASE PostAnswered \/ PostAgain
    BY <2>8, <1>1 DEF PostAnswered, PostAgain, Sender
  <2>9. CASE PostFails
    <3>1. \/ snd' = [snd EXCEPT !.run = "idle"]
          \/ snd' = [snd EXCEPT !.run = "wait"]
          \/ snd' = [snd EXCEPT !.run = "grant", !.state = "transferring", !.mode = "relay"]
          \/ snd' = EndSender([snd EXCEPT !.run = "idle"], "failed")
      BY <2>9 DEF PostFails
    <3>2. snd.run # "idle"
      BY <2>9 DEF PostFails
    <3> QED BY <3>1, <3>2, <1>1 DEF EndSender, Sender
  <2>10. CASE UploadGrant
    BY <2>10, <1>1 DEF UploadGrant, EndSender, Sender
  <2>11. CASE UploadFails
    BY <2>11, <1>1 DEF UploadFails, EndSender, Sender
  <2> QED BY <2>1, <2>2, <2>3, <2>4, <2>5, <2>6, <2>7, <2>8, <2>9, <2>10, <2>11
<1>5. accepts <= 1 /\ snd.state = "unsent" => net' \subseteq net
  BY <1>1 DEF OnReject, CancelSend, OnDone, OnPeerCancelSender, HubFrees, BlobSweep, TimePasses, SweepSender, Lose,
         RestartSender, RestartHub, PostAnswered, PostFails, PostAgain, UploadGrant, UploadFails, vars, Receives, Open
<1> QED BY <1>2, <1>3, <1>4, <1>5 DEF SenderGoesOn

\* A transfer that ends at the receiver, its partial file gone or not.
LEMMA EndIsHindered ==
  ASSUME Inv, NEW r \in {rcv, Unlinked(rcv)}, NEW state \in Terminal, EndReceiving(r, loop, state), BadNews
  PROVE  Hindered
<1>1. r \in Receiver /\ r.active = rcv.active /\ r.path \in {rcv.path, 0} /\ loop \in LoopType
  BY Typed, UnlinkedOf
<1>2. /\ rcv' \in Receiver /\ rcv'.state = state /\ rcv'.tok = {}
      /\ rcv'.active = r.active /\ rcv'.path = r.path
      /\ loop' \in LoopType /\ \A l \in Loop : CutFrom(loop[l], loop'[l])
      /\ post' \in PostType /\ OnlyCuts
  BY <1>1, EndReceivingOf
<1>3. \A l \in Loop : loop[l].run \in {"stream", "cut"} => loop'[l].run \in {"stream", "cut"}
  BY <1>2, Typed DEF CutFrom, LoopType, LoopState
<1> QED BY <1>1, <1>2, <1>3 DEF Hindered, LoopHindered

\* The same when a loop comes to its end with it.
LEMMA LoopEndIsHindered ==
  ASSUME Inv, NEW l \in Loop, loop[l].run \in {"grant", "tell", "check", "land"},
         NEW r \in {rcv, Unlinked(rcv)}, EndReceiving(r, [loop EXCEPT ![l] = NoLoop], "failed"), BadNews
  PROVE  Hindered
<1> DEFINE ls == [loop EXCEPT ![l] = NoLoop]
<1>1. r \in Receiver /\ r.active = rcv.active /\ r.path \in {rcv.path, 0}
  BY Typed, UnlinkedOf
<1>2. ls \in LoopType /\ ls[l] = NoLoop /\ \A k \in Loop : k # l => ls[k] = loop[k]
  BY Typed, NothingYet DEF LoopType
<1>3. EndReceiving(r, ls, "failed") /\ "failed" \in Terminal
  BY DEF Terminal
<1> HIDE DEF ls
<1>4. /\ rcv' \in Receiver /\ rcv'.state = "failed" /\ rcv'.tok = {}
      /\ rcv'.active = r.active /\ rcv'.path = r.path
      /\ loop' \in LoopType /\ \A k \in Loop : CutFrom(ls[k], loop'[k])
      /\ post' \in PostType /\ OnlyCuts
  BY <1>1, <1>2, <1>3, EndReceivingOf
<1>5. loop'[l] = NoLoop /\ \A k \in Loop : k # l => CutFrom(loop[k], loop'[k])
  <2>1. CutFrom(NoLoop, loop'[l]) /\ NoLoop.run # "stream"
    BY <1>2, <1>4, NothingYet
  <2>2. \A k \in Loop : k # l => CutFrom(loop[k], loop'[k])
    <3>1. ASSUME NEW k \in Loop, k # l PROVE CutFrom(loop[k], loop'[k])
      <4>1. CutFrom(ls[k], loop'[k]) /\ ls[k] = loop[k]
        BY <1>2, <1>4, <3>1
      <4> QED BY <4>1
    <3> QED BY <3>1
  <2> QED BY <2>1, <2>2 DEF CutFrom
<1>6. \A k \in Loop : LoopHindered(k)
  BY <1>5 DEF LoopHindered, Works, LoopFailed
<1>7. \A k \in Loop : loop[k].run \in {"stream", "cut"} => loop'[k].run \in {"stream", "cut"}
  BY <1>5, Typed DEF CutFrom, LoopType, LoopState
<1> QED BY <1>1, <1>3, <1>4, <1>6, <1>7 DEF Hindered

\* A request of a loop that fails.
LEMMA FailIsHindered ==
  ASSUME Inv, NEW l \in Loop, Works(l), NEW r \in Receiver,
         r.active \in {rcv.active, 0}, r.state = rcv.state, r.tok = rcv.tok, r.path = rcv.path,
         r.active = 0 \/ loop[l].run \notin {"stream", "cut"}, RequestFails(l, r)
  PROVE  Hindered
<1>1. /\ rcv' \in Receiver /\ rcv'.active = r.active /\ rcv'.path = rcv.path
      /\ \/ rcv'.state = rcv.state /\ rcv'.tok = rcv.tok
         \/ rcv'.state = "failed" /\ rcv'.tok = {}
      /\ loop' \in LoopType /\ LoopFailed(l) /\ \A k \in Loop : k # l => CutFrom(loop[k], loop'[k])
      /\ post' \in PostType /\ OnlyCuts
      /\ \/ net' = net
         \/ net' = net \cup {Unreachable} /\ loop[l].kind = "pull" /\ loop'[l].run = "tell"
  BY RequestFailsOf
<1>2. \A k \in Loop : LoopHindered(k)
  BY <1>1 DEF LoopHindered
<1>3. \A k \in Loop : k # l => (loop[k].run \in {"stream", "cut"} => loop'[k].run \in {"stream", "cut"})
  BY <1>1, Typed DEF CutFrom, LoopType, LoopState
<1>4. "failed" \in Terminal /\ (net' = net => BadNews)
  BY FewerMessages DEF Terminal
<1> QED BY <1>1, <1>2, <1>3, <1>4 DEF Hindered

LEMMA ReceiverKind ==
  ASSUME Inv, RejectFile \/ CancelReceive \/ OnPeerErrorReceiver \/ OnPeerCancelReceiver \/ SweepReceiver
  PROVE  ReceiverHindered
<1> USE Typed
<1>1. {"rejected", "cancelled", "expired", "failed"} \subseteq Terminal /\ "none" \notin Terminal
  BY DEF Terminal
<1>2. CASE RejectFile
  <2>1. rcv' = EndReceiver(rcv, "rejected") /\ rcv.state # "none" /\ net' = net \cup {Msg("sender", "reject")}
        /\ UNCHANGED <<snd, loop, post, file, fin, landed, overlap, accepts>>
    BY <1>2 DEF RejectFile
  <2>2. "rejected" \in TransferState
    BY <1>1 DEF TransferState
  <2>3. /\ rcv' \in Receiver /\ rcv'.state = "rejected" /\ rcv'.tok = {}
        /\ rcv'.active = rcv.active /\ rcv'.path = rcv.path
    BY <2>1, <2>2, EndReceiverOf
  <2>4. BadNews /\ post' \in PostType /\ OnlyCuts
    BY <2>1, News, OneMore, PostStays
  <2>5. loop' \in LoopType /\ \A l \in Loop : LoopHindered(l)
    BY <2>1 DEF LoopHindered, CutFrom
  <2> QED BY <1>1, <2>1, <2>3, <2>4, <2>5 DEF ReceiverHindered, Hindered
<1>3. CASE CancelReceive
  <2>1. /\ net' = net \cup {Msg("sender", "cancel")} /\ rcv.state # "none"
        /\ EndReceiving(Unlinked(rcv), loop, "cancelled")
        /\ UNCHANGED <<snd, file, fin, landed, overlap, accepts>>
    BY <1>3, Zenon DEF CancelReceive
  <2>2. BadNews
    BY <2>1, News, OneMore
  <2>3. Hindered
    BY <1>1, <2>1, <2>2, EndIsHindered
  <2> QED BY <2>1, <2>3 DEF ReceiverHindered
<1>4. ASSUME UNCHANGED <<rcv, loop, post, snd, file, fin, landed, overlap, accepts>>, net' \subseteq net PROVE ReceiverHindered
  <2>1. post' \in PostType /\ OnlyCuts /\ BadNews
    BY <1>4, PostStays, FewerMessages
  <2>2. loop' \in LoopType /\ \A l \in Loop : LoopHindered(l)
    BY <1>4 DEF LoopHindered, CutFrom
  <2> QED BY <1>4, <2>1, <2>2 DEF ReceiverHindered, Hindered
<1>5. CASE OnPeerErrorReceiver
  <2>1. net' \subseteq net /\ UNCHANGED <<snd, file, fin, landed, overlap, accepts>>
    BY <1>5, Zenon DEF OnPeerErrorReceiver, Take
  <2>2. \/ UNCHANGED <<rcv, loop, post>>
        \/ rcv.state # "none" /\ EndReceiving(rcv, loop, "failed")
    BY <1>5, Zenon DEF OnPeerErrorReceiver
  <2>3. CASE rcv.state # "none" /\ EndReceiving(rcv, loop, "failed")
    <3>1. Hindered
      BY <1>1, <2>1, <2>3, FewerMessages, EndIsHindered
    <3> QED BY <2>1, <2>3, <3>1 DEF ReceiverHindered
  <2> QED BY <1>4, <2>1, <2>2, <2>3
<1>6. CASE OnPeerCancelReceiver
  <2>1. net' \subseteq net /\ UNCHANGED <<snd, file, fin, landed, overlap, accepts>>
    BY <1>6, Zenon DEF OnPeerCancelReceiver, Take
  <2>2. \/ UNCHANGED <<rcv, loop, post>>
        \/ rcv.state # "none" /\ EndReceiving(Unlinked(rcv), loop, "cancelled")
    BY <1>6, Zenon DEF OnPeerCancelReceiver
  <2>3. CASE rcv.state # "none" /\ EndReceiving(Unlinked(rcv), loop, "cancelled")
    <3>1. Hindered
      BY <1>1, <2>1, <2>3, FewerMessages, EndIsHindered
    <3> QED BY <2>1, <2>3, <3>1 DEF ReceiverHindered
  <2> QED BY <1>4, <2>1, <2>2, <2>3
<1>7. CASE SweepReceiver
  <2>1. /\ net' = net \cup {Failure("sender", "expired")} /\ Open(rcv.state)
        /\ EndReceiving(Unlinked(rcv), loop, "expired")
        /\ UNCHANGED <<snd, file, fin, landed, overlap, accepts>>
    BY <1>7, Zenon DEF SweepReceiver
  <2>2. BadNews /\ rcv.state # "none"
    BY <2>1, News, OneMore DEF Open
  <2>3. Hindered
    BY <1>1, <2>1, <2>2, EndIsHindered
  <2> QED BY <2>1, <2>2, <2>3 DEF ReceiverHindered
<1> QED BY <1>2, <1>3, <1>5, <1>6, <1>7

LEMMA LoopKind ==
  ASSUME Inv, NEW l \in Loop, RequestRefused(l) \/ Break(l) \/ GiveUp(l)
  PROVE  ReceiverHindered
<1> USE Typed
<1>0. loop[l].run # "idle"
  BY Zenon DEF RequestRefused, Break, GiveUp
<1>1. CASE RequestRefused(l)
  <2>1. loop[l].run = "try" /\ RequestFails(l, rcv) /\ UNCHANGED <<snd, file, fin, landed, overlap, accepts>>
    BY <1>1, Zenon DEF RequestRefused
  <2>2. Hindered
    BY <2>1, FailIsHindered DEF Works
  <2> QED BY <1>0, <2>1, <2>2 DEF ReceiverHindered
<1>2. CASE Break(l)
  <2> DEFINE r == [rcv EXCEPT !.active = 0]
  <2>1. loop[l].run \in {"stream", "cut"} /\ RequestFails(l, r) /\ UNCHANGED <<snd, file, fin, landed, overlap, accepts>>
    BY <1>2, Zenon DEF Break
  <2>2. r \in Receiver /\ r.active = 0 /\ r.state = rcv.state /\ r.tok = rcv.tok /\ r.path = rcv.path
    BY DEF Receiver
  <2> HIDE DEF r
  <2>3. Hindered
    BY <2>1, <2>2, FailIsHindered DEF Works
  <2> QED BY <1>0, <2>1, <2>3 DEF ReceiverHindered
<1>3. CASE GiveUp(l)
  <2>1. /\ loop[l].run = "tell" /\ EndReceiving(rcv, [loop EXCEPT ![l] = NoLoop], "failed")
        /\ UNCHANGED <<snd, file, fin, net, landed, overlap, accepts>>
    BY <1>3, Zenon DEF GiveUp
  <2>2. BadNews
    BY <2>1, FewerMessages
  <2>3. Hindered
    BY <2>1, <2>2, LoopEndIsHindered
  <2> QED BY <1>0, <2>1, <2>3 DEF ReceiverHindered
<1> QED BY <1>1, <1>2, <1>3

\* The loop alone goes on, to its next run.
Goes(l, run) ==
  /\ loop' \in LoopType /\ loop'[l].run = run /\ loop'[l].kind = loop[l].kind
  /\ \A k \in Loop : k # l => loop'[k] = loop[k]

\* The hub lets the receiver fetch the blob, or the delay before a request is over.
Resumes(l) ==
  /\ loop[l].run \in {"grant", "wait"} /\ Goes(l, "try")
  /\ UNCHANGED <<snd, rcv, post, file, fin, net, landed, overlap, accepts>>

\* What has been verified is confirmed.
LoopConfirms(l) ==
  /\ loop[l].run = "check" /\ Whole /\ Goes(l, "land")
  /\ UNCHANGED <<snd, rcv, post, file, fin, net, landed, overlap, accepts>>

Confirms(a) ==
  /\ fin[a] = "check" /\ Whole /\ fin' = [fin EXCEPT ![a] = "land"]
  /\ UNCHANGED <<snd, rcv, loop, post, file, net, landed, overlap, accepts>>

\* What was confirmed is put where it belongs.
Lands ==
  /\ rcv.path # 0 /\ landed' = Append(landed, file[rcv.path])
  /\ rcv' \in Receiver /\ rcv'.state = "done" /\ rcv'.tok = {} /\ rcv'.active = rcv.active /\ rcv'.path = 0
  /\ net' = net \cup {Msg("sender", "done")} \cup (IF rcv.blob THEN {Msg("hub", "freed")} ELSE {})
  /\ UNCHANGED <<snd, post, file, overlap, accepts>>

LoopLands(l) ==
  /\ loop[l].run = "land" /\ fin' = fin /\ Lands
  /\ loop' = [loop EXCEPT ![l] = NoLoop]
PostLands(a) == fin[a] = "land" /\ fin' = [fin EXCEPT ![a] = "none"] /\ loop' = loop /\ Lands

LEMMA SavesLands ==
  ASSUME Inv, NEW ls, Saves(ls), UNCHANGED <<snd, file, overlap, accepts>>
  PROVE  Lands /\ loop' = ls
<1> DEFINE u == Unlinked(rcv)
<1>1. u \in Receiver /\ u.path = 0 /\ u.active = rcv.active
  BY Typed, UnlinkedOf
<1>2. /\ rcv.path # 0 /\ landed' = Append(landed, file[rcv.path]) /\ rcv' = EndReceiver(u, "done") /\ loop' = ls
      /\ net' = net \cup {Msg("sender", "done")} \cup (IF rcv.blob THEN {Msg("hub", "freed")} ELSE {})
      /\ post' = post
  BY Zenon DEF Saves
<1> HIDE DEF u
<1>3. "done" \in TransferState
  BY DEF TransferState, Terminal
<1>4. rcv' \in Receiver /\ rcv'.state = "done" /\ rcv'.tok = {} /\ rcv'.active = u.active /\ rcv'.path = u.path
  BY <1>1, <1>2, <1>3, EndReceiverOf
<1> QED BY <1>1, <1>2, <1>4, Zenon DEF Lands

LEMMA VerifyDownloadKind ==
  ASSUME Inv, NEW l \in Loop, VerifyDownload(l)
  PROVE  ReceiverHindered \/ LoopConfirms(l)
<1> USE Typed
<1>1. loop[l].run = "check" /\ UNCHANGED <<snd, file, fin, landed, overlap, accepts>>
  BY Zenon DEF VerifyDownload
<1>2. \/ RequestFails(l, rcv)
      \/ Whole /\ loop' = [loop EXCEPT ![l].run = "land"] /\ UNCHANGED <<rcv, net, post>>
      \/ Mismatches([loop EXCEPT ![l] = NoLoop])
  BY Zenon DEF VerifyDownload
<1>3. CASE RequestFails(l, rcv)
  <2>1. Hindered
    BY <1>1, <1>3, FailIsHindered DEF Works
  <2> QED BY <1>1, <2>1 DEF ReceiverHindered
<1>4. CASE Whole /\ loop' = [loop EXCEPT ![l].run = "land"] /\ UNCHANGED <<rcv, net, post>>
  <2>1. loop[l] \in LoopState
    BY DEF LoopType
  <2>2. Goes(l, "land")
    BY <1>4, <2>1 DEF Goes, LoopType, LoopState
  <2> QED BY <1>1, <1>4, <2>2 DEF LoopConfirms
<1>5. CASE Mismatches([loop EXCEPT ![l] = NoLoop])
  <2>1. /\ EndReceiving(Unlinked(rcv), [loop EXCEPT ![l] = NoLoop], "failed")
        /\ net' = net \cup {Failure("sender", "io")}
    BY <1>5, Zenon DEF Mismatches
  <2>2. BadNews
    BY <2>1, News, OneMore
  <2>3. Hindered
    BY <1>1, <2>1, <2>2, LoopEndIsHindered
  <2> QED BY <1>1, <2>3 DEF ReceiverHindered
<1> QED BY <1>2, <1>3, <1>4, <1>5

LEMMA LandDownloadKind ==
  ASSUME Inv, NEW l \in Loop, LandDownload(l)
  PROVE  ReceiverHindered \/ LoopLands(l)
<1>1. loop[l].run = "land" /\ UNCHANGED <<snd, file, fin, overlap, accepts>>
  BY Zenon DEF LandDownload
<1>2. \/ Saves([loop EXCEPT ![l] = NoLoop])
      \/ UNCHANGED landed /\ RequestFails(l, rcv)
      \/ UNCHANGED landed /\ Mismatches([loop EXCEPT ![l] = NoLoop])
  BY Zenon DEF LandDownload
<1>3. CASE UNCHANGED landed /\ RequestFails(l, rcv)
  <2>1. Hindered
    BY <1>1, <1>3, Typed, FailIsHindered DEF Works
  <2> QED BY <1>1, <1>3, <2>1 DEF ReceiverHindered
<1>4. CASE Saves([loop EXCEPT ![l] = NoLoop])
  BY <1>1, <1>4, SavesLands DEF LoopLands
<1>5. CASE UNCHANGED landed /\ Mismatches([loop EXCEPT ![l] = NoLoop])
  <2>1. /\ EndReceiving(Unlinked(rcv), [loop EXCEPT ![l] = NoLoop], "failed")
        /\ net' = net \cup {Failure("sender", "io")}
    BY <1>5, Zenon DEF Mismatches
  <2>2. BadNews
    BY <2>1, News, OneMore
  <2>3. Hindered
    BY <1>1, <2>1, <2>2, LoopEndIsHindered
  <2> QED BY <1>1, <1>5, <2>3 DEF ReceiverHindered
<1> QED BY <1>2, <1>3, <1>4, <1>5

LEMMA MismatchDiscards ==
  ASSUME Inv, NEW a \in Attempt, fin[a] # "none", fin' = [fin EXCEPT ![a] = "none"], Mismatches(loop),
         UNCHANGED <<snd, file, landed, overlap, accepts>>
  PROVE  Discards(a)
<1>1. EndReceiving(Unlinked(rcv), loop, "failed") /\ net' = net \cup {Failure("sender", "io")}
  BY Zenon DEF Mismatches
<1>2. BadNews /\ "failed" \in Terminal
  BY <1>1, News, OneMore DEF Terminal
<1>3. Hindered
  BY <1>1, <1>2, EndIsHindered
<1> QED BY <1>3 DEF Discards

LEMMA PostKind ==
  ASSUME Inv, NEW a \in Attempt, VerifyPost(a) \/ LandPost(a)
  PROVE  Restarts \/ Confirms(a) \/ Discards(a) \/ PostLands(a)
<1>1. fin[a] \in {"check", "land"} /\ fin[a] # "none" /\ UNCHANGED <<snd, file, overlap, accepts>>
  BY Zenon DEF VerifyPost, LandPost
<1>2. \/ Restarted /\ UNCHANGED <<net, landed>>
      \/ fin[a] = "check" /\ Whole /\ fin' = [fin EXCEPT ![a] = "land"] /\ UNCHANGED <<rcv, loop, net, post, landed>>
      \/ fin' = [fin EXCEPT ![a] = "none"] /\ Mismatches(loop) /\ UNCHANGED landed
      \/ fin[a] = "land" /\ fin' = [fin EXCEPT ![a] = "none"] /\ Saves(loop)
  <2>1. CASE VerifyPost(a)
    BY <2>1, Zenon DEF VerifyPost
  <2>2. CASE LandPost(a)
    BY <2>2, Zenon DEF LandPost
  <2> QED BY <2>1, <2>2, Zenon
<1>3. CASE Restarted /\ UNCHANGED <<net, landed>>
  BY <1>1, <1>3, Zenon DEF Restarts
<1>4. CASE fin[a] = "check" /\ Whole /\ fin' = [fin EXCEPT ![a] = "land"] /\ UNCHANGED <<rcv, loop, net, post, landed>>
  BY <1>1, <1>4 DEF Confirms
<1>5. CASE fin' = [fin EXCEPT ![a] = "none"] /\ Mismatches(loop) /\ UNCHANGED landed
  BY <1>1, <1>5, MismatchDiscards
<1>6. CASE fin[a] = "land" /\ fin' = [fin EXCEPT ![a] = "none"] /\ Saves(loop)
  <2>1. Lands /\ loop' = loop
    BY <1>1, <1>6, SavesLands
  <2> QED BY <1>6, <2>1 DEF PostLands
<1> QED BY <1>2, <1>3, <1>4, <1>5, <1>6, Zenon

LEMMA GrantKind ==
  ASSUME Inv, NEW l \in Loop, FetchGrant(l)
  PROVE  Resumes(l) \/ ReceiverHindered
<1> USE Typed
<1>1. loop[l].run = "grant" /\ UNCHANGED <<snd, file, fin, net, landed, overlap, accepts>>
  BY Zenon DEF FetchGrant
<1>2. \/ loop' = [loop EXCEPT ![l].run = "try", ![l].try = 1] /\ UNCHANGED <<rcv, post>>
      \/ EndReceiving(rcv, [loop EXCEPT ![l] = NoLoop], "failed")
  BY Zenon DEF FetchGrant
<1>3. CASE loop' = [loop EXCEPT ![l].run = "try", ![l].try = 1] /\ UNCHANGED <<rcv, post>>
  <2>1. loop[l] \in LoopState
    BY DEF LoopType
  <2>2. Goes(l, "try")
    BY <1>3, <2>1, Numbers DEF Goes, LoopType, LoopState
  <2> QED BY <1>1, <1>3, <2>2 DEF Resumes
<1>4. CASE EndReceiving(rcv, [loop EXCEPT ![l] = NoLoop], "failed")
  <2>1. BadNews
    BY <1>1, FewerMessages
  <2>2. Hindered
    BY <1>1, <1>4, <2>1, LoopEndIsHindered
  <2> QED BY <1>1, <2>2 DEF ReceiverHindered
<1> QED BY <1>2, <1>3, <1>4

LEMMA RetryKind ==
  ASSUME Inv, NEW l \in Loop, Retry(l)
  PROVE  Resumes(l)
<1>1. loop[l] \in LoopState /\ loop \in LoopType /\ loop[l].try < Tries /\ loop[l].run = "wait"
  BY Typed DEF LoopType, Retry, Inv, TryLeft
<1>2. loop' = [loop EXCEPT ![l].run = "try", ![l].try = @ + 1]
      /\ UNCHANGED <<snd, rcv, post, file, fin, net, landed, overlap, accepts>>
  BY Zenon DEF Retry
<1>3. loop[l].try + 1 \in 0..Tries
  BY <1>1, Numbers DEF LoopState
<1>4. Goes(l, "try")
  BY <1>1, <1>2, <1>3 DEF Goes, LoopType, LoopState
<1> QED BY <1>1, <1>2, <1>4 DEF Resumes

LEMMA StreamGoes ==
  ASSUME Inv, NEW l \in Loop
  PROVE  /\ Request(l) => Goes(l, "stream")
         /\ Chunk(l) => Goes(l, "stream")
         /\ StreamEnds(l) => Goes(l, "check")
<1>1. loop[l] \in LoopState /\ loop \in LoopType /\ rcv \in Receiver
  BY Typed DEF LoopType
<1>2. ASSUME Request(l) PROVE Goes(l, "stream")
  <2> DEFINE out == IF loop[l].from = 0 \/ rcv.path = 0 THEN Tries + l ELSE rcv.path
  <2>1. out \in {0} \cup Inode
    BY <1>1, Inodes DEF Receiver
  <2>2. loop' = [loop EXCEPT ![l].run = "stream", ![l].pos = loop[l].from, ![l].out = out]
    BY <1>2, Zenon DEF Request
  <2> HIDE DEF out
  <2> QED BY <1>1, <2>1, <2>2 DEF Goes, LoopType, LoopState
<1>3. ASSUME Chunk(l) PROVE Goes(l, "stream")
  <2>1. loop' = [loop EXCEPT ![l].pos = @ + 1] /\ loop[l].run = "stream" /\ loop[l].pos < Chunks
    BY <1>3, Zenon DEF Chunk
  <2>2. loop[l].pos + 1 \in 0..Chunks
    BY <1>1, <2>1, Numbers DEF LoopState
  <2> QED BY <1>1, <2>1, <2>2 DEF Goes, LoopType, LoopState
<1>4. ASSUME StreamEnds(l) PROVE Goes(l, "check")
  <2>1. loop' = [loop EXCEPT ![l].run = "check", ![l].out = 0]
    BY <1>4, Zenon DEF StreamEnds
  <2> QED BY <1>1, <2>1 DEF Goes, LoopType, LoopState
<1> QED BY <1>2, <1>3, <1>4

\* The sender is asked to push by a receiver that could not pull.
PushesAfterAll ==
  /\ Unreachable \in net /\ snd.push # 0 /\ net' \subseteq net \ {Unreachable}
  /\ \A a \in Attempt : post[a] = "none"
  /\ snd' = [snd EXCEPT !.mode = "push", !.state = "transferring", !.run = "post", !.try = 1]
  /\ UNCHANGED <<rcv, loop, post, file, fin, landed, overlap, accepts>>

LEMMA PeerErrorKind ==
  ASSUME Inv, OnPeerErrorSender
  PROVE  SenderGoesOn \/ PushesAfterAll
<1>1. PICK m \in net :
        /\ m.type = "error" /\ m.to = "sender"
        /\ net' = net \ {m}
        /\ \/ UNCHANGED snd
           \/ /\ m.code = "pull-unreachable" /\ snd.push # 0 /\ \A a \in Attempt : post[a] = "none"
              /\ snd' = [snd EXCEPT !.mode = "push", !.state = "transferring", !.run = "post", !.try = 1]
           \/ snd' = [snd EXCEPT !.state = "transferring"]
           \/ snd' = FailSender(snd)
  BY DEF OnPeerErrorSender, Take
<1>2. UNCHANGED <<rcv, loop, post, file, fin, landed, overlap, accepts>>
  BY DEF OnPeerErrorSender
<1>3. CASE /\ m.code = "pull-unreachable" /\ snd.push # 0 /\ \A a \in Attempt : post[a] = "none"
           /\ snd' = [snd EXCEPT !.mode = "push", !.state = "transferring", !.run = "post", !.try = 1]
  <2>1. m \in Message
    BY Typed
  <2>2. m = Unreachable
    BY <1>1, <1>3, <2>1 DEF Message, Unreachable, Failure, ToReceiver, ToSender
  <2> QED BY <1>1, <1>2, <1>3, <2>2 DEF PushesAfterAll
<1>b. BadNews
  BY <1>1, FewerMessages
<1>4. CASE UNCHANGED snd
  BY <1>1, <1>2, <1>4, <1>b DEF SenderGoesOn
<1>5. CASE snd' = FailSender(snd)
  <2>2. snd' = [CutUpload(snd) EXCEPT !.state = "failed", !.tok = FALSE] /\ snd \in Sender
    BY <1>5, Typed DEF FailSender, EndSender
  <2>3. CutUpload(snd) \in Sender /\ CutUpload(snd).push = snd.push /\ (snd.run = "idle" => CutUpload(snd).run = "idle")
    BY <2>2 DEF CutUpload, Sender
  <2>4. snd'.push = snd.push /\ snd'.state = "failed" /\ (snd.run = "idle" => snd'.run = "idle")
    BY <2>2, <2>3 DEF Sender
  <2> QED BY <1>1, <1>2, <1>b, <2>4 DEF SenderGoesOn
<1>6. CASE snd' = [snd EXCEPT !.state = "transferring"]
  <2>1. snd'.push = snd.push /\ snd'.state = "transferring" /\ snd'.run = snd.run
    BY <1>6, Typed DEF Sender
  <2> QED BY <1>1, <1>2, <1>b, <2>1 DEF SenderGoesOn
<1> QED BY <1>1, <1>3, <1>4, <1>5, <1>6

\* Another accept starts a loop.
Asks ==
  /\ rcv.state = "pending" /\ accepts < MaxAccepts /\ accepts' = accepts + 1
  /\ loop' = [loop EXCEPT ![accepts + 1].run = "probe"]
  /\ UNCHANGED <<snd, rcv, post, file, fin, net, landed, overlap>>

CannotAccept ==
  /\ rcv.state = "pending" /\ accepts = 0 /\ accepts' = 1
  /\ rcv' = [rcv EXCEPT !.state = "failed"] /\ net' = net \cup {Failure("sender", "io")}
  /\ UNCHANGED <<snd, loop, post, file, fin, landed, overlap>>

LEMMA AcceptFileKind ==
  ASSUME Inv, AcceptFile
  PROVE  Asks \/ CannotAccept
BY Typed, Numbers DEF AcceptFile, Asks, CannotAccept

\* The token and the message of beginReceive that chooses a mode.
Push(l, mode) == IF route.receiver /\ mode # "relay" THEN l ELSE 0
Answer(l, mode) == [to |-> "sender", type |-> "accept", mode |-> mode, push |-> Push(l, mode)]

Begins(l, mode) ==
  /\ loop[l].run = "probe" /\ net' = net \cup {Answer(l, mode)}
  /\ rcv' \in Receiver /\ rcv'.state = (IF mode = "pull" THEN "transferring" ELSE "accepted")
  /\ rcv'.tok = rcv.tok \cup ({Push(l, mode)} \ {0})
  /\ rcv'.active = rcv.active /\ rcv'.path = rcv.path
  /\ loop' \in LoopType /\ loop'[l].run = (IF mode = "pull" THEN "try" ELSE "idle") /\ loop'[l].kind = "pull"
  /\ \A k \in Loop : k # l => loop'[k] = loop[k]
  /\ UNCHANGED <<route, snd, post, file, fin, landed, overlap, accepts>>

Declines(l) ==
  /\ loop[l].run = "probe" /\ net' = net \cup {Msg("sender", "reject")}
  /\ ~route.receiver /\ rcv' = [rcv EXCEPT !.state = "rejected"] /\ loop' = [loop EXCEPT ![l] = NoLoop]
  /\ UNCHANGED <<route, snd, post, file, fin, landed, overlap, accepts>>

LEMMA BeginKind ==
  ASSUME Inv, NEW l \in Loop, BeginReceive(l)
  PROVE  Declines(l) \/ \E mode \in {"pull", "push", "relay"} : Begins(l, mode)
<1> USE Typed
<1>1. \A mode \in Choices : mode \in {"pull", "push", "relay"} \/ (mode = "none" /\ ~route.receiver)
  BY DEF Choices
<1>2. PICK mode \in Choices :
       IF mode = "none"
       THEN /\ rcv' = [rcv EXCEPT !.state = "rejected"]
            /\ loop' = [loop EXCEPT ![l] = NoLoop]
            /\ net' = net \cup {Msg("sender", "reject")}
       ELSE /\ rcv' = [rcv EXCEPT !.state = IF mode = "pull" THEN "transferring" ELSE "accepted",
                                  !.tok = @ \cup ({Push(l, mode)} \ {0}), !.blob = @ /\ mode = "relay"]
            /\ loop' = [loop EXCEPT ![l] = IF mode = "pull" THEN [NoLoop EXCEPT !.run = "try", !.try = 1] ELSE NoLoop]
            /\ net' = net \cup {Answer(l, mode)}
  BY Zenon DEF BeginReceive, Push, Answer
<1>3. loop[l].run = "probe" /\ UNCHANGED <<route, snd, post, file, fin, landed, overlap, accepts>>
  BY Zenon DEF BeginReceive
<1>4. CASE mode = "none"
  BY <1>1, <1>2, <1>3, <1>4 DEF Declines
<1>5. CASE mode # "none"
  <2> DEFINE state == IF mode = "pull" THEN "transferring" ELSE "accepted"
             tok == rcv.tok \cup ({Push(l, mode)} \ {0})
             blob == rcv.blob /\ mode = "relay"
             n == IF mode = "pull" THEN [NoLoop EXCEPT !.run = "try", !.try = 1] ELSE NoLoop
  <2>1. state \in TransferState /\ tok \subseteq Loop /\ blob \in BOOLEAN
    <3>1. Push(l, mode) \in {0, l}
      BY DEF Push
    <3> QED BY <3>1 DEF Receiver, TransferState
  <2>2. rcv' = [rcv EXCEPT !.state = state, !.tok = tok, !.blob = blob]
    BY <1>2, <1>5
  <2>3. n \in LoopState /\ n.run = (IF mode = "pull" THEN "try" ELSE "idle") /\ n.kind = "pull"
    BY NothingYet, Numbers DEF LoopState
  <2>4. loop' = [loop EXCEPT ![l] = n] /\ net' = net \cup {Answer(l, mode)}
    BY <1>2, <1>5
  <2> HIDE DEF n
  <2>5. loop' \in LoopType /\ loop'[l] = n /\ \A k \in Loop : k # l => loop'[k] = loop[k]
    BY <2>3, <2>4 DEF LoopType
  <2> HIDE DEF state, tok, blob
  <2>6. rcv' \in Receiver /\ rcv'.state = state /\ rcv'.tok = tok /\ rcv'.active = rcv.active /\ rcv'.path = rcv.path
    BY <2>1, <2>2 DEF Receiver
  <2>7. rcv'.state = (IF mode = "pull" THEN "transferring" ELSE "accepted") /\ rcv'.tok = rcv.tok \cup ({Push(l, mode)} \ {0})
    BY <2>6 DEF state, tok
  <2>8. Begins(l, mode)
    BY <1>3, <2>3, <2>4, <2>5, <2>6, <2>7 DEF Begins
  <2>9. mode \in {"pull", "push", "relay"}
    BY <1>1, <1>5
  <2> QED BY <2>8, <2>9
<1> QED BY <1>4, <1>5

\* The blob is ready: the receiver that waits for its first request fetches it.
Fetches(l) ==
  /\ rcv.state = "accepted" /\ loop[l].run = "idle" /\ l <= accepts
  /\ loop' \in LoopType /\ loop'[l].run = "grant" /\ loop'[l].kind = "relay"
  /\ \A k \in Loop : k # l => loop'[k] = loop[k]
  /\ rcv' \in Receiver /\ rcv'.state = "transferring" /\ rcv'.tok = rcv.tok
  /\ rcv'.active = rcv.active /\ rcv'.path = rcv.path

Ready ==
  /\ Msg("receiver", "ready") \in net /\ net' = net \ {Msg("receiver", "ready")}
  /\ (rcv.state # "accepted" /\ UNCHANGED <<rcv, loop>>) \/ \E l \in Loop : Fetches(l)
  /\ UNCHANGED <<snd, post, file, fin, landed, overlap, accepts>>

LEMMA ReadyKind ==
  ASSUME Inv, OnRelayReady
  PROVE  Ready
<1> USE Typed
<1>1. /\ Msg("receiver", "ready") \in net /\ net' = net \ {Msg("receiver", "ready")}
      /\ UNCHANGED <<snd, post, file, fin, landed, overlap, accepts>>
  BY DEF OnRelayReady, Take, Receives
<1>2. CASE rcv.state # "accepted"
  BY <1>1, <1>2 DEF OnRelayReady, Ready
<1>3. CASE rcv.state = "accepted"
  <2>1. PICK l \in 1..accepts : loop[l].run = "idle" /\ loop' = [loop EXCEPT ![l].run = "grant", ![l].kind = "relay"]
    BY <1>3 DEF OnRelayReady
  <2>2. l \in Loop /\ l <= accepts
    BY <2>1, Numbers
  <2>3. loop[l] \in LoopState
    BY <2>2 DEF LoopType
  <2>4. /\ loop' \in LoopType /\ loop'[l].run = "grant" /\ loop'[l].kind = "relay"
        /\ \A k \in Loop : k # l => loop'[k] = loop[k]
    BY <2>1, <2>2, <2>3 DEF LoopType, LoopState
  <2>5. rcv' = [rcv EXCEPT !.state = "transferring", !.blob = TRUE] /\ "transferring" \in TransferState
    BY <1>3 DEF OnRelayReady, TransferState
  <2>6. /\ rcv' \in Receiver /\ rcv'.state = "transferring" /\ rcv'.tok = rcv.tok
        /\ rcv'.active = rcv.active /\ rcv'.path = rcv.path
    BY <2>5 DEF Receiver
  <2>7. Fetches(l)
    BY <1>3, <2>1, <2>2, <2>4, <2>6 DEF Fetches
  <2> QED BY <1>1, <2>2, <2>7 DEF Ready
<1> QED BY <1>2, <1>3

LEMMA StepKinds ==
  ASSUME Inv, [Next]_vars
  PROVE  \/ SenderGoesOn \/ ReceiverHindered \/ PushesAfterAll \/ Restarts
         \/ SendFile \/ OnOffer \/ Asks \/ CannotAccept \/ OnAccept \/ Ready \/ Upload
         \/ \E l \in Loop : \/ Declines(l) \/ \E mode \in {"pull", "push", "relay"} : Begins(l, mode)
                            \/ Resumes(l) \/ Request(l) \/ Chunk(l) \/ StreamEnds(l) \/ LoopConfirms(l) \/ LoopLands(l)
         \/ \E a \in Attempt : \/ Discards(a) \/ Confirms(a) \/ PostLands(a)
                               \/ PostAdmitted(a) \/ PostOpens(a) \/ PostChunk(a) \/ PostEnds(a) \/ PostBreaks(a)
<1>1. CASE OnReject \/ CancelSend \/ OnDone \/ OnPeerCancelSender \/ HubFrees \/ BlobSweep \/ TimePasses
           \/ SweepSender \/ Lose \/ RestartSender \/ RestartHub \/ PostAnswered \/ PostFails \/ PostAgain
           \/ UploadGrant \/ UploadFails \/ UNCHANGED vars
  BY <1>1, SenderKind
<1>2. CASE RejectFile \/ CancelReceive \/ OnPeerErrorReceiver \/ OnPeerCancelReceiver \/ SweepReceiver
  BY <1>2, ReceiverKind
<1>3. CASE OnPeerErrorSender
  BY <1>3, PeerErrorKind
<1>4. ASSUME NEW l \in Loop,
             \/ BeginReceive(l) \/ FetchGrant(l) \/ RequestRefused(l) \/ Break(l) \/ Retry(l) \/ GiveUp(l)
             \/ VerifyDownload(l) \/ LandDownload(l)
      PROVE  \/ ReceiverHindered \/ Declines(l) \/ \E mode \in {"pull", "push", "relay"} : Begins(l, mode)
             \/ Resumes(l) \/ LoopConfirms(l) \/ LoopLands(l)
  BY <1>4, BeginKind, GrantKind, LoopKind, RetryKind, VerifyDownloadKind, LandDownloadKind
<1>5. ASSUME NEW a \in Attempt, VerifyPost(a) \/ LandPost(a)
      PROVE  Restarts \/ Confirms(a) \/ Discards(a) \/ PostLands(a)
  BY <1>5, PostKind
<1>6. CASE RestartReceiver
  <2>1. rcv.state # "none" /\ Restarted /\ UNCHANGED <<snd, file, net, landed, overlap, accepts>>
    BY <1>6, Zenon DEF RestartReceiver
  <2> QED BY <2>1, Zenon DEF Restarts
<1>7. CASE AcceptFile
  BY <1>7, AcceptFileKind
<1>8. CASE OnRelayReady
  BY <1>8, ReadyKind
<1> QED BY <1>1, <1>2, <1>3, <1>4, <1>5, <1>6, <1>7, <1>8, Zenon
        DEF Next, User, Control, Receiving, Pushing, Relaying, Sweeps, Faults

-----------------------------------------------------------------------------
(* Messages.                                                               *)

LEMMA BadNewsOf ==
  ASSUME BadNews
  PROVE  /\ Answers' \subseteq Answers
         /\ \A m \in {Msg("receiver", "offer"), Msg("receiver", "ready"), Msg("sender", "done"), Unreachable} :
              m \in net' => m \in net
BY DEF BadNews, Answers, Msg, Unreachable

LEMMA UnreachableOf ==
  /\ Unreachable.type = "error"
  /\ \A to \in {"sender", "receiver", "hub"}, type \in {"offer", "ready", "done", "freed", "reject"} :
       Msg(to, type) # Unreachable /\ Msg(to, type).type = type
BY DEF Unreachable, Failure, Msg

\* What a hindered request or an ended transfer does to the messages.
LEMMA HinderedNews ==
  ASSUME Hindered
  PROVE  /\ Answers' \subseteq Answers
         /\ \A m \in {Msg("receiver", "offer"), Msg("receiver", "ready"), Msg("sender", "done")} : m \in net' => m \in net
         /\ Unreachable \in net' =>
              Unreachable \in net \/ \E l \in Loop : Works(l) /\ loop[l].kind = "pull" /\ loop'[l].run = "tell"
<1>1. CASE BadNews
  BY <1>1, BadNewsOf
<1>2. CASE /\ net' = net \cup {Unreachable}
           /\ \E l \in Loop : Works(l) /\ loop[l].kind = "pull" /\ loop'[l].run = "tell"
  BY <1>2, UnreachableOf DEF Answers
<1> QED BY <1>1, <1>2 DEF Hindered

LEMMA AnswerTyped == \A l \in Loop, mode \in {"pull", "push", "relay"} : Answer(l, mode) \in Message
<1>1. \A l \in Loop, mode \in {"pull", "push", "relay"} : Push(l, mode) \in 0..MaxAccepts
  BY Numbers DEF Push
<1> QED BY <1>1 DEF Answer, Message, Mode

LEMMA NetStep ==
  ASSUME Inv, [Next]_vars
  PROVE  net' \subseteq Message
<1> USE Typed
<1>b. BadNews => net' \subseteq Message
  BY DEF BadNews
<1>h. Hindered => net' \subseteq Message
  <2>1. Unreachable \in Message
    BY Messages DEF Unreachable
  <2> QED BY <1>b, <2>1 DEF Hindered
<1>1. CASE SenderGoesOn \/ ReceiverHindered \/ PushesAfterAll \/ Restarts \/ Asks
  BY <1>1, <1>b, <1>h DEF SenderGoesOn, ReceiverHindered, PushesAfterAll, Restarts, Asks
<1>2. CASE SendFile \/ OnOffer \/ CannotAccept \/ Upload
  <2>1. net' \subseteq net \cup {Msg("receiver", "offer"), Msg("sender", "reject"), Failure("sender", "io"), Msg("receiver", "ready")}
    BY <1>2 DEF SendFile, OnOffer, CannotAccept, Upload, Take
  <2> QED BY <2>1, Messages
<1>3. CASE OnAccept \/ Ready
  BY <1>3, AcceptKind DEF Ready
<1>4. ASSUME NEW l \in Loop, NEW mode \in {"pull", "push", "relay"}, Begins(l, mode) PROVE net' \subseteq Message
  BY <1>4, AnswerTyped DEF Begins
<1>5. ASSUME NEW l \in Loop, Declines(l) PROVE net' \subseteq Message
  BY <1>5, News DEF Declines
<1>6. ASSUME NEW l \in Loop, Resumes(l) \/ Request(l) \/ Chunk(l) \/ StreamEnds(l) \/ LoopConfirms(l) PROVE net' = net
  BY <1>6, Zenon DEF Resumes, Request, Chunk, StreamEnds, LoopConfirms
<1>7. ASSUME Lands PROVE net' \subseteq Message
  BY <1>7, Messages DEF Lands
<1>8. ASSUME NEW a \in Attempt, \/ Confirms(a) \/ PostAdmitted(a) \/ PostOpens(a) \/ PostChunk(a) \/ PostEnds(a)
                                \/ PostBreaks(a)
      PROVE  net' = net
  BY <1>8, Zenon DEF Confirms, PostAdmitted, PostOpens, PostChunk, PostEnds, PostBreaks
<1> QED BY <1>h, <1>1, <1>2, <1>3, <1>4, <1>5, <1>6, <1>7, <1>8, StepKinds DEF Discards, LoopLands, PostLands

-----------------------------------------------------------------------------
(* The receiver and its loops, for any number of accepts.                  *)

LEMMA AcceptedLoop ==
  ASSUME Inv, NEW l \in Loop, loop[l].run # "idle"
  PROVE  l <= accepts
<1>1. \A k \in Loop : accepts < k => loop[k] = NoLoop
  BY DEF Inv, LoopsAccepted
<1>2. ~(accepts < l)
  BY <1>1, NothingYet
<1>3. l \in Nat /\ accepts \in Nat
  BY Typed, Numbers
<1> QED BY <1>2, <1>3

\* Before the first accept the receiver has given no token.
LEMMA NoTokenBefore ==
  ASSUME Inv, accepts <= 1, rcv.state = "pending"
  PROVE  rcv.tok = {}
BY DEF Inv, InOrder, NothingBegun, Undecided

LEMMA ReceiverStep ==
  ASSUME Inv, [Next]_vars
  PROVE  /\ rcv' \in Receiver
         /\ rcv'.tok # {} => Open(rcv'.state) /\ route.receiver
<1> USE Typed, Numbers, Inodes
<1> DEFINE Good == rcv' \in Receiver /\ (rcv'.tok # {} => Open(rcv'.state) /\ route.receiver)
<1>i. rcv.tok # {} => Open(rcv.state) /\ route.receiver
  BY DEF Inv, NoTokenAfterTheEnd, TokensRouted
<1>s. {"pending", "failed", "rejected", "transferring", "accepted", "verifying"} \subseteq TransferState
  BY DEF TransferState, Terminal
<1>t. Open("transferring") /\ Open("accepted") /\ Open("verifying") /\ Open("pending")
  BY DEF Open, Terminal
<1>1. CASE SenderGoesOn \/ PushesAfterAll \/ SendFile \/ Asks \/ OnAccept \/ Upload
  <2>1. rcv' = rcv
    BY <1>1, AcceptKind DEF SenderGoesOn, PushesAfterAll, SendFile, Asks, Upload
  <2> QED BY <2>1, <1>i
<1>2. ASSUME Hindered PROVE Good
  BY <1>2, <1>i DEF Hindered
<1>3. CASE Restarts
  BY <1>3, NothingYet DEF Restarts, Restarted
<1>4. CASE OnOffer
  BY <1>4, <1>i, <1>s, <1>t DEF OnOffer, Receiver
<1>5. CASE CannotAccept
  <2>1. rcv.tok = {}
    BY <1>5, NoTokenBefore DEF CannotAccept
  <2> QED BY <1>5, <2>1, <1>s DEF CannotAccept, Receiver
<1>6. CASE Ready
  BY <1>6, <1>i, <1>t DEF Ready, Fetches
<1>7. ASSUME NEW l \in Loop, NEW mode \in {"pull", "push", "relay"}, Begins(l, mode) PROVE Good
  <2>1. Open(rcv'.state)
    BY <1>7, <1>t DEF Begins
  <2>2. rcv'.tok # {} => route.receiver
    BY <1>7, <1>i DEF Begins, Push
  <2> QED BY <1>7, <2>1, <2>2 DEF Begins
<1>8. ASSUME NEW l \in Loop, Declines(l) PROVE Good
  BY <1>8, <1>i, <1>s DEF Declines, Receiver
<1>9. ASSUME NEW l \in Loop, Resumes(l) \/ Chunk(l) \/ LoopConfirms(l) PROVE Good
  <2>1. rcv' = rcv
    BY <1>9, Zenon DEF Resumes, Chunk, LoopConfirms
  <2> QED BY <2>1, <1>i
<1>10. ASSUME NEW l \in Loop, Request(l) PROVE Good
  <2> DEFINE out == IF loop[l].from = 0 \/ rcv.path = 0 THEN Tries + l ELSE rcv.path
  <2>1. rcv' = [rcv EXCEPT !.active = Tries + l, !.path = out]
    BY <1>10, Zenon DEF Request
  <2>2. out \in {0} \cup Inode /\ Tries + l \in {0} \cup Inode
    BY DEF Receiver
  <2> HIDE DEF out
  <2> QED BY <2>1, <2>2, <1>i DEF Receiver
<1>11. ASSUME NEW l \in Loop, StreamEnds(l) PROVE Good
  <2>1. rcv' = [rcv EXCEPT !.state = "verifying", !.active = 0]
    BY <1>11, Zenon DEF StreamEnds
  <2> QED BY <2>1, <1>i, <1>s, <1>t DEF Receiver
<1>12. ASSUME Lands PROVE Good
  BY <1>12 DEF Lands
<1>13. ASSUME NEW a \in Attempt, Confirms(a) \/ PostAdmitted(a) \/ PostChunk(a) PROVE Good
  <2>1. rcv' = rcv
    BY <1>13, Zenon DEF Confirms, PostAdmitted, PostChunk
  <2> QED BY <2>1, <1>i
<1>14. ASSUME NEW a \in Attempt, PostOpens(a) PROVE Good
  <2>1. a \in {0} \cup Inode /\ rcv' = [rcv EXCEPT !.state = "transferring", !.active = a, !.path = a]
    BY <1>14 DEF PostOpens
  <2> QED BY <2>1, <1>i, <1>s, <1>t DEF Receiver
<1>15. ASSUME NEW a \in Attempt, PostEnds(a) PROVE Good
  <2>1. rcv' = [rcv EXCEPT !.state = "verifying", !.active = 0]
    BY <1>15, Zenon DEF PostEnds
  <2> QED BY <2>1, <1>i, <1>s, <1>t DEF Receiver
<1>16. ASSUME NEW a \in Attempt, PostBreaks(a) PROVE Good
  <2>1. LET n == Unlinked(rcv) IN n \in Receiver /\ n.state = rcv.state /\ n.tok = rcv.tok
    BY UnlinkedOf
  <2>2. rcv' = [Unlinked(rcv) EXCEPT !.active = 0]
    BY <1>16, Zenon DEF PostBreaks
  <2> QED BY <2>1, <2>2, <1>i DEF Receiver
<1> QED BY <1>1, <1>2, <1>3, <1>4, <1>5, <1>6, <1>7, <1>8, <1>9, <1>10, <1>11, <1>12, <1>13, <1>14, <1>15, <1>16,
           StepKinds DEF ReceiverHindered, Discards, LoopLands, PostLands

LEMMA GoesLoop ==
  ASSUME Inv, NEW l \in Loop, loop[l].run # "idle", NEW run, run # "wait", Goes(l, run)
  PROVE  /\ loop' \in LoopType
         /\ \A k \in Loop : loop'[k].run = "wait" => loop'[k].try < Tries
         /\ \A k \in Loop : accepts < k => loop'[k] = NoLoop
<1>1. l <= accepts
  BY AcceptedLoop
<1>2. \A k \in Loop : (loop[k].run = "wait" => loop[k].try < Tries) /\ (accepts < k => loop[k] = NoLoop)
  BY DEF Inv, TryLeft, LoopsAccepted
<1>3. ASSUME NEW k \in Loop, accepts < k PROVE k # l
  BY <1>1, <1>3, Typed, Numbers
<1> QED BY <1>2, <1>3 DEF Goes

LEMMA LoopStep ==
  ASSUME Inv, [Next]_vars
  PROVE  /\ loop' \in LoopType /\ accepts' \in 0..MaxAccepts
         /\ \A l \in Loop : loop'[l].run = "wait" => loop'[l].try < Tries
         /\ \A l \in Loop : accepts' < l => loop'[l] = NoLoop
<1> USE Typed, Numbers, NothingYet
<1> DEFINE Good == /\ loop' \in LoopType
                   /\ \A l \in Loop : loop'[l].run = "wait" => loop'[l].try < Tries
                   /\ \A l \in Loop : accepts < l => loop'[l] = NoLoop
<1>i. \A l \in Loop : (loop[l].run = "wait" => loop[l].try < Tries) /\ (accepts < l => loop[l] = NoLoop)
  BY DEF Inv, TryLeft, LoopsAccepted
<1>1. CASE SenderGoesOn \/ PushesAfterAll \/ SendFile \/ OnOffer \/ OnAccept \/ Upload
  <2>1. loop' = loop /\ accepts' = accepts
    BY <1>1, AcceptKind DEF SenderGoesOn, PushesAfterAll, SendFile, OnOffer, Upload
  <2> QED BY <2>1, <1>i
<1>2. ASSUME Hindered PROVE Good
  <2>1. ASSUME NEW l \in Loop, accepts < l PROVE loop'[l] = NoLoop
    <3>1. loop[l] = NoLoop
      BY <1>i, <2>1
    <3>2. LoopHindered(l)
      BY <1>2 DEF Hindered
    <3> QED BY <3>1, <3>2 DEF LoopHindered, CutFrom, Works
  <2>2. ASSUME NEW l \in Loop, loop'[l].run = "wait" PROVE loop'[l].try < Tries
    <3>1. LoopHindered(l) /\ loop[l] \in LoopState
      BY <1>2 DEF Hindered, LoopType
    <3>2. CASE CutFrom(loop[l], loop'[l])
      BY <3>1, <3>2, <2>2, <1>i DEF CutFrom, LoopState
    <3>3. CASE LoopFailed(l)
      BY <3>3, <2>2 DEF LoopFailed
    <3> QED BY <3>1, <3>2, <3>3, <2>2 DEF LoopHindered
  <2> QED BY <1>2, <2>1, <2>2 DEF Hindered
<1>3. CASE Restarts
  <2>1. loop' = [l \in Loop |-> NoLoop] /\ accepts' = accepts
    BY <1>3, Zenon DEF Restarts, Restarted
  <2> QED BY <2>1 DEF LoopType
<1>4. CASE Asks
  <2> DEFINE m == accepts + 1
  <2>1. m \in Loop /\ accepts' = m /\ loop' = [loop EXCEPT ![m].run = "probe"]
    BY <1>4 DEF Asks
  <2>2. loop[m] \in LoopState
    BY <2>1 DEF LoopType
  <2>3. \A l \in Loop : m < l => accepts < l /\ l # m
    BY <2>1
  <2> HIDE DEF m
  <2>4. loop' \in LoopType /\ loop'[m].run = "probe" /\ \A l \in Loop : l # m => loop'[l] = loop[l]
    BY <2>1, <2>2 DEF LoopType, LoopState
  <2> QED BY <2>1, <2>3, <2>4, <1>i
<1>5. CASE CannotAccept
  <2>1. loop' = loop /\ accepts = 0 /\ accepts' = 1 /\ accepts < MaxAccepts
    BY <1>5, TransferAssumption DEF CannotAccept
  <2> QED BY <2>1, <1>i
<1>6. CASE Ready
  <2>1. CASE loop' = loop
    BY <1>6, <2>1, <1>i DEF Ready
  <2>2. ASSUME NEW l \in Loop, Fetches(l) PROVE Good
    <3>1. \A k \in Loop : accepts < k => k # l
      BY <2>2 DEF Fetches
    <3> QED BY <2>2, <3>1, <1>i DEF Fetches
  <2> QED BY <1>6, <2>1, <2>2 DEF Ready
<1>7. ASSUME NEW l \in Loop, NEW mode \in {"pull", "push", "relay"}, Begins(l, mode) PROVE Good
  <2>1. loop' \in LoopType /\ loop'[l].run # "wait" /\ \A k \in Loop : k # l => loop'[k] = loop[k]
    BY <1>7 DEF Begins
  <2>2. l <= accepts
    BY <1>7, AcceptedLoop DEF Begins
  <2>3. \A k \in Loop : accepts < k => k # l
    BY <2>2
  <2> QED BY <2>1, <2>3, <1>i
<1>8. ASSUME NEW l \in Loop, loop' = [loop EXCEPT ![l] = NoLoop] PROVE Good
  BY <1>8, <1>i DEF LoopType
<1>9. ASSUME NEW l \in Loop, Resumes(l) \/ Request(l) \/ Chunk(l) \/ StreamEnds(l) \/ LoopConfirms(l) PROVE Good
  <2>1. \E run \in {"try", "stream", "check", "land"} : Goes(l, run)
    BY <1>9, StreamGoes DEF Resumes, LoopConfirms
  <2>2. loop[l].run # "idle"
    <3>1. loop[l].run \in {"grant", "wait", "try", "stream", "check"}
      BY <1>9, Zenon DEF Resumes, Request, Chunk, StreamEnds, LoopConfirms
    <3> QED BY <3>1
  <2> QED BY <2>1, <2>2, GoesLoop
<1>10. ASSUME NEW l \in Loop, Resumes(l) \/ Request(l) \/ Chunk(l) \/ StreamEnds(l) \/ LoopConfirms(l) \/ Declines(l)
                              \/ LoopLands(l) \/ \E mode \in {"pull", "push", "relay"} : Begins(l, mode)
       PROVE  accepts' = accepts
  BY <1>10, Zenon DEF Resumes, Request, Chunk, StreamEnds, LoopConfirms, Declines, LoopLands, Lands, Begins
<1>11. ASSUME NEW a \in Attempt, \/ Confirms(a) \/ PostLands(a) \/ PostAdmitted(a) \/ PostOpens(a) \/ PostChunk(a)
                                 \/ PostEnds(a) \/ PostBreaks(a)
       PROVE  loop' = loop /\ accepts' = accepts
  BY <1>11, Zenon DEF Confirms, PostLands, Lands, PostAdmitted, PostOpens, PostChunk, PostEnds, PostBreaks
<1>12. CASE ReceiverHindered \/ Ready \/ \E a \in Attempt : Discards(a)
  BY <1>2, <1>6, <1>12 DEF ReceiverHindered, Discards, Ready
<1>13. ASSUME NEW l \in Loop, Declines(l) \/ LoopLands(l) PROVE Good
  BY <1>8, <1>13, Zenon DEF Declines, LoopLands
<1>14. CASE \E a \in Attempt : \/ Confirms(a) \/ PostLands(a) \/ PostAdmitted(a) \/ PostOpens(a) \/ PostChunk(a)
                               \/ PostEnds(a) \/ PostBreaks(a)
  BY <1>11, <1>14, <1>i
<1>15. CASE \E l \in Loop : \/ Resumes(l) \/ Request(l) \/ Chunk(l) \/ StreamEnds(l) \/ LoopConfirms(l) \/ Declines(l)
                            \/ LoopLands(l) \/ \E mode \in {"pull", "push", "relay"} : Begins(l, mode)
  BY <1>7, <1>9, <1>10, <1>13, <1>15
<1> QED BY <1>1, <1>3, <1>4, <1>5, <1>12, <1>14, <1>15, StepKinds, Zenon

LEMMA ActiveIsOpenStep ==
  ASSUME Inv, [Next]_vars
  PROVE  ActiveIsOpen'
<1> USE Typed, Inodes
<1>i. /\ \A a \in Attempt : rcv.active = a => post[a] \in {"open", "broken"}
      /\ \A l \in Loop : rcv.active = Tries + l => loop[l].run \in {"stream", "cut"}
  BY DEF ActiveIsOpen
<1>0. ASSUME rcv'.active = rcv.active, UNCHANGED <<post, loop>> PROVE ActiveIsOpen'
  BY <1>0, <1>i DEF ActiveIsOpen
<1>z. ASSUME rcv'.active = 0 PROVE ActiveIsOpen'
  BY <1>z DEF ActiveIsOpen
<1>m. ASSUME NEW l \in Loop, rcv'.active = rcv.active, UNCHANGED post, \A k \in Loop : k # l => loop'[k] = loop[k],
             loop[l].run \in {"stream", "cut"} => loop'[l].run \in {"stream", "cut"}
      PROVE  ActiveIsOpen'
  BY <1>m, <1>i DEF ActiveIsOpen
<1>1. ASSUME Hindered PROVE ActiveIsOpen'
  <2>1. CASE rcv'.active = 0
    BY <2>1, <1>z
  <2>2. CASE rcv'.active # 0
    <3>1. rcv'.active = rcv.active /\ \A l \in Loop : loop[l].run \in {"stream", "cut"} => loop'[l].run \in {"stream", "cut"}
      BY <1>1, <2>2 DEF Hindered
    <3>2. \A a \in Attempt : post[a] \in {"open", "broken"} => post'[a] \in {"open", "broken"}
      BY <1>1 DEF Hindered, OnlyCuts
    <3> QED BY <3>1, <3>2, <1>i DEF ActiveIsOpen
  <2> QED BY <2>1, <2>2
<1>2. CASE SenderGoesOn \/ PushesAfterAll \/ SendFile \/ OnAccept \/ Upload
  BY <1>2, <1>0, AcceptKind DEF SenderGoesOn, PushesAfterAll, SendFile, Upload
<1>3. CASE OnOffer \/ CannotAccept
  <2>1. rcv'.active = rcv.active /\ UNCHANGED <<post, loop>>
    BY <1>3 DEF OnOffer, CannotAccept, Receiver
  <2> QED BY <2>1, <1>0
<1>4. CASE Restarts
  <2>1. rcv' = NoReceiver
    BY <1>4, Zenon DEF Restarts, Restarted
  <2> QED BY <2>1, <1>z, NothingYet
<1>5. CASE Asks
  <2> DEFINE m == accepts + 1
  <2>1. m \in Loop /\ loop' = [loop EXCEPT ![m].run = "probe"] /\ UNCHANGED <<rcv, post>> /\ accepts < m
    BY <1>5, Numbers DEF Asks
  <2> HIDE DEF m
  <2>2. loop[m] = NoLoop
    BY <2>1 DEF Inv, LoopsAccepted
  <2>3. \A k \in Loop : k # m => loop'[k] = loop[k]
    BY <2>1 DEF LoopType
  <2> QED BY <2>1, <2>2, <2>3, <1>m, NothingYet
<1>6. CASE Ready
  <2>1. CASE UNCHANGED <<rcv, loop>>
    BY <1>6, <2>1, <1>0 DEF Ready
  <2>2. ASSUME NEW l \in Loop, Fetches(l) PROVE ActiveIsOpen'
    BY <1>6, <2>2, <1>m DEF Ready, Fetches
  <2> QED BY <1>6, <2>1, <2>2 DEF Ready
<1>7. ASSUME NEW l \in Loop, NEW mode \in {"pull", "push", "relay"}, Begins(l, mode) PROVE ActiveIsOpen'
  BY <1>7, <1>m DEF Begins
<1>8. ASSUME NEW l \in Loop, Declines(l) \/ LoopLands(l) PROVE ActiveIsOpen'
  <2>1. loop' = [loop EXCEPT ![l] = NoLoop] /\ rcv'.active = rcv.active /\ UNCHANGED post /\ loop[l].run \notin {"stream", "cut"}
    BY <1>8 DEF Declines, LoopLands, Lands, Receiver
  <2>2. \A k \in Loop : k # l => loop'[k] = loop[k]
    BY <2>1 DEF LoopType
  <2> QED BY <2>1, <2>2, <1>m
<1>9. ASSUME NEW l \in Loop, Resumes(l) \/ LoopConfirms(l) PROVE ActiveIsOpen'
  BY <1>9, <1>m DEF Resumes, LoopConfirms, Goes
<1>10. ASSUME NEW l \in Loop, Chunk(l) PROVE ActiveIsOpen'
  <2>1. Goes(l, "stream") /\ UNCHANGED <<rcv, post>>
    BY <1>10, StreamGoes DEF Chunk
  <2> QED BY <2>1, <1>m DEF Goes
<1>11. ASSUME NEW l \in Loop, Request(l) PROVE ActiveIsOpen'
  <2>1. Goes(l, "stream")
    BY <1>11, StreamGoes
  <2>2. rcv'.active = Tries + l
    BY <1>11 DEF Request, Receiver
  <2> QED BY <2>1, <2>2 DEF ActiveIsOpen, Goes
<1>12. ASSUME NEW l \in Loop, StreamEnds(l) PROVE ActiveIsOpen'
  <2>1. rcv'.active = 0
    BY <1>12 DEF StreamEnds, Receiver
  <2> QED BY <2>1, <1>z
<1>13. ASSUME NEW a \in Attempt, Confirms(a) \/ PostLands(a) \/ PostChunk(a) PROVE ActiveIsOpen'
  <2>1. rcv'.active = rcv.active /\ UNCHANGED <<post, loop>>
    BY <1>13, Zenon DEF Confirms, PostLands, Lands, PostChunk
  <2> QED BY <2>1, <1>0
<1>14. ASSUME NEW a \in Attempt, PostAdmitted(a) PROVE ActiveIsOpen'
  <2>1. post[a] = "none" /\ post' = [post EXCEPT ![a] = "asked"] /\ UNCHANGED <<rcv, loop>>
    BY <1>14, Zenon DEF PostAdmitted
  <2> QED BY <2>1, <1>i DEF ActiveIsOpen, PostType
<1>15. ASSUME NEW a \in Attempt, PostOpens(a) PROVE ActiveIsOpen'
  <2>1. post' = [post EXCEPT ![a] = "open"] /\ UNCHANGED loop /\ rcv' = [rcv EXCEPT !.state = "transferring", !.active = a, !.path = a]
    BY <1>15, Zenon DEF PostOpens
  <2>2. rcv'.active = a /\ post'[a] = "open"
    BY <2>1 DEF Receiver, PostType
  <2> QED BY <2>2 DEF ActiveIsOpen
<1>16. ASSUME NEW a \in Attempt, PostEnds(a) \/ PostBreaks(a) PROVE ActiveIsOpen'
  <2>1. rcv' = [rcv EXCEPT !.state = "verifying", !.active = 0] \/ rcv' = [Unlinked(rcv) EXCEPT !.active = 0]
    BY <1>16, Zenon DEF PostEnds, PostBreaks
  <2>2. rcv'.active = 0
    BY <2>1 DEF Unlinked, Receiver
  <2> QED BY <2>2, <1>z
<1> QED BY <1>1, <1>2, <1>3, <1>4, <1>5, <1>6, <1>7, <1>8, <1>9, <1>10, <1>11, <1>12, <1>13, <1>14, <1>15, <1>16, StepKinds
        DEF ReceiverHindered, Discards

-----------------------------------------------------------------------------
(* Done means saved.                                                       *)

\* Only a rename puts something into the inbox.
LEMMA LandedStays ==
  ASSUME Inv, [Next]_vars, ~Lands
  PROVE  landed' = landed
<1>1. CASE SenderGoesOn \/ ReceiverHindered \/ PushesAfterAll \/ Restarts \/ SendFile \/ OnOffer
  BY <1>1, Zenon DEF SenderGoesOn, ReceiverHindered, PushesAfterAll, Restarts, SendFile, OnOffer
<1>2. CASE Asks \/ CannotAccept \/ OnAccept \/ Ready \/ Upload
  BY <1>2, AcceptKind, Zenon DEF Asks, CannotAccept, Ready, Upload
<1>3. ASSUME NEW l \in Loop, \/ Declines(l) \/ \E mode \in {"pull", "push", "relay"} : Begins(l, mode)
                             \/ Resumes(l) \/ Request(l) \/ Chunk(l) \/ StreamEnds(l) \/ LoopConfirms(l)
      PROVE  landed' = landed
  BY <1>3, Zenon DEF Declines, Begins, Resumes, Request, Chunk, StreamEnds, LoopConfirms
<1>4. ASSUME NEW a \in Attempt, \/ Discards(a) \/ Confirms(a) \/ PostAdmitted(a) \/ PostOpens(a) \/ PostChunk(a)
                                \/ PostEnds(a) \/ PostBreaks(a)
      PROVE  landed' = landed
  BY <1>4, Zenon DEF Discards, Confirms, PostAdmitted, PostOpens, PostChunk, PostEnds, PostBreaks
<1> QED BY <1>1, <1>2, <1>3, <1>4, StepKinds, Zenon DEF LoopLands, PostLands

LEMMA LandedOf ==
  ASSUME Inv, Lands
  PROVE  landed' \in Seq(0..(Chunks + Chunks)) /\ landed' # << >> /\ Len(landed') = Len(landed) + 1
<1>1. rcv.path \in Inode
  BY Typed DEF Lands, Receiver
<1>2. file[rcv.path] \in 0..(Chunks + Chunks)
  BY <1>1, Typed DEF FileType
<1>3. landed' = Append(landed, file[rcv.path]) /\ landed \in Seq(0..(Chunks + Chunks))
  BY Typed DEF Lands
<1> QED BY <1>2, <1>3, AppendProperties

LEMMA SavedStays ==
  ASSUME Inv, [Next]_vars, landed # << >>
  PROVE  landed' # << >>
BY LandedStays, LandedOf

\* The sender takes a file for sent when it is told so.
LEMMA SenderDone ==
  ASSUME Inv, [Next]_vars
  PROVE  snd'.state = "done" => snd.state = "done" \/ Msg("sender", "done") \in net
<1> USE Typed
<1>0. CASE UNCHANGED snd
  BY <1>0
<1>1. CASE \/ OnOffer \/ AcceptFile \/ RejectFile \/ CancelReceive \/ OnRelayReady
           \/ OnPeerErrorReceiver \/ OnPeerCancelReceiver \/ HubFrees \/ BlobSweep \/ TimePasses
           \/ SweepReceiver \/ Lose \/ RestartReceiver \/ RestartHub \/ UNCHANGED vars
  BY <1>1, <1>0, Zenon DEF OnOffer, AcceptFile, RejectFile, CancelReceive, OnRelayReady,
     OnPeerErrorReceiver, OnPeerCancelReceiver,
     HubFrees, BlobSweep, TimePasses, SweepReceiver, Lose, RestartReceiver, RestartHub, vars
<1>2. ASSUME NEW a \in Attempt, VerifyPost(a) \/ LandPost(a) \/ PostAdmitted(a) \/ PostOpens(a) \/ PostChunk(a)
                                \/ PostEnds(a) \/ PostBreaks(a)
      PROVE  UNCHANGED snd
  BY <1>2, Zenon DEF VerifyPost, LandPost, PostAdmitted, PostOpens, PostChunk, PostEnds, PostBreaks
<1>3. CASE SendFile \/ PostAnswered \/ PostAgain \/ Upload
  BY <1>3 DEF SendFile, PostAnswered, PostAgain, Upload, Sender
<1>12. ASSUME NEW l \in Loop, Request(l) PROVE snd'.state = "done" => snd.state = "done"
  BY <1>12 DEF Request, Sender
<1>13. ASSUME NEW l \in Loop,
         \/ BeginReceive(l) \/ FetchGrant(l) \/ RequestRefused(l) \/ Chunk(l) \/ Break(l) \/ StreamEnds(l)
         \/ Retry(l) \/ GiveUp(l) \/ VerifyDownload(l) \/ LandDownload(l)
       PROVE UNCHANGED snd
  BY <1>13, LoopAlone
<1>4. CASE OnAccept
  <2>1. PICK m \in Answers : snd' = snd \/ snd' = Answered(m)
    BY <1>4, AcceptKind
  <2>2. Answered(m).state = "transferring"
    BY <2>1, AnsweredOf DEF Answers
  <2> QED BY <2>1, <2>2
<1>5. CASE OnDone
  BY <1>5 DEF OnDone, Receives
<1>6. CASE OnReject \/ UploadFails
  BY <1>6 DEF OnReject, UploadFails, EndSender, Sender
<1>7. CASE CancelSend \/ OnPeerCancelSender \/ SweepSender
  <2>1. \/ UNCHANGED snd
        \/ \E state \in {"cancelled", "expired"} : snd' = EndSender(CutUpload(snd), state)
    BY <1>7 DEF CancelSend, OnPeerCancelSender, SweepSender
  <2>2. CutUpload(snd) \in Sender /\ {"cancelled", "expired"} \subseteq TransferState
    BY CutUploadOf DEF TransferState, Terminal
  <2>3. ASSUME NEW state \in {"cancelled", "expired"}, snd' = EndSender(CutUpload(snd), state) PROVE snd'.state # "done"
    BY <2>2, <2>3, EndSenderOf
  <2> QED BY <2>1, <2>3
<1>8. CASE OnPeerErrorSender
  <2>1. \/ UNCHANGED snd
        \/ snd' = [snd EXCEPT !.mode = "push", !.state = "transferring", !.run = "post", !.try = 1]
        \/ snd' = [snd EXCEPT !.state = "transferring"]
        \/ snd' = FailSender(snd)
    BY <1>8 DEF OnPeerErrorSender
  <2>2. CASE snd' = [snd EXCEPT !.mode = "push", !.state = "transferring", !.run = "post", !.try = 1]
    BY <2>2 DEF Sender
  <2>3. CASE snd' = [snd EXCEPT !.state = "transferring"]
    BY <2>3 DEF Sender
  <2> QED BY <2>1, <2>2, <2>3, FailSenderOf
<1>9. CASE PostFails
  <2>1. \/ snd' = [snd EXCEPT !.run = "idle"]
        \/ snd' = [snd EXCEPT !.run = "wait"]
        \/ snd' = [snd EXCEPT !.run = "grant", !.state = "transferring", !.mode = "relay"]
        \/ snd' = EndSender([snd EXCEPT !.run = "idle"], "failed")
    BY <1>9 DEF PostFails
  <2>2. CASE snd' = [snd EXCEPT !.run = "grant", !.state = "transferring", !.mode = "relay"]
    BY <2>2 DEF Sender
  <2>3. CASE snd' = EndSender([snd EXCEPT !.run = "idle"], "failed")
    BY <2>3 DEF EndSender, Sender
  <2> QED BY <2>1, <2>2, <2>3 DEF Sender
<1>10. CASE UploadGrant
  BY <1>10 DEF UploadGrant, EndSender, Sender
<1>11. CASE RestartSender
  BY <1>11, NothingYet DEF RestartSender
<1> QED BY <1>0, <1>1, <1>2, <1>3, <1>4, <1>5, <1>6, <1>7, <1>8, <1>9, <1>10, <1>11, <1>12, <1>13
        DEF Next, User, Control, Receiving, Pushing, Relaying, Sweeps, Faults

LEMMA DoneMeansSavedStep ==
  ASSUME Inv, [Next]_vars
  PROVE  DoneMeansSaved'
<1> DEFINE done == Msg("sender", "done")
<1>i. snd.state = "done" \/ done \in net => landed # << >>
  BY DEF Inv, DoneMeansSaved
<1>1. done \in net' => done \in net \/ Lands
  <2>1. CASE SenderGoesOn
    BY <2>1, BadNewsOf DEF SenderGoesOn
  <2>2. ASSUME Hindered PROVE done \in net' => done \in net
    BY <2>2, HinderedNews
  <2>3. CASE PushesAfterAll \/ Restarts \/ Asks \/ SendFile \/ Ready \/ Upload
    BY <2>3 DEF PushesAfterAll, Restarts, Asks, SendFile, Ready, Upload, Msg
  <2>4. CASE OnOffer \/ CannotAccept
    <3>1. net' \subseteq net \cup {Msg("sender", "reject"), Failure("sender", "io")}
      BY <2>4 DEF OnOffer, CannotAccept, Take
    <3> QED BY <3>1 DEF Msg, Failure
  <2>5. ASSUME NEW l \in Loop, NEW mode \in {"pull", "push", "relay"}, Begins(l, mode) PROVE done \in net' => done \in net
    BY <2>5 DEF Begins, Answer, Msg
  <2>6. CASE OnAccept
    BY <2>6, AcceptKind
  <2>7. ASSUME NEW a \in Attempt, \/ Confirms(a) \/ PostAdmitted(a) \/ PostOpens(a) \/ PostChunk(a)
                                  \/ PostEnds(a) \/ PostBreaks(a)
        PROVE  UNCHANGED net
    BY <2>7, Zenon DEF Confirms, PostAdmitted, PostOpens, PostChunk, PostEnds, PostBreaks
  <2>8. ASSUME NEW l \in Loop, Declines(l) PROVE done \in net' => done \in net
    BY <2>8 DEF Declines, Msg
  <2>9. ASSUME NEW l \in Loop, Resumes(l) \/ Request(l) \/ Chunk(l) \/ StreamEnds(l) \/ LoopConfirms(l) PROVE UNCHANGED net
    BY <2>9, Zenon DEF Resumes, Request, Chunk, StreamEnds, LoopConfirms
  <2> QED BY <2>1, <2>2, <2>3, <2>4, <2>5, <2>6, <2>7, <2>8, <2>9, StepKinds DEF ReceiverHindered, Discards, LoopLands, PostLands
<1> QED BY <1>i, <1>1, LandedOf, SenderDone, SavedStays DEF DoneMeansSaved

-----------------------------------------------------------------------------
(* Files and the rest.                                                     *)

\* A file written is of its type; the inode 0 is none.
LEMMA FileWith ==
  ASSUME file \in FileType, NEW i, NEW v, i \in Inode => v \in 0..(Chunks + Chunks), file' = [file EXCEPT ![i] = v]
  PROVE  file' \in FileType
<1> DEFINE W == 0..(Chunks + Chunks)
<1>1. file \in [Inode -> W] /\ (i \in Inode => v \in W)
  BY DEF FileType
<1> HIDE DEF W
<1>2. file' \in [Inode -> W]
  BY <1>1
<1> QED BY <1>2 DEF W, FileType

LEMMA FilesStep ==
  ASSUME Inv, [Next]_vars
  PROVE  /\ post' \in PostType /\ file' \in FileType /\ fin' \in [Attempt -> {"none", "check", "land"}]
         /\ landed' \in Seq(0..(Chunks + Chunks)) /\ overlap' \in BOOLEAN
<1> USE Typed, Numbers, Inodes
<1> DEFINE Good == post' \in PostType /\ file' \in FileType /\ fin' \in [Attempt -> {"none", "check", "land"}] /\ overlap' \in BOOLEAN
<1>1. ASSUME SenderGoesOn \/ PushesAfterAll \/ SendFile \/ OnOffer \/ Asks \/ CannotAccept \/ OnAccept \/ Ready \/ Upload
      PROVE  Good
  <2>1. UNCHANGED <<post, file, fin, overlap>>
    BY <1>1, AcceptKind, Zenon DEF SenderGoesOn, PushesAfterAll, SendFile, OnOffer, Asks, CannotAccept, Ready, Upload
  <2> QED BY <2>1
<1>2. ASSUME ReceiverHindered PROVE Good
  BY <1>2 DEF ReceiverHindered, Hindered
<1>3. ASSUME Restarts PROVE Good
  <2>1. /\ post' = [a \in Attempt |-> IF Serving(a) THEN "gone" ELSE post[a]] /\ fin' = [a \in Attempt |-> "none"]
        /\ UNCHANGED <<file, overlap>>
    BY <1>3, Zenon DEF Restarts, Restarted
  <2> QED BY <2>1 DEF PostType
<1>4. ASSUME NEW l \in Loop,
             \/ Declines(l) \/ (\E mode \in {"pull", "push", "relay"} : Begins(l, mode)) \/ Resumes(l)
             \/ StreamEnds(l) \/ LoopConfirms(l) \/ LoopLands(l)
      PROVE  Good
  <2>1. UNCHANGED <<post, file, fin, overlap>>
    BY <1>4, Zenon DEF Declines, Begins, Resumes, StreamEnds, LoopConfirms, LoopLands, Lands
  <2> QED BY <2>1
<1>5. ASSUME NEW l \in Loop, Request(l) PROVE Good
  <2>1. /\ overlap' = (overlap \/ Served({l}, {})) /\ UNCHANGED <<post, fin>>
        /\ \/ file' = file
           \/ \E out \in {0} \cup Inode : file' = [file EXCEPT ![out] = 0]
    <3> DEFINE begins == loop[l].from = 0 \/ rcv.path = 0
               out == IF begins THEN Tries + l ELSE rcv.path
    <3>1. out \in {0} \cup Inode
      BY DEF Receiver
    <3>2. /\ overlap' = (overlap \/ Served({l}, {})) /\ UNCHANGED <<post, fin>>
          /\ file' = IF begins THEN [file EXCEPT ![out] = 0] ELSE file
      BY <1>5, Zenon DEF Request
    <3> HIDE DEF out, begins
    <3> QED BY <3>1, <3>2
  <2>2. file' \in FileType
    <3>0. 0 \in 0..(Chunks + Chunks)
      OBVIOUS
    <3>1. CASE file' = file
      BY <3>1
    <3>2. ASSUME NEW out, file' = [file EXCEPT ![out] = 0] PROVE file' \in FileType
      BY <3>0, <3>2, FileWith
    <3> QED BY <2>1, <3>1, <3>2
  <2>3. overlap' \in BOOLEAN
    BY <2>1, Zenon
  <2> QED BY <2>1, <2>2, <2>3
<1>6. ASSUME NEW l \in Loop, Chunk(l) PROVE Good
  <2>1. /\ loop[l].pos < Chunks /\ UNCHANGED <<post, fin, overlap>>
        /\ file' = [file EXCEPT ![loop[l].out] = Written(@, loop[l].pos)]
    BY <1>6, Zenon DEF Chunk
  <2>2. loop[l].out \in {0} \cup Inode /\ loop[l].pos \in 0..Chunks
    BY DEF LoopType, LoopState
  <2>3. loop[l].out \in Inode => Written(file[loop[l].out], loop[l].pos) \in 0..(Chunks + Chunks)
    <3>1. loop[l].out \in Inode => file[loop[l].out] \in 0..(Chunks + Chunks)
      BY DEF FileType
    <3> QED BY <2>1, <2>2, <3>1, SizeOf
  <2>4. file' \in FileType
    BY <2>1, <2>3, FileWith
  <2> QED BY <2>1, <2>4
<1>7. ASSUME NEW a \in Attempt, Discards(a) PROVE Good
  BY <1>7 DEF Discards, Hindered
<1>8. ASSUME NEW a \in Attempt, Confirms(a) \/ PostLands(a) PROVE Good
  <2>1. fin' = [fin EXCEPT ![a] = "land"] \/ fin' = [fin EXCEPT ![a] = "none"]
    BY <1>8, Zenon DEF Confirms, PostLands
  <2>2. UNCHANGED <<post, file, overlap>>
    BY <1>8, Zenon DEF Confirms, PostLands, Lands
  <2> QED BY <2>1, <2>2
<1>10. ASSUME NEW a \in Attempt, PostAdmitted(a) PROVE Good
  <2>1. post' = [post EXCEPT ![a] = "asked"] /\ overlap' = (overlap \/ Served({}, {a})) /\ UNCHANGED <<file, fin>>
    BY <1>10, Zenon DEF PostAdmitted
  <2> QED BY <2>1 DEF PostType
<1>11. ASSUME NEW a \in Attempt, PostOpens(a) PROVE Good
  <2>1. /\ post' = [post EXCEPT ![a] = "open"] /\ file' = [file EXCEPT ![a] = 0]
        /\ overlap' = (overlap \/ Served({}, {a})) /\ UNCHANGED fin
    BY <1>11, Zenon DEF PostOpens
  <2> QED BY <2>1 DEF PostType, FileType
<1>12. ASSUME NEW a \in Attempt, PostChunk(a) PROVE Good
  <2>1. file[a] < Chunks /\ file' = [file EXCEPT ![a] = @ + 1] /\ UNCHANGED <<post, fin, overlap>>
    BY <1>12, Zenon DEF PostChunk
  <2>2. file[a] + 1 \in 0..(Chunks + Chunks)
    BY <2>1 DEF FileType
  <2>3. file' \in FileType
    BY <2>1, <2>2 DEF FileType
  <2> QED BY <2>1, <2>3
<1>13. ASSUME NEW a \in Attempt, PostEnds(a) PROVE Good
  <2>1. post' = [post EXCEPT ![a] = "answered"] /\ fin' = [fin EXCEPT ![a] = "check"] /\ UNCHANGED <<file, overlap>>
    BY <1>13, Zenon DEF PostEnds
  <2> QED BY <2>1 DEF PostType
<1>14. ASSUME NEW a \in Attempt, PostBreaks(a) PROVE Good
  <2>1. post' = [post EXCEPT ![a] = "gone"] /\ UNCHANGED <<file, fin, overlap>>
    BY <1>14, Zenon DEF PostBreaks
  <2> QED BY <2>1 DEF PostType
<1>15. landed' \in Seq(0..(Chunks + Chunks))
  BY LandedStays, LandedOf
<1> QED BY <1>1, <1>2, <1>3, <1>4, <1>5, <1>6, <1>7, <1>8, <1>10, <1>11, <1>12, <1>13, <1>14, <1>15, StepKinds

HubType == [blob : {"none", "part", "full"}, up : BOOLEAN, down : BOOLEAN]

LEMMA RestStep ==
  ASSUME Inv, [Next]_vars
  PROVE  route' = route /\ route \in Route /\ hub' \in HubType /\ late' \in BOOLEAN /\ trouble' \in 0..MaxTrouble
<1> USE Numbers
<1>i. route \in Route /\ hub \in HubType /\ late \in BOOLEAN /\ trouble \in 0..MaxTrouble
  BY DEF Inv, TypeOK, HubType
<1>t. \A n \in Nat : Troubles(n) => trouble' \in 0..MaxTrouble
  BY <1>i DEF Troubles
<1>t1. Trouble => trouble' \in 0..MaxTrouble
  BY <1>t DEF Trouble
<1>1. CASE \/ SendFile \/ OnOffer \/ OnAccept \/ OnReject \/ OnRelayReady \/ OnDone
           \/ OnPeerErrorSender \/ OnPeerErrorReceiver \/ OnPeerCancelSender \/ OnPeerCancelReceiver
           \/ PostAnswered \/ PostAgain \/ SweepSender \/ SweepReceiver \/ UNCHANGED vars
  <2>1. UNCHANGED <<route, hub, late, trouble>>
    BY <1>1, Zenon DEF SendFile, OnOffer, OnAccept, OnReject, OnRelayReady, OnDone,
     OnPeerErrorSender, OnPeerErrorReceiver, OnPeerCancelSender, OnPeerCancelReceiver,
     PostAnswered, PostAgain, SweepSender, SweepReceiver, vars
  <2> QED BY <2>1, <1>i
<1>2. CASE RejectFile \/ CancelSend \/ CancelReceive \/ PostFails \/ Lose \/ RestartSender \/ RestartReceiver
  <2>1. UNCHANGED <<route, hub, late>> /\ (Trouble \/ UNCHANGED trouble)
    BY <1>2, Zenon DEF RejectFile, CancelSend, CancelReceive, PostFails, Lose, RestartSender, RestartReceiver
  <2> QED BY <2>1, <1>i, <1>t1
<1>3. CASE UploadGrant \/ Upload \/ BlobSweep \/ HubFrees
  <2>1. UNCHANGED <<route, late, trouble>>
    BY <1>3 DEF UploadGrant, Upload, BlobSweep, HubFrees
  <2>2. hub' \in HubType
    <3>2. CASE UploadGrant
      <4>1. hub' = [hub EXCEPT !.blob = "part", !.up = TRUE] \/ hub' = hub
        BY <3>2 DEF UploadGrant
      <4> QED BY <4>1, <1>i DEF HubType
    <3>3. CASE Upload
      <4>1. hub' = [hub EXCEPT !.blob = "full", !.up = FALSE]
        BY <3>3 DEF Upload
      <4> QED BY <4>1, <1>i DEF HubType
    <3>4. CASE BlobSweep
      <4>1. hub' = [hub EXCEPT !.blob = "none"]
        BY <3>4 DEF BlobSweep
      <4> QED BY <4>1, <1>i DEF HubType
    <3>5. CASE HubFrees
      <4>1. hub' = NoHub
        BY <3>5 DEF HubFrees
      <4> QED BY <4>1 DEF NoHub, HubType
    <3> QED BY <1>3, <3>2, <3>3, <3>4, <3>5
  <2> QED BY <2>1, <2>2, <1>i
<1>4. CASE TimePasses \/ UploadFails
  <2>1. UNCHANGED <<route, hub>> /\ (Trouble \/ UNCHANGED trouble) /\ late' \in BOOLEAN
    BY <1>4, <1>i DEF TimePasses, UploadFails
  <2> QED BY <2>1, <1>i, <1>t1
<1>5. CASE RestartHub
  <2>1. hub' \in HubType
    BY <1>5, <1>i DEF RestartHub, HubType
  <2> QED BY <1>5, <2>1, <1>i, <1>t1 DEF RestartHub
<1>6. ASSUME NEW a \in Attempt, VerifyPost(a) \/ LandPost(a) \/ PostAdmitted(a) \/ PostOpens(a) \/ PostChunk(a)
                                \/ PostEnds(a) \/ PostBreaks(a)
      PROVE  UNCHANGED <<route, hub, late, trouble>>
  BY <1>6, Zenon DEF VerifyPost, LandPost, PostAdmitted, PostOpens, PostChunk, PostEnds, PostBreaks
<1>7. CASE AcceptFile
  <2>1. UNCHANGED <<route, hub, late>> /\ (Troubles(2) \/ UNCHANGED trouble)
    BY <1>7 DEF AcceptFile
  <2> QED BY <2>1, <1>i, <1>t
<1>8. ASSUME NEW l \in Loop, \/ BeginReceive(l) \/ Request(l) \/ Chunk(l) \/ StreamEnds(l) \/ Retry(l) \/ GiveUp(l)
                             \/ VerifyDownload(l) \/ LandDownload(l)
      PROVE  UNCHANGED <<route, hub, late, trouble>>
  BY <1>8, Zenon DEF BeginReceive, Request, Chunk, StreamEnds, Retry, GiveUp, VerifyDownload, LandDownload
<1>9. ASSUME NEW l \in Loop, RequestRefused(l) \/ Break(l)
      PROVE  route' = route /\ hub' = hub /\ late' = late /\ trouble' \in 0..MaxTrouble
  <2>1. UNCHANGED <<route, hub, late>> /\ (Trouble \/ UNCHANGED trouble)
    BY <1>9, Zenon DEF RequestRefused, Break
  <2> QED BY <2>1, <1>i, <1>t1
<1>10. ASSUME NEW l \in Loop, FetchGrant(l)
       PROVE  route' = route /\ hub' \in HubType /\ late' = late /\ trouble' = trouble
  <2>1. UNCHANGED <<route, late, trouble>> /\ (hub' = [hub EXCEPT !.down = TRUE] \/ hub' = hub)
    BY <1>10, Zenon DEF FetchGrant
  <2> QED BY <2>1, <1>i DEF HubType
<1> QED BY <1>i, <1>1, <1>2, <1>3, <1>4, <1>5, <1>6, <1>7, <1>8, <1>9, <1>10
        DEF Next, User, Control, Receiving, Pushing, Relaying, Sweeps, Faults

-----------------------------------------------------------------------------
(* As long as the offer is accepted once, the loop is loop 1.              *)

LEMMA OnlyFirst ==
  ASSUME Inv, accepts <= 1, NEW l \in Loop, loop[l].run # "idle"
  PROVE  l = 1
<1>1. l <= accepts
  BY AcceptedLoop
<1> QED BY <1>1, Typed, Numbers

LEMMA AcceptsGrow ==
  ASSUME Inv, [Next]_vars
  PROVE  accepts' = accepts \/ Asks \/ CannotAccept
<1>1. CASE SenderGoesOn \/ ReceiverHindered \/ PushesAfterAll \/ Restarts \/ SendFile \/ OnOffer \/ OnAccept \/ Ready \/ Upload
  BY <1>1, AcceptKind, Zenon DEF SenderGoesOn, ReceiverHindered, PushesAfterAll, Restarts, SendFile, OnOffer, Ready, Upload
<1>2. ASSUME NEW l \in Loop,
             \/ Declines(l) \/ (\E mode \in {"pull", "push", "relay"} : Begins(l, mode)) \/ Resumes(l) \/ Request(l)
             \/ Chunk(l) \/ StreamEnds(l) \/ LoopConfirms(l) \/ LoopLands(l)
      PROVE  accepts' = accepts
  BY <1>2, Zenon DEF Declines, Begins, Resumes, Request, Chunk, StreamEnds, LoopConfirms, LoopLands, Lands
<1>3. ASSUME NEW a \in Attempt,
             \/ Discards(a) \/ Confirms(a) \/ PostLands(a) \/ PostAdmitted(a) \/ PostOpens(a) \/ PostChunk(a)
             \/ PostEnds(a) \/ PostBreaks(a)
      PROVE  accepts' = accepts
  BY <1>3, Zenon DEF Discards, Confirms, PostLands, Lands, PostAdmitted, PostOpens, PostChunk, PostEnds, PostBreaks
<1> QED BY <1>1, <1>2, <1>3, StepKinds, Zenon

LEMMA OnceBefore ==
  ASSUME Inv, [Next]_vars, accepts' <= 1
  PROVE  accepts <= 1 /\ InOrder
<1>1. accepts' = accepts \/ accepts' = accepts + 1 \/ accepts = 0
  BY AcceptsGrow DEF Asks, CannotAccept
<1>2. accepts <= 1
  BY <1>1, Typed, Numbers
<1> QED BY <1>2 DEF Inv

\* The first accept starts loop 1.
FirstAsks == Asks /\ accepts = 0 /\ Run = "idle" /\ Run' = "probe"

FirstReady ==
  /\ Msg("receiver", "ready") \in net /\ net' = net \ {Msg("receiver", "ready")}
  /\ \/ rcv.state # "accepted" /\ rcv' = rcv /\ loop' = loop
     \/ Fetches(1)
  /\ UNCHANGED <<snd, post, file, fin, landed, overlap, accepts>>

LEMMA OnceKinds ==
  ASSUME Inv, [Next]_vars, accepts' <= 1
  PROVE  \/ SenderGoesOn \/ ReceiverHindered \/ PushesAfterAll \/ Restarts
         \/ SendFile \/ OnOffer \/ FirstAsks \/ CannotAccept \/ OnAccept \/ FirstReady \/ Upload
         \/ Declines(1) \/ (\E mode \in {"pull", "push", "relay"} : Begins(1, mode))
         \/ Resumes(1) \/ Request(1) \/ Chunk(1) \/ StreamEnds(1) \/ LoopConfirms(1) \/ LoopLands(1)
         \/ \E a \in Attempt : \/ Discards(a) \/ Confirms(a) \/ PostLands(a)
                               \/ PostAdmitted(a) \/ PostOpens(a) \/ PostChunk(a) \/ PostEnds(a) \/ PostBreaks(a)
<1>0. accepts <= 1 /\ accepts \in Nat
  BY OnceBefore, Typed, Numbers
<1>1. ASSUME NEW l \in Loop,
             \/ Declines(l) \/ (\E mode \in {"pull", "push", "relay"} : Begins(l, mode)) \/ Resumes(l) \/ Request(l)
             \/ Chunk(l) \/ StreamEnds(l) \/ LoopConfirms(l) \/ LoopLands(l)
      PROVE  l = 1
  <2>1. loop[l].run \in {"probe", "grant", "wait", "try", "stream", "check", "land"}
    BY <1>1, Zenon DEF Declines, Begins, Resumes, Request, Chunk, StreamEnds, LoopConfirms, LoopLands
  <2> QED BY <1>0, <2>1, OnlyFirst
<1>2. ASSUME Asks PROVE FirstAsks
  <2>1. accepts = 0
    BY <1>0, <1>2 DEF Asks
  <2>2. loop[1] = NoLoop /\ loop[1] \in LoopState
    BY <2>1, Typed, Numbers DEF Inv, LoopsAccepted, LoopType
  <2>3. loop' = [loop EXCEPT ![1].run = "probe"]
    BY <1>2, <2>1 DEF Asks
  <2>4. loop'[1].run = "probe"
    BY <2>2, <2>3, Typed, Numbers DEF LoopType, LoopState
  <2> QED BY <1>2, <2>1, <2>2, <2>4, NothingYet DEF FirstAsks, Run
<1>3. ASSUME Ready PROVE FirstReady
  <2>1. ASSUME NEW l \in Loop, Fetches(l) PROVE l = 1
    BY <1>0, <2>1, Numbers DEF Fetches
  <2> QED BY <1>3, <2>1 DEF Ready, FirstReady
<1> QED BY <1>1, <1>2, <1>3, StepKinds

Moves(from, to) == Run = from /\ Run' = to /\ Kind' = Kind

LEMMA FirstMoves ==
  ASSUME Inv
  PROVE  /\ Resumes(1) => Run \in {"grant", "wait"} /\ Run' = "try" /\ Kind' = Kind
         /\ Request(1) => Moves("try", "stream")
         /\ Chunk(1) => Moves("stream", "stream")
         /\ StreamEnds(1) => Moves("stream", "check")
         /\ LoopConfirms(1) => Moves("check", "land")
         /\ LoopLands(1) => Run = "land" /\ Run' = "idle"
         /\ Declines(1) => Run = "probe" /\ Run' = "idle"
         /\ Fetches(1) => Run = "idle" /\ Run' = "grant" /\ Kind' = "relay"
<1> USE Numbers DEF Run, Kind
<1>1. Resumes(1) => Run \in {"grant", "wait"} /\ Run' = "try" /\ Kind' = Kind
  BY DEF Resumes, Goes
<1>2. Request(1) => Moves("try", "stream")
  <2>0. Request(1) => loop[1].run = "try"
    BY Zenon DEF Request
  <2>1. Request(1) => Run = "try" /\ Goes(1, "stream")
    BY <2>0, StreamGoes
  <2> QED BY <2>1 DEF Goes, Moves
<1>3. Chunk(1) => Moves("stream", "stream")
  <2>1. Chunk(1) => Run = "stream" /\ Goes(1, "stream")
    BY StreamGoes DEF Chunk
  <2> QED BY <2>1 DEF Goes, Moves
<1>4. StreamEnds(1) => Moves("stream", "check")
  <2>1. StreamEnds(1) => Run = "stream" /\ Goes(1, "check")
    BY StreamGoes DEF StreamEnds
  <2> QED BY <2>1 DEF Goes, Moves
<1>5. LoopConfirms(1) => Moves("check", "land")
  BY DEF LoopConfirms, Goes, Moves
<1>6. LoopLands(1) => Run = "land" /\ Run' = "idle"
  BY Typed, NothingYet DEF LoopLands, LoopType
<1>7. Declines(1) => Run = "probe" /\ Run' = "idle"
  BY Typed, NothingYet DEF Declines, LoopType
<1>8. Fetches(1) => Run = "idle" /\ Run' = "grant" /\ Kind' = "relay"
  BY DEF Fetches
<1> QED BY <1>1, <1>2, <1>3, <1>4, <1>5, <1>6, <1>7, <1>8

LEMMA BeginsOf ==
  ASSUME Inv, NEW mode \in {"pull", "push", "relay"}, Begins(1, mode)
  PROVE  Run = "probe" /\ Run' = (IF mode = "pull" THEN "try" ELSE "idle") /\ Kind' = "pull"
BY DEF Begins, Run, Kind

\* What becomes of loop 1 when a request is hindered or the transfer ends.
LEMMA HinderedOnce ==
  ASSUME Inv, accepts <= 1, Hindered
  PROVE  /\ \/ Run' = Run
            \/ Run = "stream" /\ Run' = "cut"
            \/ Looping /\ Run \notin {"wait"} /\ Run' \in {"idle", "wait", "tell"}
            \/ Run \in {"grant", "tell"} /\ Run' = "idle"
         /\ Run' # "idle" => Kind' = Kind
         /\ Unreachable \in net' => Unreachable \in net \/ (Looping /\ Kind = "pull" /\ Run' = "tell")
<1>1. 1 \in Loop /\ loop[1] \in LoopState
  BY Typed, Numbers DEF LoopType
<1>2. LoopHindered(1)
  BY <1>1 DEF Hindered
<1>3. Works(1) => Looping /\ Run # "wait"
  BY DEF Works, Looping, Run
<1>4. /\ \/ Run' = Run
         \/ Run = "stream" /\ Run' = "cut"
         \/ Works(1) /\ Run' \in {"idle", "wait", "tell"}
         \/ Run \in {"grant", "tell"} /\ Run' = "idle"
      /\ Run' # "idle" => Kind' = Kind
  BY <1>1, <1>2, NothingYet DEF LoopHindered, CutFrom, LoopFailed, LoopState, Run, Kind
<1>5. ASSUME NEW l \in Loop, Works(l) PROVE l = 1
  BY <1>5, OnlyFirst DEF Works
<1>6. Unreachable \in net' => Unreachable \in net \/ (Works(1) /\ Kind = "pull" /\ Run' = "tell")
  BY <1>5, HinderedNews DEF Run, Kind
<1> QED BY <1>3, <1>4, <1>6

-----------------------------------------------------------------------------
(* Before the receiver has chosen.                                         *)

LEMMA DecidedStays ==
  ASSUME ~Undecided, snd'.state = "unsent" => snd.state = "unsent",
         Msg("receiver", "offer") \in net' => Msg("receiver", "offer") \in net,
         rcv'.state # "pending", Run' # "probe"
  PROVE  NothingBegun'
BY DEF Undecided, NothingBegun

\* After a step of the receiver's own, or about a POST, all has been decided.
LEMMA DecidedHere ==
  ASSUME NothingBegun, \/ Run \notin {"idle", "probe"} \/ rcv.tok # {} \/ snd.run # "idle" \/ snd.push # 0
                       \/ Answers # {} \/ Msg("receiver", "ready") \in net \/ Unreachable \in net
                       \/ \E a \in Attempt : post[a] # "none" \/ fin[a] # "none"
  PROVE  ~Undecided
BY DEF NothingBegun

\* Before the first accept no loop runs.
LEMMA NoLoopBefore ==
  ASSUME Inv, accepts = 0
  PROVE  \A l \in Loop : loop[l] = NoLoop /\ loop[l].run = "idle"
<1>1. \A l \in Loop : 0 < l
  BY Numbers
<1> QED BY <1>1, NothingYet DEF Inv, LoopsAccepted

LEMMA Probing ==
  ASSUME NothingBegun, Run = "probe"
  PROVE  /\ snd.run = "idle" /\ snd.push = 0 /\ rcv.tok = {} /\ landed = << >>
         /\ Answers = {} /\ Msg("receiver", "ready") \notin net /\ Unreachable \notin net
         /\ \A a \in Attempt : post[a] = "none" /\ fin[a] = "none"
BY DEF NothingBegun, Undecided

LEMMA ProbingNow ==
  ASSUME Inv, NothingBegun, Run = "probe"
  PROVE  snd.state # "unsent" /\ Msg("receiver", "offer") \notin net
BY NoLoopBefore, Numbers DEF NothingBegun, Run

LEMMA NothingBegunStep ==
  ASSUME Inv, [Next]_vars, accepts' <= 1
  PROVE  NothingBegun'
<1> USE Typed
<1>h. accepts <= 1 /\ NothingBegun
  BY OnceBefore DEF InOrder
<1>i. NothingBegun
  BY <1>h
<1>1. CASE SenderGoesOn
  <2>1. /\ Answers' \subseteq Answers
        /\ \A m \in {Msg("receiver", "offer"), Msg("receiver", "ready"), Unreachable} : m \in net' => m \in net
    BY <1>1, BadNewsOf DEF SenderGoesOn
  <2>2. Undecided' => Undecided
    BY <1>1, <1>h, <2>1 DEF SenderGoesOn, Undecided, Run
  <2>3. snd'.state = "unsent" => net' = {}
    BY <1>1, <1>h DEF SenderGoesOn, NothingBegun
  <2>4. snd'.state = "unsent" \/ Msg("receiver", "offer") \in net' => rcv' = NoReceiver /\ accepts' = 0
    BY <1>1, <2>1, <1>h DEF SenderGoesOn, NothingBegun
  <2>5. /\ UNCHANGED <<rcv, loop, post, fin, landed>> /\ (snd.run = "idle" => snd'.run = "idle")
        /\ snd'.push # 0 => snd.push # 0
    BY <1>1 DEF SenderGoesOn
  <2> QED BY <1>i, <2>1, <2>2, <2>3, <2>4, <2>5 DEF NothingBegun, Run
<1>2. CASE ReceiverHindered
  <2>0. Hindered /\ UNCHANGED <<snd, fin, landed, accepts>>
    BY <1>2, Zenon DEF ReceiverHindered
  <2>1. /\ Answers' \subseteq Answers
        /\ \A m \in {Msg("receiver", "offer"), Msg("receiver", "ready")} : m \in net' => m \in net
    BY <2>0, HinderedNews
  <2>r. /\ \/ Run' = Run
           \/ Run = "stream" /\ Run' = "cut"
           \/ Looping /\ Run \notin {"wait"} /\ Run' \in {"idle", "wait", "tell"}
           \/ Run \in {"grant", "tell"} /\ Run' = "idle"
        /\ Unreachable \in net' => Unreachable \in net \/ Looping
    BY <1>h, <2>0, HinderedOnce
  <2>2. CASE Undecided
    <3>1. Run \in {"idle", "probe"} /\ rcv.tok = {} /\ Unreachable \notin net
      BY <1>i, <2>2 DEF NothingBegun
    <3>2. Run' = Run /\ rcv'.tok = {} /\ Unreachable \notin net'
      BY <2>0, <2>r, <3>1 DEF Hindered, Looping
    <3>3. \A a \in Attempt : post'[a] = "none" /\ fin'[a] = "none"
      BY <2>0, <1>i, <2>2 DEF Hindered, OnlyCuts, NothingBegun
    <3>4. snd'.state = "unsent" \/ Msg("receiver", "offer") \in net' => rcv' = NoReceiver /\ net' \subseteq net /\ accepts' = 0
      <4>1. SUFFICES ASSUME snd.state = "unsent" \/ Msg("receiver", "offer") \in net
                     PROVE  rcv' = rcv /\ net' \subseteq net /\ rcv = NoReceiver /\ accepts = 0
        BY <2>0, <2>1
      <4>2. rcv = NoReceiver /\ accepts = 0
        BY <4>1, <1>i DEF NothingBegun
      <4>3. \A l \in Loop : loop[l].run = "idle"
        BY <4>2, NoLoopBefore
      <4> QED BY <1>2, <4>2, <4>3, NothingYet DEF ReceiverHindered
    <3> QED BY <2>0, <1>i, <2>1, <2>2, <3>1, <3>2, <3>3, <3>4 DEF NothingBegun
  <2>3. CASE ~Undecided
    <3>1. rcv'.state # "pending" /\ Run' # "probe"
      BY <2>0, <2>r, <2>3 DEF Hindered, Undecided, Terminal
    <3> QED BY <2>0, <2>1, <2>3, <3>1, DecidedStays
  <2> QED BY <2>2, <2>3
<1>3. CASE PushesAfterAll
  <2>1. ~Undecided
    BY <1>3, <1>i, DecidedHere DEF PushesAfterAll
  <2> QED BY <1>3, <2>1, DecidedStays DEF PushesAfterAll, Undecided, Sender, Run
<1>4. CASE FirstAsks
  <2>1. /\ rcv.state = "pending" /\ Run' = "probe" /\ UNCHANGED <<snd, rcv, post, fin, net, landed>>
    BY <1>4, Zenon DEF FirstAsks, Asks
  <2>2. snd.state # "unsent" /\ Msg("receiver", "offer") \notin net
    BY <1>i, <2>1, NothingYet DEF NothingBegun
  <2>3. Answers' = Answers
    BY <2>1 DEF Answers
  <2> QED BY <1>i, <2>1, <2>2, <2>3 DEF NothingBegun, Undecided
<1>5. CASE SendFile
  <2>1. /\ snd.state = "unsent" /\ snd' = [snd EXCEPT !.state = "offered", !.tok = route.sender /\ ~route.relayed]
        /\ net' = {Msg("receiver", "offer")} /\ UNCHANGED <<rcv, loop, post, fin, landed, accepts>>
    BY <1>5 DEF SendFile
  <2>2. snd'.state = "offered" /\ snd'.run = snd.run /\ snd'.push = snd.push
    BY <2>1 DEF Sender
  <2>3. Answers' = {} /\ Msg("receiver", "ready") \notin net' /\ Unreachable \notin net'
    BY <2>1, UnreachableOf DEF Answers, Msg
  <2>4. Run' = Run
    BY <2>1 DEF Run
  <2> QED BY <1>i, <2>1, <2>2, <2>3, <2>4 DEF NothingBegun, Undecided
<1>6. CASE OnOffer
  <2>1. /\ Msg("receiver", "offer") \in net /\ UNCHANGED <<snd, loop, post, fin, landed, accepts>>
        /\ \/ net' = (net \ {Msg("receiver", "offer")}) \cup {Msg("sender", "reject")} /\ UNCHANGED rcv
           \/ net' = net \ {Msg("receiver", "offer")} /\ rcv' = [rcv EXCEPT !.state = "pending"]
    BY <1>6 DEF OnOffer, Take, Receives
  <2>2. rcv.tok = {} /\ rcv.state = "none" /\ Run = "idle" /\ snd.state # "unsent"
    BY <1>i, <2>1, NothingYet, NoLoopBefore, Numbers DEF NothingBegun, Run
  <2>3. rcv'.tok = {} /\ Run' = "idle"
    BY <2>1, <2>2 DEF Receiver, Run
  <2>4. Msg("sender", "reject") # Msg("receiver", "offer") /\ Msg("sender", "reject") # Msg("receiver", "ready")
    BY DEF Msg
  <2>5. /\ Answers' = {} /\ Msg("receiver", "ready") \notin net' /\ Unreachable \notin net'
        /\ Msg("receiver", "offer") \notin net'
    BY <1>i, <2>1, <2>4, UnreachableOf DEF NothingBegun, Undecided, Answers
  <2>6. Undecided
    BY <2>1 DEF Undecided
  <2> QED BY <1>i, <2>1, <2>2, <2>3, <2>5, <2>6 DEF NothingBegun
<1>7. CASE CannotAccept
  <2>1. /\ rcv.state = "pending" /\ UNCHANGED <<snd, loop, post, fin, landed>> /\ accepts = 0
        /\ rcv' = [rcv EXCEPT !.state = "failed"] /\ net' = net \cup {Failure("sender", "io")}
    BY <1>7 DEF CannotAccept
  <2>2. snd.state # "unsent" /\ Msg("receiver", "offer") \notin net
    BY <1>i, <2>1, NothingYet DEF NothingBegun
  <2>3. Msg("receiver", "offer") \notin net'
    BY <2>1, <2>2 DEF Msg, Failure
  <2>4. rcv'.state # "pending" /\ Run' # "probe"
    BY <2>1, NoLoopBefore, Numbers DEF Receiver, Run
  <2> QED BY <2>1, <2>2, <2>3, <2>4 DEF NothingBegun, Undecided
<1>8. CASE Declines(1)
  <2>1. Run = "probe" /\ Run' = "idle"
    BY <1>8, FirstMoves
  <2>2. net' = net \cup {Msg("sender", "reject")} /\ rcv' = [rcv EXCEPT !.state = "rejected"] /\ UNCHANGED snd
    BY <1>8 DEF Declines
  <2>3. Msg("receiver", "offer") \notin net' /\ rcv'.state # "pending" /\ snd'.state # "unsent"
    BY <1>i, <2>1, <2>2, ProbingNow DEF Msg, Receiver
  <2> QED BY <2>1, <2>3 DEF NothingBegun, Undecided
<1>b. ASSUME NEW mode \in {"pull", "push", "relay"}, Begins(1, mode) PROVE NothingBegun'
  <2>1. Run = "probe" /\ Run' # "probe"
    BY <1>b, BeginsOf
  <2>2. net' = net \cup {Answer(1, mode)} /\ rcv'.state # "pending" /\ UNCHANGED snd
    BY <1>b DEF Begins
  <2>3. Msg("receiver", "offer") \notin net' /\ snd'.state # "unsent"
    BY <1>i, <2>1, <2>2, ProbingNow DEF Msg, Answer
  <2> QED BY <2>1, <2>2, <2>3 DEF NothingBegun, Undecided
<1>9. CASE OnAccept
  <2>1. PICK m \in Answers : net' = net \ {m} /\ (snd' = snd \/ snd' = Answered(m)) /\ UNCHANGED <<rcv, loop>>
    BY <1>9, AcceptKind
  <2>2. m \in Message /\ m.type = "accept" /\ ~Undecided
    BY <2>1, <1>i, DecidedHere DEF Answers
  <2>3. Answered(m).state = "transferring"
    BY <2>2, AnsweredOf
  <2> QED BY <2>1, <2>2, <2>3, DecidedStays DEF Undecided, Run
<1>10. CASE FirstReady
  <2>1. Msg("receiver", "ready") \in net /\ net' \subseteq net /\ UNCHANGED snd
    BY <1>10 DEF FirstReady
  <2>2. ~Undecided
    BY <2>1, <1>i, DecidedHere
  <2>3. rcv'.state # "pending" /\ Run' # "probe"
    <3>1. CASE rcv' = rcv /\ loop' = loop
      BY <2>2, <3>1 DEF Undecided, Run
    <3>2. CASE Fetches(1)
      <4>1. Run' = "grant"
        BY <3>2, FirstMoves
      <4> QED BY <3>2, <4>1 DEF Fetches
    <3> QED BY <1>10, <3>1, <3>2 DEF FirstReady
  <2> QED BY <2>1, <2>2, <2>3, DecidedStays
<1>11. CASE Request(1)
  <2>1. Run = "try" /\ Run' = "stream"
    BY <1>11, FirstMoves DEF Moves
  <2>2. ~Undecided
    BY <2>1, <1>i, DecidedHere
  <2>3. net' = net /\ (snd' = snd \/ snd' = [snd EXCEPT !.state = "transferring"]) /\ rcv'.state = rcv.state
    <3>1. net' = net /\ (snd' = snd \/ snd' = [snd EXCEPT !.state = "transferring"])
      BY <1>11, Zenon DEF Request
    <3>2. \E out : rcv' = [rcv EXCEPT !.active = Tries + 1, !.path = out]
      BY <1>11, Zenon DEF Request
    <3> QED BY <3>1, <3>2 DEF Receiver
  <2>4. (snd'.state = "unsent" => snd.state = "unsent") /\ rcv'.state # "pending"
    BY <2>2, <2>3 DEF Sender, Undecided
  <2> QED BY <2>1, <2>2, <2>3, <2>4, DecidedStays
<1>12. CASE Resumes(1) \/ Chunk(1) \/ StreamEnds(1) \/ LoopConfirms(1)
  <2>1. Run \notin {"idle", "probe"} /\ Run' # "probe"
    BY <1>12, FirstMoves DEF Moves
  <2>2. ~Undecided
    BY <2>1, <1>i, DecidedHere
  <2>3. UNCHANGED <<snd, net>> /\ (rcv' = rcv \/ rcv' = [rcv EXCEPT !.state = "verifying", !.active = 0])
    BY <1>12, Zenon DEF Resumes, Chunk, StreamEnds, LoopConfirms
  <2>4. rcv'.state # "pending"
    BY <2>2, <2>3 DEF Undecided, Receiver
  <2> QED BY <2>1, <2>2, <2>3, <2>4, DecidedStays
<1>13. CASE Upload
  <2>1. ~Undecided
    BY <1>13, <1>i, DecidedHere DEF Upload
  <2>2. Msg("receiver", "ready") # Msg("receiver", "offer")
    BY DEF Msg
  <2> QED BY <1>13, <2>1, <2>2, DecidedStays DEF Upload, Undecided, Sender, Run
<1>14. CASE Restarts
  <2>1. rcv' = NoReceiver /\ loop' = [l \in Loop |-> NoLoop] /\ UNCHANGED <<snd, net>>
    BY <1>14, Zenon DEF Restarts, Restarted
  <2>2. snd.state # "unsent" /\ Msg("receiver", "offer") \notin net
    <3>1. CASE rcv.state # "none"
      BY <3>1, <1>i, NothingYet DEF NothingBegun
    <3>2. CASE \E a \in Attempt : fin[a] # "none"
      BY <3>2, <1>i, DecidedHere DEF Undecided
    <3> QED BY <1>14, <3>1, <3>2 DEF Restarts
  <2>3. Run' = "idle"
    BY <2>1, NothingYet, Numbers DEF Run
  <2> QED BY <2>1, <2>2, <2>3, NothingYet DEF NothingBegun, Undecided
<1>15. ASSUME NEW a \in Attempt, Discards(a)
       PROVE  NothingBegun'
  <2>1. ~Undecided
    BY <1>15, <1>i, DecidedHere DEF Discards
  <2>2. Msg("receiver", "offer") \in net' => Msg("receiver", "offer") \in net
    BY <1>15, HinderedNews DEF Discards
  <2>3. rcv'.state # "pending"
    BY <1>15, <2>1 DEF Discards, Hindered, Undecided, Terminal
  <2>4. Run' # "probe"
    BY <1>h, <1>15, <2>1, HinderedOnce DEF Discards, Undecided
  <2> QED BY <1>15, <2>1, <2>2, <2>3, <2>4, DecidedStays DEF Discards
<1>16. ASSUME NEW a \in Attempt, Confirms(a) \/ PostLands(a)
       PROVE  NothingBegun'
  <2>1. ~Undecided
    BY <1>16, <1>i, DecidedHere DEF Confirms, PostLands
  <2>2. Msg("receiver", "offer") \in net' => Msg("receiver", "offer") \in net
    BY <1>16 DEF Confirms, PostLands, Lands, Msg
  <2>3. UNCHANGED <<snd, loop>> /\ (rcv' = rcv \/ rcv'.state = "done")
    BY <1>16, Zenon DEF Confirms, PostLands, Lands
  <2> QED BY <2>1, <2>2, <2>3, DecidedStays DEF Undecided, Run
<1>17. ASSUME NEW a \in Attempt, PostAdmitted(a) \/ PostOpens(a) \/ PostChunk(a) \/ PostEnds(a) \/ PostBreaks(a)
       PROVE  NothingBegun'
  <2>1. ~Undecided
    <3>1. snd.run # "idle" \/ post[a] # "none"
      BY <1>17 DEF PostAdmitted, PostOpens, PostChunk, PostEnds, PostBreaks
    <3> QED BY <3>1, <1>i, DecidedHere
  <2>2. UNCHANGED <<snd, net, loop>>
    BY <1>17, Zenon DEF PostAdmitted, PostOpens, PostChunk, PostEnds, PostBreaks
  <2>3. rcv'.state # "pending"
    BY <1>17, <2>1 DEF PostAdmitted, PostOpens, PostChunk, PostEnds, PostBreaks, Undecided, Receiver, Unlinked
  <2> QED BY <2>1, <2>2, <2>3, DecidedStays DEF Undecided, Run
<1>18. CASE LoopLands(1)
  <2>1. Run = "land" /\ Run' = "idle"
    BY <1>18, FirstMoves
  <2>2. Msg("receiver", "offer") \in net' => Msg("receiver", "offer") \in net
    BY <1>18 DEF LoopLands, Lands, Msg
  <2>3. snd' = snd /\ rcv'.state = "done"
    BY <1>18 DEF LoopLands, Lands
  <2>4. ~Undecided
    BY <2>1, <1>i, DecidedHere
  <2> QED BY <2>1, <2>2, <2>3, <2>4, DecidedStays
<1> QED BY <1>1, <1>2, <1>3, <1>4, <1>5, <1>6, <1>7, <1>8, <1>b, <1>9, <1>10, <1>11, <1>12, <1>13, <1>14,
          <1>15, <1>16, <1>17, <1>18, OnceKinds

-----------------------------------------------------------------------------
(* One answer, and what may be under way beside it.                        *)

LEMMA AnswerStays ==
  ASSUME AnswerFirst, Answers' \subseteq Answers,
         Msg("receiver", "ready") \in net' => Msg("receiver", "ready") \in net,
         snd.run = "idle" => snd'.run = "idle", snd'.push # 0 => snd.push # 0
  PROVE  AnswerFirst'
BY DEF AnswerFirst

\* What a step of a loop or of a POST does besides.
LEMMA LoopQuiet ==
  ASSUME Resumes(1) \/ Chunk(1) \/ StreamEnds(1) \/ LoopConfirms(1)
  PROVE  UNCHANGED <<snd, post, fin, net, landed, overlap, accepts>>
BY Zenon DEF Resumes, Chunk, StreamEnds, LoopConfirms

LEMMA PostQuiet ==
  ASSUME NEW a \in Attempt, Confirms(a) \/ PostAdmitted(a) \/ PostOpens(a) \/ PostChunk(a) \/ PostEnds(a) \/ PostBreaks(a)
  PROVE  UNCHANGED <<snd, loop, net, landed, accepts>>
BY Zenon DEF Confirms, PostAdmitted, PostOpens, PostChunk, PostEnds, PostBreaks

LEMMA LandsNews ==
  ASSUME Lands
  PROVE  /\ Answers' = Answers /\ snd' = snd
         /\ Msg("receiver", "ready") \in net' => Msg("receiver", "ready") \in net
         /\ Unreachable \in net' => Unreachable \in net
BY UnreachableOf DEF Lands, Answers, Msg

LEMMA RequestSender ==
  ASSUME Inv, Request(1)
  PROVE  snd'.run = snd.run /\ snd'.push = snd.push /\ UNCHANGED <<post, fin, net, landed, accepts>>
<1>1. (snd' = snd \/ snd' = [snd EXCEPT !.state = "transferring"]) /\ UNCHANGED <<post, fin, net, landed, accepts>>
  BY Zenon DEF Request
<1> QED BY <1>1, Typed DEF Sender

LEMMA AnswerFirstStep ==
  ASSUME Inv, [Next]_vars, accepts' <= 1
  PROVE  AnswerFirst'
<1> USE Typed
<1>h. accepts <= 1 /\ AnswerFirst /\ NothingBegun
  BY OnceBefore DEF InOrder
<1>i. AnswerFirst
  BY <1>h
<1>0. ASSUME UNCHANGED <<snd, net>> PROVE AnswerFirst'
  BY <1>0, <1>i DEF AnswerFirst, Answers
<1>1. CASE SenderGoesOn
  <2>1. BadNews /\ (snd.run = "idle" => snd'.run = "idle") /\ (snd'.push # 0 => snd.push # 0)
    BY <1>1 DEF SenderGoesOn
  <2> QED BY <2>1, <1>i, BadNewsOf, AnswerStays
<1>2. CASE ReceiverHindered
  BY <1>2, <1>i, HinderedNews, AnswerStays DEF ReceiverHindered
<1>3. CASE PushesAfterAll
  <2>1. Answers = {} /\ Answers' \subseteq Answers
    BY <1>3, <1>i DEF PushesAfterAll, AnswerFirst, Answers
  <2> QED BY <2>1 DEF AnswerFirst
<1>4. CASE Request(1)
  BY <1>4, <1>i, RequestSender, AnswerStays DEF Answers
<1>5. CASE SendFile
  <2>1. Answers' = {}
    BY <1>5 DEF SendFile, Answers, Msg
  <2> QED BY <2>1 DEF AnswerFirst
<1>6. CASE OnOffer \/ CannotAccept
  <2>1. UNCHANGED snd /\ net' \subseteq net \cup {Msg("sender", "reject"), Failure("sender", "io")}
    BY <1>6 DEF OnOffer, CannotAccept, Take
  <2>2. BadNews
    BY <2>1, News DEF BadNews
  <2> QED BY <2>1, <2>2, <1>i, BadNewsOf, AnswerStays
<1>7. CASE Declines(1)
  BY <1>7, <1>i, News, OneMore, BadNewsOf, AnswerStays DEF Declines
<1>b. ASSUME NEW mode \in {"pull", "push", "relay"}, Begins(1, mode) PROVE AnswerFirst'
  <2>0. Run = "probe" /\ net' = net \cup {Answer(1, mode)} /\ snd' = snd
    BY <1>b, BeginsOf DEF Begins
  <2>1. Answers' = {Answer(1, mode)}
    BY <1>h, <2>0, Probing DEF Answers, Answer
  <2>2. Msg("receiver", "ready") \notin net' /\ snd'.run = "idle" /\ snd'.push = 0
    BY <1>h, <2>0, Probing DEF Answer, Msg
  <2> QED BY <2>1, <2>2 DEF AnswerFirst
<1>8. CASE OnAccept
  <2>1. PICK m \in Answers : net' = net \ {m}
    BY <1>8, AcceptKind
  <2>2. Answers' = {}
    BY <2>1, <1>i DEF AnswerFirst, Answers
  <2> QED BY <2>2 DEF AnswerFirst
<1>9. CASE FirstReady
  <2>1. UNCHANGED snd /\ net' \subseteq net
    BY <1>9 DEF FirstReady
  <2> QED BY <2>1, <1>i, FewerMessages, BadNewsOf, AnswerStays
<1>10. CASE Upload
  <2>1. Answers = {} /\ net' = net \cup {Msg("receiver", "ready")}
    BY <1>10, <1>i DEF AnswerFirst, Upload
  <2>2. Answers' = {}
    BY <2>1, UnreachableOf DEF Answers
  <2> QED BY <2>2 DEF AnswerFirst
<1>11. ASSUME NEW a \in Attempt, Discards(a) PROVE AnswerFirst'
  BY <1>11, <1>i, HinderedNews, AnswerStays DEF Discards
<1>12. ASSUME Lands PROVE AnswerFirst'
  BY <1>12, <1>i, LandsNews, AnswerStays
<1>13. ASSUME NEW a \in Attempt,
              Confirms(a) \/ PostAdmitted(a) \/ PostOpens(a) \/ PostChunk(a) \/ PostEnds(a) \/ PostBreaks(a)
       PROVE AnswerFirst'
  BY <1>13, <1>0, PostQuiet
<1>14. CASE Resumes(1) \/ Chunk(1) \/ StreamEnds(1) \/ LoopConfirms(1)
  BY <1>14, <1>0, LoopQuiet
<1>15. CASE Restarts \/ FirstAsks
  <2>1. UNCHANGED <<snd, net>>
    BY <1>15, Zenon DEF Restarts, FirstAsks, Asks
  <2> QED BY <2>1, <1>0
<1> QED BY <1>1, <1>2, <1>3, <1>4, <1>5, <1>6, <1>7, <1>b, <1>8, <1>9, <1>10, <1>11, <1>12, <1>13, <1>14, <1>15,
           OnceKinds DEF LoopLands, PostLands

LEMMA AcceptedWaitsStep ==
  ASSUME Inv, [Next]_vars, accepts' <= 1
  PROVE  AcceptedWaits'
<1> USE Typed
<1>h. accepts <= 1 /\ AcceptedWaits /\ NothingBegun
  BY OnceBefore DEF InOrder
<1>i. AcceptedWaits
  BY <1>h
<1>0. ASSUME UNCHANGED <<rcv, loop, post, fin>> PROVE AcceptedWaits'
  BY <1>0, <1>i DEF AcceptedWaits, Run
<1>s. ASSUME rcv'.state # "accepted" PROVE AcceptedWaits'
  BY <1>s DEF AcceptedWaits
<1>1. CASE SenderGoesOn \/ PushesAfterAll \/ SendFile \/ OnAccept \/ Upload
  <2>1. UNCHANGED <<rcv, loop, post, fin>>
    BY <1>1, AcceptKind, Zenon DEF SenderGoesOn, PushesAfterAll, SendFile, Upload
  <2> QED BY <2>1, <1>0
<1>2. CASE ReceiverHindered
  <2>0. Hindered /\ fin' = fin
    BY <1>2, Zenon DEF ReceiverHindered
  <2>1. SUFFICES ASSUME rcv'.state = "accepted" PROVE AcceptedWaits'
    BY DEF AcceptedWaits
  <2>2. rcv.state = "accepted"
    BY <2>0, <2>1 DEF Hindered, Terminal
  <2>3. \A a \in Attempt : post'[a] = post[a]
    BY <2>0, <1>i, <2>2 DEF Hindered, OnlyCuts, AcceptedWaits
  <2>4. Run' = "idle"
    BY <2>0, <1>h, <2>2, HinderedOnce DEF AcceptedWaits, Looping
  <2> QED BY <2>0, <1>i, <2>2, <2>3, <2>4 DEF AcceptedWaits
<1>3. CASE Resumes(1) \/ Chunk(1) \/ StreamEnds(1) \/ LoopConfirms(1) \/ Request(1)
  <2>1. Run # "idle"
    BY <1>3, FirstMoves DEF Moves
  <2>2. rcv.state # "accepted"
    BY <1>i, <2>1 DEF AcceptedWaits
  <2>3. rcv'.state = rcv.state \/ rcv'.state = "verifying"
    <3>1. \/ rcv' = rcv \/ rcv' = [rcv EXCEPT !.state = "verifying", !.active = 0]
          \/ \E out : rcv' = [rcv EXCEPT !.active = Tries + 1, !.path = out]
      BY <1>3, Zenon DEF Resumes, Chunk, StreamEnds, LoopConfirms, Request
    <3>2. ASSUME NEW out, rcv' = [rcv EXCEPT !.active = Tries + 1, !.path = out] PROVE rcv'.state = rcv.state
      BY <3>2 DEF Receiver
    <3>3. CASE rcv' = rcv \/ rcv' = [rcv EXCEPT !.state = "verifying", !.active = 0]
      BY <3>3 DEF Receiver
    <3> QED BY <3>1, <3>2, <3>3, Zenon
  <2> QED BY <2>2, <2>3, <1>s
<1>4. CASE LoopLands(1) \/ \E a \in Attempt : PostLands(a)
  BY <1>4, <1>s DEF LoopLands, PostLands, Lands
<1>5. CASE OnOffer
  <2>1. CASE UNCHANGED rcv
    BY <1>5, <2>1, <1>0 DEF OnOffer
  <2>2. CASE ~UNCHANGED rcv
    BY <1>5, <2>2, <1>s DEF OnOffer, Receiver
  <2> QED BY <2>1, <2>2
<1>6. CASE FirstAsks \/ CannotAccept \/ Declines(1)
  <2>1. rcv'.state # "accepted"
    BY <1>6 DEF FirstAsks, Asks, CannotAccept, Declines, Receiver
  <2> QED BY <2>1, <1>s
<1>7. ASSUME NEW mode \in {"pull", "push", "relay"}, Begins(1, mode) PROVE AcceptedWaits'
  <2>1. CASE mode = "pull"
    BY <1>7, <2>1, <1>s DEF Begins
  <2>2. CASE mode # "pull"
    <3>1. Run = "probe" /\ Run' = "idle" /\ post' = post /\ fin' = fin
      BY <1>7, <2>2, BeginsOf DEF Begins
    <3> QED BY <3>1, <1>h, Probing DEF AcceptedWaits
  <2> QED BY <2>1, <2>2
<1>8. CASE FirstReady
  <2>1. CASE rcv' = rcv /\ loop' = loop
    BY <1>8, <2>1, <1>0 DEF FirstReady
  <2>2. CASE Fetches(1)
    BY <2>2, <1>s DEF Fetches
  <2> QED BY <1>8, <2>1, <2>2 DEF FirstReady
<1>9. CASE Restarts
  <2>1. rcv' = NoReceiver
    BY <1>9, Zenon DEF Restarts, Restarted
  <2> QED BY <2>1, NothingYet, <1>s
<1>10. ASSUME NEW a \in Attempt, Discards(a) PROVE AcceptedWaits'
  <2>1. rcv.state # "accepted"
    BY <1>10, <1>i DEF Discards, AcceptedWaits
  <2> QED BY <1>10, <2>1, <1>s DEF Discards, Hindered, Terminal
<1>11. ASSUME NEW a \in Attempt, Confirms(a) PROVE AcceptedWaits'
  <2>1. rcv.state # "accepted"
    BY <1>11, <1>i DEF Confirms, AcceptedWaits
  <2> QED BY <1>11, <2>1, <1>s DEF Confirms
<1>12. ASSUME NEW a \in Attempt, PostAdmitted(a) PROVE AcceptedWaits'
  <2>1. UNCHANGED <<rcv, loop, fin>> /\ post' = [post EXCEPT ![a] = "asked"]
    BY <1>12, Zenon DEF PostAdmitted
  <2> QED BY <2>1, <1>i DEF AcceptedWaits, PostType, Run
<1>13. ASSUME NEW a \in Attempt, PostOpens(a) \/ PostEnds(a) PROVE AcceptedWaits'
  <2>1. \/ rcv' = [rcv EXCEPT !.state = "transferring", !.active = a, !.path = a]
        \/ rcv' = [rcv EXCEPT !.state = "verifying", !.active = 0]
    BY <1>13, Zenon DEF PostOpens, PostEnds
  <2>2. rcv'.state # "accepted"
    BY <2>1 DEF Receiver
  <2> QED BY <2>2, <1>s
<1>14. ASSUME NEW a \in Attempt, PostChunk(a) PROVE AcceptedWaits'
  BY <1>14, <1>0 DEF PostChunk
<1>15. ASSUME NEW a \in Attempt, PostBreaks(a) PROVE AcceptedWaits'
  <2>1. post[a] \in {"broken", "open"} /\ rcv' = [Unlinked(rcv) EXCEPT !.active = 0]
    BY <1>15, Zenon DEF PostBreaks
  <2>2. rcv'.state = rcv.state
    BY <2>1 DEF Receiver, Unlinked
  <2> QED BY <2>1, <2>2, <1>i, <1>s DEF AcceptedWaits
<1> QED BY <1>1, <1>2, <1>3, <1>4, <1>5, <1>6, <1>7, <1>8, <1>9, <1>10, <1>11, <1>12, <1>13, <1>14, <1>15, OnceKinds

-----------------------------------------------------------------------------
(* Pull, push and relay keep out of each other's way.                      *)

LEMMA VerifiedStep ==
  ASSUME Inv, [Next]_vars, accepts' <= 1
  PROVE  VerifiedForRequest'
<1> USE Typed, Numbers
<1>i. VerifiedForRequest
  BY OnceBefore DEF InOrder
<1>0. ASSUME UNCHANGED <<post, fin>> PROVE VerifiedForRequest'
  BY <1>0, <1>i DEF VerifiedForRequest
<1>1. CASE SenderGoesOn \/ PushesAfterAll \/ SendFile \/ OnOffer \/ FirstAsks \/ CannotAccept \/ OnAccept \/ FirstReady \/ Upload
  <2>1. UNCHANGED <<post, fin>>
    BY <1>1, AcceptKind, Zenon DEF SenderGoesOn, PushesAfterAll, SendFile, OnOffer, FirstAsks, Asks, CannotAccept, FirstReady, Upload
  <2> QED BY <2>1, <1>0
<1>2. CASE ReceiverHindered
  BY <1>2, <1>i DEF ReceiverHindered, Hindered, OnlyCuts, VerifiedForRequest
<1>3. CASE \/ Declines(1) \/ (\E mode \in {"pull", "push", "relay"} : Begins(1, mode))
           \/ Resumes(1) \/ Request(1) \/ Chunk(1) \/ StreamEnds(1) \/ LoopConfirms(1) \/ LoopLands(1)
  <2>1. UNCHANGED <<post, fin>>
    BY <1>3, Zenon DEF Declines, Begins, Resumes, Request, Chunk, StreamEnds, LoopConfirms, LoopLands, Lands
  <2> QED BY <2>1, <1>0
<1>7. CASE Restarts
  <2>1. fin' = [a \in Attempt |-> "none"]
    BY <1>7, Zenon DEF Restarts, Restarted
  <2> QED BY <2>1 DEF VerifiedForRequest
<1>8. ASSUME NEW a \in Attempt, Discards(a) PROVE VerifiedForRequest'
  <2>1. fin' = [fin EXCEPT ![a] = "none"] /\ OnlyCuts
    BY <1>8, Zenon DEF Discards, Hindered
  <2>2. \A b \in Attempt : fin'[b] # "none" => fin[b] # "none"
    BY <2>1
  <2> QED BY <2>1, <2>2, <1>i DEF OnlyCuts, VerifiedForRequest
<1>9. ASSUME NEW a \in Attempt, Confirms(a) \/ PostLands(a) PROVE VerifiedForRequest'
  <2>1. /\ fin[a] # "none" /\ post' = post
        /\ fin' = [fin EXCEPT ![a] = "land"] \/ fin' = [fin EXCEPT ![a] = "none"]
    <3>1. CASE Confirms(a)
      <4>1. fin[a] = "check" /\ post' = post /\ fin' = [fin EXCEPT ![a] = "land"]
        BY <3>1, Zenon DEF Confirms
      <4> QED BY <4>1
    <3>2. CASE PostLands(a)
      <4>1. fin[a] = "land" /\ post' = post /\ fin' = [fin EXCEPT ![a] = "none"]
        BY <3>2, Zenon DEF PostLands, Lands
      <4> QED BY <4>1
    <3> QED BY <1>9, <3>1, <3>2
  <2> QED BY <2>1, <1>i DEF VerifiedForRequest
<1>10. ASSUME NEW a \in Attempt, PostAdmitted(a) \/ PostOpens(a) \/ PostBreaks(a) PROVE VerifiedForRequest'
  <2>1. fin' = fin /\ post[a] # "answered"
    BY <1>10 DEF PostAdmitted, PostOpens, PostBreaks
  <2>2. \A b \in Attempt : b # a => post'[b] = post[b]
    BY <1>10 DEF PostAdmitted, PostOpens, PostBreaks, PostType
  <2> QED BY <2>1, <2>2, <1>i DEF VerifiedForRequest
<1>11. ASSUME NEW a \in Attempt, PostChunk(a) PROVE VerifiedForRequest'
  BY <1>11, <1>0 DEF PostChunk
<1>12. ASSUME NEW a \in Attempt, PostEnds(a) PROVE VerifiedForRequest'
  <2>1. fin' = [fin EXCEPT ![a] = "check"] /\ post' = [post EXCEPT ![a] = "answered"]
    BY <1>12 DEF PostEnds
  <2> QED BY <2>1, <1>i DEF VerifiedForRequest, PostType
<1> QED BY <1>1, <1>2, <1>3, <1>7, <1>8, <1>9, <1>10, <1>11, <1>12, OnceKinds

LEMMA PullAloneStep ==
  ASSUME Inv, [Next]_vars, accepts' <= 1
  PROVE  PullAlone'
<1> USE Typed
<1>h. accepts <= 1 /\ PullAlone /\ AnswerFirst /\ NothingBegun /\ AcceptedWaits
  BY OnceBefore DEF InOrder
<1>0. ASSUME snd.run = "idle" => snd'.run = "idle", Answers' \subseteq Answers,
             Msg("receiver", "ready") \in net' => Msg("receiver", "ready") \in net,
             Unreachable \in net' => Unreachable \in net,
             Run' # "idle" => Kind' = Kind, Looping' => Looping, Run' = "grant" => Run = "grant",
             Run \in {"idle", "tell"} => Run' \in {"idle", "tell"}, rcv'.state = "accepted" => rcv.state = "accepted",
             Pulls => \A a \in Attempt : post'[a] = post[a]
      PROVE  PullAlone'
  BY <1>0, <1>h DEF PullAlone, Pulls, Looping
<1>1. CASE SenderGoesOn
  <2>1. BadNews /\ (snd.run = "idle" => snd'.run = "idle") /\ UNCHANGED <<rcv, loop, post>>
    BY <1>1 DEF SenderGoesOn
  <2> QED BY <1>0, <2>1, BadNewsOf DEF Looping, Run, Kind
<1>2. ASSUME Hindered, UNCHANGED snd PROVE PullAlone'
  <2>1. /\ Answers' \subseteq Answers
        /\ Msg("receiver", "ready") \in net' => Msg("receiver", "ready") \in net
        /\ Unreachable \in net' => Unreachable \in net \/ (Looping /\ Kind = "pull" /\ Run' = "tell")
    BY <1>2, <1>h, HinderedNews, HinderedOnce
  <2>2. /\ Run' # "idle" => Kind' = Kind
        /\ Looping' => Looping
        /\ Run' = "grant" => Run = "grant"
        /\ Run \in {"idle", "tell"} => Run' \in {"idle", "tell"}
    BY <1>2, <1>h, HinderedOnce DEF Looping
  <2>3. Pulls => \A a \in Attempt : post'[a] = post[a]
    BY <1>2, <1>h DEF Hindered, OnlyCuts, PullAlone
  <2>s. rcv'.state = "accepted" => rcv.state = "accepted"
    BY <1>2 DEF Hindered, Terminal
  <2>4. CASE Unreachable \in net' => Unreachable \in net
    BY <1>0, <1>2, <2>1, <2>2, <2>3, <2>s, <2>4
  <2>5. CASE Looping /\ Kind = "pull" /\ Run' = "tell"
    <3>1. Pulls /\ ~Looping' /\ ~Pulls'
      BY <2>5 DEF Pulls, Looping
    <3>2. rcv'.state # "accepted"
      BY <2>5, <2>s, <1>h DEF AcceptedWaits, Looping
    <3> QED BY <1>2, <2>1, <2>2, <2>5, <3>1, <3>2, <1>h DEF PullAlone, Pulls
  <2> QED BY <2>1, <2>4, <2>5
<1>3. CASE PushesAfterAll
  <2>1. Run' = Run /\ Run \in {"idle", "tell"} /\ Unreachable \notin net'
    BY <1>3, <1>h DEF PushesAfterAll, PullAlone, Run
  <2> QED BY <2>1 DEF PullAlone, Pulls, Looping
<1>4. CASE Resumes(1)
  <2>1. Run \in {"grant", "wait"} /\ Run' = "try" /\ Kind' = Kind
    BY <1>4, FirstMoves
  <2>2. UNCHANGED <<snd, post, net>>
    BY <1>4, LoopQuiet
  <2>3. Unreachable \notin net'
    BY <2>1, <2>2, <1>h DEF PullAlone
  <2>4. CASE Run = "grant"
    BY <2>1, <2>3, <2>4, <1>h DEF PullAlone, Pulls
  <2>5. CASE Run = "wait"
    BY <2>1, <2>2, <2>3, <2>5, <1>h DEF PullAlone, Pulls, Looping, Answers
  <2> QED BY <2>1, <2>4, <2>5
<1>5. CASE SendFile
  <2>1. Run' = "idle" /\ Unreachable \notin net'
    BY <1>5, <1>h, UnreachableOf, NoLoopBefore, Numbers DEF SendFile, NothingBegun, Run
  <2> QED BY <2>1 DEF PullAlone, Pulls, Looping
<1>6. CASE OnOffer \/ CannotAccept \/ FirstAsks
  <2>1. Undecided /\ UNCHANGED snd /\ net' \subseteq net \cup {Msg("sender", "reject"), Failure("sender", "io")}
    BY <1>6 DEF OnOffer, CannotAccept, FirstAsks, Asks, Take, Receives, Undecided
  <2>2. Run \in {"idle", "probe"} /\ Unreachable \notin net
    BY <2>1, <1>h DEF NothingBegun
  <2>3. Run' \in {"idle", "probe"}
    <3>1. Run' = Run \/ Run' = "probe"
      BY <1>6 DEF OnOffer, CannotAccept, FirstAsks, Run
    <3> QED BY <2>2, <3>1
  <2>4. Unreachable \notin net'
    BY <2>1, <2>2, News
  <2> QED BY <2>3, <2>4 DEF PullAlone, Pulls, Looping
<1>7. CASE Declines(1)
  <2>1. Run = "probe" /\ Run' = "idle"
    BY <1>7, FirstMoves
  <2>2. Unreachable \notin net'
    BY <1>7, <1>h, <2>1, Probing, News DEF Declines
  <2> QED BY <2>1, <2>2 DEF PullAlone, Pulls, Looping
<1>b. ASSUME NEW mode \in {"pull", "push", "relay"}, Begins(1, mode) PROVE PullAlone'
  <2>1. Run = "probe" /\ Run' = (IF mode = "pull" THEN "try" ELSE "idle") /\ Kind' = "pull"
    BY <1>b, BeginsOf
  <2>0. net' = net \cup {Answer(1, mode)} /\ UNCHANGED <<snd, post>>
    BY <1>b DEF Begins
  <2>2. Answers' = {Answer(1, mode)} /\ Answer(1, mode).mode = mode
    BY <1>h, <2>0, <2>1, Probing DEF Answers, Answer
  <2>3. Msg("receiver", "ready") \notin net' /\ Unreachable \notin net' /\ snd'.run = "idle"
    BY <1>h, <2>0, <2>1, Probing, UnreachableOf DEF Answer, Msg
  <2>4. \A a \in Attempt : post'[a] = "none"
    BY <1>h, <2>0, <2>1, Probing
  <2> QED BY <2>1, <2>2, <2>3, <2>4 DEF PullAlone, Pulls, Looping
<1>8. CASE OnAccept
  <2>1. PICK m \in Answers : /\ net' = net \ {m} /\ (snd' = snd \/ snd' = Answered(m))
                             /\ UNCHANGED <<rcv, loop, post, file, fin, landed, overlap, accepts>>
    BY <1>8, AcceptKind
  <2>2. m \in Message /\ m.type = "accept"
    BY <2>1 DEF Answers
  <2>3. m.mode = "pull" => Answered(m).run = "idle"
    BY <2>2, AnsweredOf
  <2>4. Answers' \subseteq Answers /\ Run' = Run /\ Kind' = Kind
    BY <2>1 DEF Answers, Run, Kind
  <2> QED BY <2>1, <2>3, <2>4, <1>h DEF PullAlone, Pulls, Looping
<1>9. CASE FirstReady
  <2>1. Msg("receiver", "ready") \in net /\ net' \subseteq net /\ UNCHANGED <<snd, post>>
    BY <1>9 DEF FirstReady
  <2>2. Unreachable \notin net' /\ ~Pulls
    BY <2>1, <1>h DEF PullAlone
  <2>3. CASE rcv' = rcv /\ loop' = loop
    BY <2>2, <2>3, <1>h DEF PullAlone, Pulls, Looping, Run, Kind
  <2>4. CASE Fetches(1)
    <3>1. Kind' = "relay" /\ Run' = "grant"
      BY <2>4, FirstMoves
    <3> QED BY <2>2, <3>1 DEF PullAlone, Pulls, Looping
  <2> QED BY <1>9, <2>3, <2>4 DEF FirstReady
<1>10. CASE Request(1) \/ Chunk(1) \/ StreamEnds(1) \/ LoopConfirms(1)
  <2>1. Looping /\ Looping' /\ Kind' = Kind /\ Run' # "grant" /\ Run \notin {"idle", "tell"}
    BY <1>10, FirstMoves DEF Moves, Looping
  <2>2. snd'.run = snd.run /\ UNCHANGED <<net, post>>
    BY <1>10, LoopQuiet, RequestSender
  <2>3. Unreachable \notin net
    BY <2>1, <1>h DEF PullAlone
  <2> QED BY <2>1, <2>2, <2>3, <1>h DEF PullAlone, Pulls, Answers
<1>11. CASE Upload
  <2>1. snd.run # "idle" /\ net' = net \cup {Msg("receiver", "ready")} /\ UNCHANGED <<rcv, loop, post>>
    BY <1>11 DEF Upload
  <2>2. ~Pulls /\ Unreachable \notin net'
    BY <2>1, <1>h, UnreachableOf DEF PullAlone
  <2> QED BY <2>1, <2>2, <1>h DEF PullAlone, Pulls, Looping, Run, Kind
<1>12. CASE Restarts
  <2>1. rcv' = NoReceiver /\ loop' = [l \in Loop |-> NoLoop] /\ UNCHANGED <<snd, net>>
    BY <1>12, Zenon DEF Restarts, Restarted
  <2>2. Run' = "idle" /\ rcv'.state # "accepted"
    BY <2>1, NothingYet, Numbers DEF Run
  <2> QED BY <2>1, <2>2, <1>h DEF PullAlone, Pulls, Looping, Answers
<1>13. CASE LoopLands(1) \/ \E a \in Attempt : PostLands(a)
  <2>1. Lands /\ (loop' = loop \/ Run' = "idle")
    BY <1>13, FirstMoves DEF LoopLands, PostLands
  <2>2. /\ Answers' = Answers /\ snd' = snd /\ (Msg("receiver", "ready") \in net' => Msg("receiver", "ready") \in net)
        /\ Unreachable \in net' => Unreachable \in net
    BY <2>1, LandsNews
  <2>3. post' = post /\ rcv'.state # "accepted"
    BY <2>1 DEF Lands
  <2>4. /\ Run' # "idle" => Kind' = Kind
        /\ Looping' => Looping
        /\ Run' = "grant" => Run = "grant"
        /\ Run \in {"idle", "tell"} => Run' \in {"idle", "tell"}
    BY <2>1 DEF Run, Kind, Looping
  <2> QED BY <1>0, <2>2, <2>3, <2>4
<1>14. ASSUME NEW a \in Attempt, PostAdmitted(a) \/ PostOpens(a) \/ PostEnds(a) \/ PostBreaks(a) PROVE PullAlone'
  <2>1. ~Pulls
    BY <1>14, <1>h DEF PostAdmitted, PostOpens, PostEnds, PostBreaks, PullAlone
  <2>2. UNCHANGED <<snd, loop, net>>
    BY <1>14, PostQuiet
  <2>3. rcv'.state = "accepted" => rcv.state = "accepted"
    BY <1>14 DEF PostAdmitted, PostOpens, PostEnds, PostBreaks, Receiver, Unlinked
  <2> QED BY <1>0, <2>1, <2>2, <2>3 DEF Looping, Answers, Run, Kind
<1>15. ASSUME NEW a \in Attempt, PostChunk(a) \/ Confirms(a) PROVE PullAlone'
  <2>1. UNCHANGED <<snd, rcv, loop, post, net>>
    BY <1>15, Zenon DEF PostChunk, Confirms
  <2> QED BY <1>0, <2>1 DEF Looping, Answers, Run, Kind
<1> QED BY <1>1, <1>2, <1>3, <1>4, <1>5, <1>6, <1>7, <1>b, <1>8, <1>9, <1>10, <1>11, <1>12, <1>13, <1>14, <1>15,
           OnceKinds DEF ReceiverHindered, Discards

LEMMA OverlapStays ==
  ASSUME Inv, [Next]_vars, ~overlap'
  PROVE  ~overlap
<1>1. CASE SenderGoesOn \/ ReceiverHindered \/ PushesAfterAll \/ Restarts \/ SendFile \/ OnOffer
  BY <1>1, Zenon DEF SenderGoesOn, ReceiverHindered, PushesAfterAll, Restarts, SendFile, OnOffer
<1>2. CASE Asks \/ CannotAccept \/ OnAccept \/ Ready \/ Upload
  BY <1>2, AcceptKind, Zenon DEF Asks, CannotAccept, Ready, Upload
<1>3. ASSUME NEW l \in Loop, \/ Declines(l) \/ (\E mode \in {"pull", "push", "relay"} : Begins(l, mode))
                             \/ Resumes(l) \/ Request(l) \/ Chunk(l) \/ StreamEnds(l) \/ LoopConfirms(l) \/ LoopLands(l)
      PROVE  ~overlap
  BY <1>3, Zenon DEF Declines, Begins, Resumes, Request, Chunk, StreamEnds, LoopConfirms, LoopLands, Lands
<1>4. ASSUME NEW a \in Attempt, \/ Discards(a) \/ Confirms(a) \/ PostLands(a) \/ PostAdmitted(a) \/ PostOpens(a)
                                \/ PostChunk(a) \/ PostEnds(a) \/ PostBreaks(a)
      PROVE  ~overlap
  BY <1>4, Zenon DEF Discards, Confirms, PostLands, Lands, PostAdmitted, PostOpens, PostChunk, PostEnds, PostBreaks
<1> QED BY <1>1, <1>2, <1>3, <1>4, StepKinds, Zenon


\* Before the first accept there is no token, and no request comes.
LEMMA UnacceptedStep ==
  ASSUME Inv, [Next]_vars, accepts' = 0
  PROVE  rcv'.tok = {} /\ \A a \in Attempt : post'[a] = "none"
<1> USE Typed
<1>0. accepts = 0 /\ ~Asks /\ ~CannotAccept
  BY AcceptsGrow, Numbers DEF Asks, CannotAccept
<1>i. /\ rcv.tok = {} /\ \A a \in Attempt : post[a] = "none"
      /\ \A l \in Loop : loop[l].run = "idle"
  BY <1>0, NoLoopBefore DEF Inv, LoopsAccepted
<1>g. ASSUME rcv'.tok = rcv.tok \/ rcv'.tok = {}, \A a \in Attempt : post'[a] = post[a]
      PROVE  rcv'.tok = {} /\ \A a \in Attempt : post'[a] = "none"
  BY <1>g, <1>i
<1>1. CASE SenderGoesOn \/ PushesAfterAll \/ SendFile \/ OnAccept \/ Upload
  <2>1. rcv' = rcv /\ post' = post
    BY <1>1, AcceptKind, Zenon DEF SenderGoesOn, PushesAfterAll, SendFile, Upload
  <2> QED BY <2>1, <1>g
<1>h. ASSUME Hindered PROVE rcv'.tok = {} /\ \A a \in Attempt : post'[a] = "none"
  BY <1>h, <1>i DEF Hindered, OnlyCuts
<1>2. CASE Restarts
  <2>1. rcv' = NoReceiver /\ post' = [a \in Attempt |-> IF Serving(a) THEN "gone" ELSE post[a]]
    BY <1>2, Zenon DEF Restarts, Restarted
  <2> QED BY <2>1, <1>i, NothingYet DEF Serving
<1>3. CASE OnOffer
  <2>1. post' = post /\ (rcv' = rcv \/ rcv' = [rcv EXCEPT !.state = "pending"])
    BY <1>3, Zenon DEF OnOffer
  <2> QED BY <2>1, <1>g DEF Receiver
<1>4. CASE Ready
  BY <1>4, <1>g DEF Ready, Fetches
<1>5. ASSUME NEW l \in Loop,
             \/ Declines(l) \/ (\E mode \in {"pull", "push", "relay"} : Begins(l, mode)) \/ Resumes(l) \/ Request(l)
             \/ Chunk(l) \/ StreamEnds(l) \/ LoopConfirms(l) \/ LoopLands(l)
      PROVE  FALSE
  <2>1. loop[l].run \in {"probe", "grant", "wait", "try", "stream", "check", "land"}
    BY <1>5, Zenon DEF Declines, Begins, Resumes, Request, Chunk, StreamEnds, LoopConfirms, LoopLands
  <2> QED BY <2>1, <1>i
<1>6. ASSUME NEW a \in Attempt, PostAdmitted(a) \/ PostOpens(a) \/ PostChunk(a) \/ PostEnds(a) \/ PostBreaks(a)
      PROVE  FALSE
  BY <1>6, <1>i DEF PostAdmitted, PostOpens, PostChunk, PostEnds, PostBreaks
<1>7. ASSUME NEW a \in Attempt, Confirms(a) PROVE rcv'.tok = {} /\ \A b \in Attempt : post'[b] = "none"
  BY <1>7, <1>g DEF Confirms
<1>8. ASSUME Lands PROVE rcv'.tok = {} /\ \A b \in Attempt : post'[b] = "none"
  BY <1>8, <1>g DEF Lands
<1> QED BY <1>0, <1>1, <1>h, <1>2, <1>3, <1>4, <1>5, <1>6, <1>7, <1>8, StepKinds DEF ReceiverHindered, Discards, PostLands


LEMMA RelayAloneStep ==
  ASSUME Inv, [Next]_vars, accepts' <= 1
  PROVE  RelayAlone'
<1> USE Typed, Inodes
<1>h. /\ accepts <= 1 /\ RelayAlone /\ PullAlone /\ AnswerFirst /\ NothingBegun /\ AcceptedWaits /\ OneAtATime
  BY OnceBefore DEF InOrder
<1>o. ~overlap' => ~overlap
  BY OverlapStays
<1>0. ASSUME snd.run = "idle" => snd'.run = "idle", Answers' \subseteq Answers,
             Msg("receiver", "ready") \in net' => Msg("receiver", "ready") \in net,
             Unreachable \in net' => Unreachable \in net \/ Pulls, Downloading' => Downloading,
             Downloading /\ ~overlap' => \A a \in Attempt :
               /\ post'[a] = "answered" => post[a] = "answered"
               /\ post'[a] = "open" => file'[a] = 0 \/ (post[a] = "open" /\ file'[a] = file[a])
      PROVE  RelayAlone'
  <2>1. Msg("receiver", "ready") \in net' \/ Downloading' => snd'.run = "idle" /\ Answers' = {} /\ Unreachable \notin net'
    BY <1>0, <1>h DEF RelayAlone, PullAlone, Pulls, Downloading
  <2>2. Downloading' /\ ~overlap' => \A a \in Attempt : post'[a] # "answered" /\ (post'[a] = "open" => file'[a] = 0)
    BY <1>0, <1>h, <1>o DEF RelayAlone
  <2> QED BY <2>1, <2>2 DEF RelayAlone
<1>1. CASE SenderGoesOn
  <2>1. BadNews /\ (snd.run = "idle" => snd'.run = "idle") /\ UNCHANGED <<rcv, loop, post, file>>
    BY <1>1 DEF SenderGoesOn
  <2> QED BY <1>0, <2>1, BadNewsOf DEF Looping, Downloading, Run, Kind
<1>2. ASSUME Hindered, UNCHANGED <<snd, file>> PROVE RelayAlone'
  <2>1. /\ Answers' \subseteq Answers
        /\ Msg("receiver", "ready") \in net' => Msg("receiver", "ready") \in net
    BY <1>2, HinderedNews
  <2>2. Unreachable \in net' => Unreachable \in net \/ Pulls
    BY <1>2, <1>h, HinderedOnce DEF Pulls
  <2>3. Downloading' => Downloading
    BY <1>2, <1>h, HinderedOnce DEF Looping, Downloading
  <2>4. \A a \in Attempt : /\ post'[a] = "answered" => post[a] = "answered"
                           /\ post'[a] = "open" => post[a] = "open" /\ file'[a] = file[a]
    BY <1>2 DEF Hindered, OnlyCuts
  <2> QED BY <1>0, <1>2, <2>1, <2>2, <2>3, <2>4
<1>3. CASE PushesAfterAll
  <2>1. Msg("receiver", "ready") \notin net' /\ ~Downloading /\ UNCHANGED loop
    BY <1>3, <1>h DEF PushesAfterAll, RelayAlone
  <2> QED BY <2>1 DEF RelayAlone, Downloading, Looping, Run, Kind
<1>4. CASE Resumes(1)
  <2>1. Run \in {"grant", "wait"} /\ Run' = "try" /\ Kind' = Kind
    BY <1>4, FirstMoves
  <2>2. UNCHANGED <<snd, post, net>> /\ file' = file
    BY <1>4, LoopQuiet, Zenon DEF Resumes
  <2>3. Downloading' => Downloading
    BY <2>1 DEF Downloading, Looping
  <2> QED BY <1>0, <2>2, <2>3 DEF Answers
<1>5. CASE SendFile
  <2>1. Run' = "idle" /\ Msg("receiver", "ready") \notin net'
    BY <1>5, <1>h, NoLoopBefore, Numbers DEF SendFile, NothingBegun, Run, Msg
  <2> QED BY <2>1 DEF RelayAlone, Downloading, Looping
<1>6. CASE OnOffer \/ CannotAccept \/ FirstAsks
  <2>1. Undecided /\ UNCHANGED snd /\ net' \subseteq net \cup {Msg("sender", "reject"), Failure("sender", "io")}
    BY <1>6 DEF OnOffer, CannotAccept, FirstAsks, Asks, Take, Receives, Undecided
  <2>2. Run \in {"idle", "probe"} /\ Msg("receiver", "ready") \notin net
    BY <2>1, <1>h DEF NothingBegun
  <2>3. Run' = Run \/ Run' = "probe"
    BY <1>6 DEF OnOffer, CannotAccept, FirstAsks, Run
  <2>4. Msg("receiver", "ready") \notin net'
    BY <2>1, <2>2 DEF Msg, Failure
  <2> QED BY <2>2, <2>3, <2>4 DEF RelayAlone, Downloading, Looping
<1>7. CASE Declines(1)
  <2>1. Run = "probe" /\ Run' = "idle"
    BY <1>7, FirstMoves
  <2>2. Msg("receiver", "ready") \notin net'
    BY <1>7, <1>h, <2>1, Probing DEF Declines, Msg
  <2> QED BY <2>1, <2>2 DEF RelayAlone, Downloading, Looping
<1>b. ASSUME NEW mode \in {"pull", "push", "relay"}, Begins(1, mode) PROVE RelayAlone'
  <2>1. Run = "probe" /\ Kind' = "pull"
    BY <1>b, BeginsOf
  <2>0. net' = net \cup {Answer(1, mode)}
    BY <1>b DEF Begins
  <2>2. Msg("receiver", "ready") \notin net'
    BY <1>h, <2>0, <2>1, Probing DEF Answer, Msg
  <2> QED BY <2>1, <2>2 DEF RelayAlone, Downloading
<1>8. CASE OnAccept
  <2>1. PICK m \in Answers : /\ net' = net \ {m}
                             /\ UNCHANGED <<rcv, loop, post, file, fin, landed, overlap, accepts>>
    BY <1>8, AcceptKind
  <2>2. ~Downloading /\ Msg("receiver", "ready") \notin net'
    BY <2>1, <1>h DEF RelayAlone
  <2> QED BY <2>1, <2>2 DEF RelayAlone, Downloading, Looping, Run, Kind
<1>9. CASE FirstReady
  <2>1. Msg("receiver", "ready") \in net /\ net' \subseteq net /\ UNCHANGED <<snd, post, file, overlap>>
    BY <1>9 DEF FirstReady
  <2>2. snd'.run = "idle" /\ Answers' = {} /\ Unreachable \notin net'
    BY <2>1, <1>h DEF RelayAlone, Answers
  <2>3. CASE rcv' = rcv /\ loop' = loop
    BY <2>1, <2>2, <2>3, <1>h DEF RelayAlone, Downloading, Looping, Run, Kind
  <2>4. CASE Fetches(1)
    <3>1. \A a \in Attempt : post[a] \in {"none", "asked"}
      BY <2>4, <1>h DEF Fetches, AcceptedWaits
    <3> QED BY <2>1, <2>2, <3>1 DEF RelayAlone
  <2> QED BY <1>9, <2>3, <2>4 DEF FirstReady
<1>10. CASE Request(1)
  <2>1. Moves("try", "stream") /\ snd'.run = snd.run /\ UNCHANGED <<net, post>>
    BY <1>10, FirstMoves, RequestSender
  <2>2. file' = file \/ file' = [file EXCEPT ![Tries + 1] = 0]
       \/ file' = [file EXCEPT ![rcv.path] = 0]
    BY <1>10 DEF Request
  <2>3. \A a \in Attempt : file'[a] = 0 \/ file'[a] = file[a]
    BY <2>2 DEF FileType
  <2> QED BY <1>0, <2>1, <2>3 DEF Moves, Downloading, Looping, Answers
<1>11. CASE Chunk(1)
  <2>1. Moves("stream", "stream") /\ UNCHANGED <<snd, net, post>>
    BY <1>11, FirstMoves, LoopQuiet
  <2>2. ~overlap' => \A a \in Attempt : post[a] # "open"
    BY <2>1, <1>h, <1>o DEF OneAtATime, InWork, Serving, Busy, Moves, Run
  <2> QED BY <1>0, <2>1, <2>2 DEF Moves, Downloading, Looping, Answers
<1>12. CASE StreamEnds(1) \/ LoopConfirms(1)
  <2>1. Looping /\ Looping' /\ Kind' = Kind /\ Run' # "grant" /\ UNCHANGED <<snd, net, post>>
    BY <1>12, FirstMoves, LoopQuiet DEF Moves, Looping
  <2>2. file' = file
    BY <1>12, Zenon DEF StreamEnds, LoopConfirms
  <2> QED BY <1>0, <2>1, <2>2 DEF Downloading, Answers
<1>13. CASE Upload
  <2>1. /\ snd.run # "idle" /\ snd' = [snd EXCEPT !.run = "idle"]
        /\ net' = net \cup {Msg("receiver", "ready")} /\ UNCHANGED <<rcv, loop>>
    BY <1>13 DEF Upload
  <2>2. ~Downloading /\ Answers = {} /\ Unreachable \notin net /\ snd'.run = "idle"
    BY <2>1, <1>h DEF RelayAlone, PullAlone, AnswerFirst, Sender
  <2>3. Answers' = {} /\ Unreachable \notin net'
    BY <2>1, <2>2, UnreachableOf DEF Answers
  <2> QED BY <2>1, <2>2, <2>3 DEF RelayAlone, Downloading, Looping, Run, Kind
<1>14. CASE Restarts
  <2>1. loop' = [l \in Loop |-> NoLoop] /\ UNCHANGED <<snd, net>>
    BY <1>14, Zenon DEF Restarts, Restarted
  <2>2. Run' = "idle"
    BY <2>1, NothingYet, Numbers DEF Run
  <2> QED BY <2>1, <2>2, <1>h DEF RelayAlone, Downloading, Looping, Answers
<1>15. CASE LoopLands(1) \/ \E a \in Attempt : PostLands(a)
  <2>1. Lands /\ (loop' = loop \/ Run' = "idle")
    BY <1>15, FirstMoves DEF LoopLands, PostLands
  <2>2. /\ Answers' = Answers /\ snd' = snd /\ (Msg("receiver", "ready") \in net' => Msg("receiver", "ready") \in net)
        /\ Unreachable \in net' => Unreachable \in net
    BY <2>1, LandsNews
  <2>3. post' = post /\ file' = file
    BY <2>1 DEF Lands
  <2>4. Downloading' => Downloading
    BY <2>1 DEF Run, Kind, Looping, Downloading
  <2> QED BY <1>0, <2>2, <2>3, <2>4
<1>16. ASSUME NEW a \in Attempt, PostAdmitted(a) \/ PostChunk(a) PROVE RelayAlone'
  <2>1. snd.run # "idle" /\ UNCHANGED <<loop, net>>
    BY <1>16, PostQuiet DEF PostAdmitted, PostChunk
  <2>2. ~Downloading /\ Msg("receiver", "ready") \notin net'
    BY <2>1, <1>h DEF RelayAlone
  <2> QED BY <2>1, <2>2 DEF RelayAlone, Downloading, Looping, Run, Kind
<1>17. ASSUME NEW a \in Attempt, PostOpens(a) PROVE RelayAlone'
  <2>1. UNCHANGED <<snd, loop, net>> /\ post' = [post EXCEPT ![a] = "open"] /\ file' = [file EXCEPT ![a] = 0]
    BY <1>17, PostQuiet, Zenon DEF PostOpens
  <2>2. \A b \in Attempt : /\ post'[b] = "answered" => post[b] = "answered"
                           /\ post'[b] = "open" => file'[b] = 0 \/ (post[b] = "open" /\ file'[b] = file[b])
    BY <2>1 DEF PostType, FileType
  <2>3. Downloading' => Downloading
    BY <2>1 DEF Run, Kind, Looping, Downloading
  <2> QED BY <1>0, <2>1, <2>2, <2>3 DEF Answers
<1>18. ASSUME NEW a \in Attempt, PostEnds(a) PROVE RelayAlone'
  <2>1. UNCHANGED <<snd, loop, net>> /\ post[a] = "open" /\ file[a] >= Chunks
    BY <1>18, PostQuiet, Zenon DEF PostEnds
  <2>2. ~(Downloading /\ ~overlap)
    BY <2>1, <1>h, Numbers DEF RelayAlone
  <2>3. Downloading' => Downloading
    BY <2>1 DEF Run, Kind, Looping, Downloading
  <2> QED BY <1>0, <1>o, <2>1, <2>2, <2>3 DEF Answers
<1>19. ASSUME NEW a \in Attempt, PostBreaks(a) PROVE RelayAlone'
  <2>1. UNCHANGED <<snd, loop, net, file>> /\ post' = [post EXCEPT ![a] = "gone"]
    BY <1>19, PostQuiet, Zenon DEF PostBreaks
  <2>2. \A b \in Attempt : /\ post'[b] = "answered" => post[b] = "answered"
                           /\ post'[b] = "open" => post[b] = "open"
    BY <2>1 DEF PostType
  <2>3. Downloading' => Downloading
    BY <2>1 DEF Run, Kind, Looping, Downloading
  <2> QED BY <1>0, <2>1, <2>2, <2>3 DEF Answers
<1>20. ASSUME NEW a \in Attempt, Confirms(a) PROVE RelayAlone'
  <2>1. UNCHANGED <<snd, rcv, loop, post, file, net>>
    BY <1>20, Zenon DEF Confirms
  <2> QED BY <1>0, <2>1 DEF Looping, Downloading, Answers, Run, Kind
<1> QED BY <1>1, <1>2, <1>3, <1>4, <1>5, <1>6, <1>7, <1>b, <1>8, <1>9, <1>10, <1>11, <1>12, <1>13, <1>14, <1>15,
           <1>16, <1>17, <1>18, <1>19, <1>20, OnceKinds DEF ReceiverHindered, Discards


-----------------------------------------------------------------------------
(* One request at a time, and one file saved.                              *)

LEMMA OneAtATimeStep ==
  ASSUME Inv, [Next]_vars, accepts' <= 1
  PROVE  OneAtATime'
<1> USE Typed, Numbers
<1>h. accepts <= 1 /\ OneAtATime /\ NothingBegun /\ VerifiedForRequest
  BY OnceBefore DEF InOrder
<1>o. ~overlap' => ~overlap
  BY OverlapStays
<1>0. ASSUME \A a \in Attempt : /\ post'[a] \in {"asked", "open", "broken"} => post[a] \in {"asked", "open", "broken"}
                                /\ fin'[a] # "none" => fin[a] # "none",
             Run' \in {"stream", "cut", "check", "land"} => Run \in {"stream", "cut", "check", "land"}
      PROVE  OneAtATime'
  BY <1>0, <1>h, <1>o DEF OneAtATime, InWork, Serving, Busy, Run
<1>q. ASSUME UNCHANGED <<post, fin>>, Run' = Run \/ Run' \in {"idle", "probe", "grant", "try"} PROVE OneAtATime'
  BY <1>q, <1>0
<1>1. CASE SenderGoesOn \/ PushesAfterAll \/ SendFile \/ OnOffer \/ CannotAccept \/ OnAccept \/ Upload
  <2>1. UNCHANGED <<loop, post, fin>>
    BY <1>1, AcceptKind, Zenon DEF SenderGoesOn, PushesAfterAll, SendFile, OnOffer, CannotAccept, Upload
  <2> QED BY <2>1, <1>q DEF Run
<1>2. ASSUME Hindered, \A a \in Attempt : fin'[a] # "none" => fin[a] # "none" PROVE OneAtATime'
  <2>1. Run' \in {"stream", "cut", "check", "land"} => Run \in {"stream", "cut", "check", "land"}
    BY <1>2, <1>h, HinderedOnce
  <2> QED BY <1>2, <2>1, <1>0 DEF Hindered, OnlyCuts
<1>3. CASE FirstAsks \/ Declines(1) \/ Resumes(1) \/ \E mode \in {"pull", "push", "relay"} : Begins(1, mode)
  <2>1. UNCHANGED <<post, fin>>
    BY <1>3, Zenon DEF FirstAsks, Asks, Declines, Resumes, Begins
  <2>2. Run' \in {"idle", "probe", "try"}
    BY <1>3, FirstMoves, BeginsOf DEF FirstAsks
  <2> QED BY <2>1, <2>2, <1>q
<1>4. CASE FirstReady
  <2>1. UNCHANGED <<post, fin>> /\ (loop' = loop \/ Fetches(1))
    BY <1>4, Zenon DEF FirstReady
  <2> QED BY <2>1, <1>q, FirstMoves DEF Run
<1>5. CASE Request(1)
  <2>1. overlap' = (overlap \/ Served({1}, {})) /\ UNCHANGED <<post, fin>>
    BY <1>5, Zenon DEF Request
  <2>2. ~overlap' => \A a \in Attempt : ~InWork(a)
    BY <2>1 DEF Served
  <2> QED BY <2>1, <2>2 DEF OneAtATime, InWork, Serving
<1>6. CASE Chunk(1) \/ StreamEnds(1) \/ LoopConfirms(1)
  <2>1. UNCHANGED <<post, fin>> /\ Run \in {"stream", "check"}
    BY <1>6, LoopQuiet, FirstMoves DEF Moves
  <2> QED BY <2>1, <1>0
<1>7. CASE LoopLands(1)
  <2>1. UNCHANGED <<post, fin>> /\ Run' = "idle"
    BY <1>7, FirstMoves, Zenon DEF LoopLands, Lands
  <2> QED BY <2>1, <1>q
<1>9. CASE Restarts
  <2>1. /\ fin' = [a \in Attempt |-> "none"] /\ loop' = [l \in Loop |-> NoLoop]
        /\ post' = [a \in Attempt |-> IF Serving(a) THEN "gone" ELSE post[a]]
    BY <1>9, Zenon DEF Restarts, Restarted
  <2> QED BY <2>1, <1>0, NothingYet DEF Run
<1>10. ASSUME NEW a \in Attempt, Discards(a) PROVE OneAtATime'
  <2>1. Hindered /\ fin' = [fin EXCEPT ![a] = "none"]
    BY <1>10, Zenon DEF Discards
  <2> QED BY <2>1, <1>2
<1>11. ASSUME NEW a \in Attempt, Confirms(a) \/ PostLands(a) PROVE OneAtATime'
  <2>1. /\ UNCHANGED <<post, loop>> /\ fin[a] # "none"
        /\ fin' = [fin EXCEPT ![a] = "land"] \/ fin' = [fin EXCEPT ![a] = "none"]
    <3>1. CASE Confirms(a)
      <4>1. fin[a] = "check" /\ UNCHANGED <<post, loop>> /\ fin' = [fin EXCEPT ![a] = "land"]
        BY <3>1, Zenon DEF Confirms
      <4> QED BY <4>1
    <3>2. CASE PostLands(a)
      <4>1. fin[a] = "land" /\ UNCHANGED <<post, loop>> /\ fin' = [fin EXCEPT ![a] = "none"]
        BY <3>2, Zenon DEF PostLands, Lands
      <4> QED BY <4>1
    <3> QED BY <1>11, <3>1, <3>2
  <2> QED BY <2>1, <1>0 DEF Run
<1>12. ASSUME NEW a \in Attempt, PostAdmitted(a) \/ PostOpens(a) PROVE OneAtATime'
  <2>1. /\ overlap' = (overlap \/ Served({}, {a})) /\ fin' = fin /\ loop' = loop
        /\ post' = [post EXCEPT ![a] = "asked"] \/ post' = [post EXCEPT ![a] = "open"]
    BY <1>12, Zenon DEF PostAdmitted, PostOpens
  <2>2. \A b \in Attempt : b # a => post'[b] = post[b]
    BY <2>1 DEF PostType
  <2>3. ~overlap' => ~Busy(1) /\ \A b \in Attempt : b # a => ~InWork(b)
    BY <2>1 DEF Served
  <2>5. ~overlap' => \A b \in Attempt : b # a => ~(post'[b] \in {"asked", "open", "broken"} \/ fin'[b] # "none")
    BY <2>1, <2>2, <2>3 DEF InWork, Serving
  <2>6. ~overlap' => loop'[1].run \notin {"stream", "cut", "check", "land"}
    BY <2>1, <2>3 DEF Busy
  <2> QED BY <2>5, <2>6 DEF OneAtATime, InWork, Serving, Busy
<1>13. ASSUME NEW a \in Attempt, PostChunk(a) PROVE OneAtATime'
  BY <1>13, <1>q, Zenon DEF PostChunk, Run
<1>14. ASSUME NEW a \in Attempt, PostEnds(a) PROVE OneAtATime'
  <2>1. /\ loop' = loop /\ fin' = [fin EXCEPT ![a] = "check"] /\ post[a] = "open"
        /\ post' = [post EXCEPT ![a] = "answered"]
    BY <1>14, Zenon DEF PostEnds
  <2>2. ~overlap' => ~Busy(1) /\ \A b \in Attempt : b # a => ~InWork(b)
    BY <2>1, <1>h, <1>o DEF OneAtATime, InWork, Serving
  <2>3. ~overlap' => \A b \in Attempt : b # a => ~(post'[b] \in {"asked", "open", "broken"} \/ fin'[b] # "none")
    BY <2>1, <2>2 DEF InWork, Serving, PostType
  <2>6. ~overlap' => loop'[1].run \notin {"stream", "cut", "check", "land"}
    BY <2>1, <2>2 DEF Busy
  <2> QED BY <2>3, <2>6 DEF OneAtATime, InWork, Serving, Busy
<1>15. ASSUME NEW a \in Attempt, PostBreaks(a) PROVE OneAtATime'
  <2>1. loop' = loop /\ fin' = fin /\ post' = [post EXCEPT ![a] = "gone"]
    BY <1>15, Zenon DEF PostBreaks
  <2> QED BY <2>1, <1>0 DEF PostType, Run
<1> QED BY <1>1, <1>2, <1>3, <1>4, <1>5, <1>6, <1>7, <1>9, <1>10, <1>11, <1>12, <1>13, <1>14, <1>15, OnceKinds
        DEF ReceiverHindered

LEMMA WholeStaysStep ==
  ASSUME Inv, [Next]_vars, accepts' <= 1
  PROVE  WholeStays'
<1> USE Typed, Numbers
<1>h. accepts <= 1 /\ WholeStays /\ OneAtATime /\ VerifiedForRequest
  BY OnceBefore DEF InOrder
<1>o. ~overlap' => ~overlap
  BY OverlapStays
<1>0. ASSUME \A a \in Attempt : fin'[a] = "land" => fin[a] = "land", Run' = "land" => Run = "land",
             file' = file, rcv'.path \in {rcv.path, 0}
      PROVE  WholeStays'
  BY <1>0, <1>h, <1>o DEF WholeStays
<1>q. ASSUME UNCHANGED <<file, fin>>, rcv'.path = rcv.path, Run' = Run \/ Run' # "land" PROVE WholeStays'
  BY <1>q, <1>0
<1>1. CASE SenderGoesOn \/ PushesAfterAll \/ SendFile \/ OnAccept \/ Upload
  <2>1. UNCHANGED <<rcv, loop, file, fin>>
    BY <1>1, AcceptKind, Zenon DEF SenderGoesOn, PushesAfterAll, SendFile, Upload
  <2> QED BY <2>1, <1>q DEF Run
<1>2. ASSUME Hindered, file' = file, \A a \in Attempt : fin'[a] = "land" => fin[a] = "land" PROVE WholeStays'
  <2>1. Run' = "land" => Run = "land"
    BY <1>2, <1>h, HinderedOnce
  <2> QED BY <1>2, <2>1, <1>0 DEF Hindered
<1>3. CASE OnOffer \/ CannotAccept \/ Declines(1)
  <2>1. /\ UNCHANGED <<file, fin>> /\ (loop' = loop \/ Declines(1))
        /\ rcv' = rcv \/ \E state \in {"pending", "failed", "rejected"} : rcv' = [rcv EXCEPT !.state = state]
    BY <1>3, Zenon DEF OnOffer, CannotAccept, Declines
  <2>2. rcv'.path = rcv.path
    BY <2>1 DEF Receiver
  <2>3. Run' = Run \/ Run' # "land"
    BY <2>1, FirstMoves DEF Run
  <2> QED BY <2>1, <2>2, <2>3, <1>q
<1>4. CASE FirstAsks \/ Resumes(1) \/ \E mode \in {"pull", "push", "relay"} : Begins(1, mode)
  <2>1. UNCHANGED <<file, fin>>
    BY <1>4, Zenon DEF FirstAsks, Asks, Resumes, Begins
  <2>2. Run' # "land"
    BY <1>4, FirstMoves, BeginsOf DEF FirstAsks
  <2>3. rcv'.path = rcv.path
    BY <1>4 DEF FirstAsks, Asks, Resumes, Begins
  <2> QED BY <2>1, <2>2, <2>3, <1>q
<1>5. CASE FirstReady
  <2>1. UNCHANGED <<file, fin>> /\ ((rcv' = rcv /\ loop' = loop) \/ Fetches(1))
    BY <1>5, Zenon DEF FirstReady
  <2>2. Fetches(1) => rcv'.path = rcv.path /\ Run' # "land"
    BY FirstMoves DEF Fetches
  <2> QED BY <2>1, <2>2, <1>q DEF Run
<1>6. CASE Request(1)
  <2>1. overlap' = (overlap \/ Served({1}, {})) /\ fin' = fin
    BY <1>6, Zenon DEF Request
  <2>2. ~overlap' => \A a \in Attempt : fin'[a] = "none"
    BY <2>1 DEF Served, InWork
  <2>3. Run' = "stream"
    BY <1>6, FirstMoves DEF Moves
  <2> QED BY <2>2, <2>3 DEF WholeStays
<1>7. CASE Chunk(1)
  <2>1. Moves("stream", "stream") /\ fin' = fin
    BY <1>7, FirstMoves, LoopQuiet
  <2>2. ~overlap' => \A a \in Attempt : fin'[a] = "none"
    BY <2>1, <1>h, <1>o DEF OneAtATime, InWork, Busy, Moves, Run
  <2> QED BY <2>1, <2>2 DEF WholeStays, Moves
<1>8. CASE StreamEnds(1)
  <2>1. Run' = "check" /\ fin' = fin /\ file' = file
    BY <1>8, FirstMoves, Zenon DEF StreamEnds, Moves
  <2>2. rcv' = [rcv EXCEPT !.state = "verifying", !.active = 0]
    BY <1>8, Zenon DEF StreamEnds
  <2> QED BY <2>1, <2>2, <1>q DEF Receiver
<1>9. CASE LoopConfirms(1) \/ \E a \in Attempt : Confirms(a)
  <2>1. Whole /\ UNCHANGED <<rcv, file>>
    BY <1>9, Zenon DEF LoopConfirms, Confirms
  <2> QED BY <2>1 DEF Whole, WholeStays
<1>10. CASE Lands
  <2>1. rcv'.path = 0
    BY <1>10 DEF Lands
  <2> QED BY <2>1 DEF WholeStays
<1>11. CASE Restarts
  <2>1. rcv' = NoReceiver
    BY <1>11, Zenon DEF Restarts, Restarted
  <2>2. rcv'.path = 0
    BY <2>1 DEF NoReceiver
  <2> QED BY <2>2 DEF WholeStays
<1>12. ASSUME NEW a \in Attempt, Discards(a) PROVE WholeStays'
  <2>1. Hindered /\ file' = file /\ fin' = [fin EXCEPT ![a] = "none"]
    BY <1>12, Zenon DEF Discards
  <2> QED BY <2>1, <1>2
<1>13. ASSUME NEW a \in Attempt, PostAdmitted(a) PROVE WholeStays'
  BY <1>13, <1>q, Zenon DEF PostAdmitted, Run
<1>14. ASSUME NEW a \in Attempt, PostOpens(a) PROVE WholeStays'
  <2>1. overlap' = (overlap \/ Served({}, {a})) /\ fin' = fin /\ loop' = loop /\ post[a] = "asked"
    BY <1>14, Zenon DEF PostOpens
  <2>2. ~overlap' => ~Busy(1) /\ \A b \in Attempt : fin'[b] = "none"
    BY <2>1, <1>h DEF Served, InWork, VerifiedForRequest
  <2> QED BY <2>1, <2>2 DEF WholeStays, Busy, Run
<1>15. ASSUME NEW a \in Attempt, PostChunk(a) PROVE WholeStays'
  <2>1. post[a] = "open" /\ fin' = fin /\ loop' = loop
    BY <1>15, Zenon DEF PostChunk
  <2>2. ~overlap' => ~Busy(1) /\ \A b \in Attempt : fin'[b] = "none"
    BY <2>1, <1>h, <1>o DEF OneAtATime, InWork, Serving, VerifiedForRequest
  <2> QED BY <2>1, <2>2 DEF WholeStays, Busy, Run
<1>16. ASSUME NEW a \in Attempt, PostEnds(a) PROVE WholeStays'
  <2>1. /\ UNCHANGED <<file, loop>> /\ fin' = [fin EXCEPT ![a] = "check"]
        /\ rcv' = [rcv EXCEPT !.state = "verifying", !.active = 0]
    BY <1>16, Zenon DEF PostEnds
  <2>2. rcv'.path = rcv.path /\ Run' = Run
    BY <2>1 DEF Receiver, Run
  <2> QED BY <2>1, <2>2, <1>0
<1>17. ASSUME NEW a \in Attempt, PostBreaks(a) PROVE WholeStays'
  <2>1. rcv' = [Unlinked(rcv) EXCEPT !.active = 0]
    BY <1>17, Zenon DEF PostBreaks
  <2>2. rcv'.path = 0
    BY <2>1 DEF Unlinked, Receiver
  <2> QED BY <2>2 DEF WholeStays
<1> QED BY <1>1, <1>2, <1>3, <1>4, <1>5, <1>6, <1>7, <1>8, <1>9, <1>10, <1>11, <1>12, <1>13, <1>14, <1>15,
           <1>16, <1>17, OnceKinds DEF ReceiverHindered, LoopLands, PostLands


\* What is saved is the whole file, and nothing was saved before.
LEMMA SavesOnce ==
  ASSUME Inv, accepts <= 1, ~overlap, LoopLands(1) \/ \E a \in Attempt : PostLands(a)
  PROVE  landed = << >> /\ landed' = <<Chunks>> /\ accepts = 1
<1> USE Typed, Numbers
<1>i. InOrder
  BY DEF Inv
<1>1. Run = "land" \/ \E a \in Attempt : fin[a] = "land"
  BY FirstMoves DEF PostLands
<1>2. rcv.path # 0 /\ landed' = Append(landed, file[rcv.path])
  BY DEF LoopLands, PostLands, Lands
<1>3. landed = << >>
  BY <1>1, <1>i DEF InOrder, SavedLast, InWork
<1>4. file[rcv.path] = Chunks
  BY <1>1, <1>2, <1>i DEF InOrder, WholeStays
<1>5. accepts # 0
  <2>1. CASE Run = "land"
    BY <2>1, NoLoopBefore DEF Run
  <2>2. CASE \E a \in Attempt : fin[a] = "land"
    BY <2>2, <1>i DEF InOrder, VerifiedForRequest, Inv, LoopsAccepted
  <2> QED BY <1>1, <2>1, <2>2
<1>6. accepts = 1
  BY <1>5
<1>7. landed' = <<Chunks>>
  BY <1>2, <1>3, <1>4
<1> QED BY <1>3, <1>6, <1>7

\* What saves a file is the loop or what a POST brought.
LEMMA LandsOf ==
  ASSUME Inv, [Next]_vars, accepts' <= 1, Lands
  PROVE  LoopLands(1) \/ \E a \in Attempt : PostLands(a)
<1> SUFFICES ASSUME ~LoopLands(1), \A a \in Attempt : ~PostLands(a) PROVE FALSE
  OBVIOUS
<1>1. Len(landed') = Len(landed) + 1 /\ Len(landed) \in Nat
  BY LandedOf, LenProperties, Typed
<1>2. landed' # landed
  BY <1>1
<1>3. CASE SenderGoesOn \/ ReceiverHindered \/ PushesAfterAll \/ Restarts \/ SendFile \/ OnOffer
  BY <1>2, <1>3, Zenon DEF SenderGoesOn, ReceiverHindered, PushesAfterAll, Restarts, SendFile, OnOffer
<1>4. CASE FirstAsks \/ CannotAccept \/ OnAccept \/ FirstReady \/ Upload
  BY <1>2, <1>4, AcceptKind, Zenon DEF FirstAsks, Asks, CannotAccept, FirstReady, Upload
<1>5. CASE \/ Declines(1) \/ (\E mode \in {"pull", "push", "relay"} : Begins(1, mode))
           \/ Resumes(1) \/ Request(1) \/ Chunk(1) \/ StreamEnds(1) \/ LoopConfirms(1)
  BY <1>2, <1>5, Zenon DEF Declines, Begins, Resumes, Request, Chunk, StreamEnds, LoopConfirms
<1>6. ASSUME NEW a \in Attempt, \/ Discards(a) \/ Confirms(a) \/ PostAdmitted(a) \/ PostOpens(a) \/ PostChunk(a)
                                \/ PostEnds(a) \/ PostBreaks(a)
      PROVE  FALSE
  BY <1>2, <1>6, Zenon DEF Discards, Confirms, PostAdmitted, PostOpens, PostChunk, PostEnds, PostBreaks
<1> QED BY <1>3, <1>4, <1>5, <1>6, OnceKinds

LEMMA SavedLastStep ==
  ASSUME Inv, [Next]_vars, accepts' <= 1
  PROVE  SavedLast'
<1> USE Typed, Numbers
<1>h. accepts <= 1 /\ SavedLast /\ OneAtATime /\ VerifiedForRequest /\ NothingBegun /\ PullAlone /\ RelayAlone
  BY OnceBefore DEF InOrder
<1>o. ~overlap' => ~overlap
  BY OverlapStays
<1>1. CASE ~Lands
  <2>l. landed' = landed
    BY <1>1, LandedStays
  <2> DEFINE Idle == /\ Run' \in {"idle", "tell"} /\ rcv'.tok = {} /\ rcv'.state # "accepted"
                     /\ \A a \in Attempt : post'[a] \notin {"asked", "open", "broken"} /\ fin'[a] = "none"
  <2> SUFFICES ASSUME ~overlap', landed # << >>
               PROVE  Idle
    BY <2>l DEF SavedLast, InWork, Serving
  <2>0. /\ Run \in {"idle", "tell"} /\ rcv.tok = {} /\ rcv.state # "accepted" /\ ~Undecided
        /\ \A a \in Attempt : post[a] \notin {"asked", "open", "broken"} /\ fin[a] = "none"
    BY <1>h, <1>o DEF SavedLast, NothingBegun, InWork, Serving
  <2>1. CASE SenderGoesOn \/ PushesAfterAll \/ OnAccept \/ Upload
    <3>1. UNCHANGED <<rcv, loop, post, fin>>
      BY <2>1, AcceptKind, Zenon DEF SenderGoesOn, PushesAfterAll, Upload
    <3> QED BY <2>0, <3>1 DEF Run
  <2>2. ASSUME Hindered, \A a \in Attempt : fin'[a] # "none" => fin[a] # "none" PROVE Idle
    <3>1. Run' \in {"idle", "tell"}
      BY <2>0, <2>2, <1>h, HinderedOnce DEF Looping
    <3> QED BY <2>0, <2>2, <3>1 DEF Hindered, OnlyCuts, Terminal
  <2>3. CASE FirstReady
    <3>1. UNCHANGED <<rcv, loop, post, fin>>
      BY <2>0, <2>3, Zenon DEF FirstReady, Fetches
    <3> QED BY <2>0, <3>1 DEF Run
  <2>4. CASE Restarts
    <3>1. /\ rcv' = NoReceiver /\ fin' = [a \in Attempt |-> "none"] /\ loop' = [l \in Loop |-> NoLoop]
          /\ post' = [a \in Attempt |-> IF Serving(a) THEN "gone" ELSE post[a]]
      BY <2>4, Zenon DEF Restarts, Restarted
    <3> QED BY <2>0, <3>1, NothingYet DEF Run, Serving
  <2>5. ASSUME SendFile \/ OnOffer \/ FirstAsks \/ CannotAccept PROVE FALSE
    BY <2>0, <2>5, Zenon DEF SendFile, OnOffer, FirstAsks, Asks, CannotAccept, Receives, Undecided
  <2>6. ASSUME \/ Declines(1) \/ (\E mode \in {"pull", "push", "relay"} : Begins(1, mode))
               \/ Resumes(1) \/ Request(1) \/ Chunk(1) \/ StreamEnds(1) \/ LoopConfirms(1)
        PROVE  FALSE
    BY <2>0, <2>6, FirstMoves, BeginsOf DEF Moves
  <2>7. ASSUME NEW a \in Attempt, PostAdmitted(a) \/ PostOpens(a) \/ PostChunk(a) \/ PostEnds(a) \/ PostBreaks(a)
        PROVE  FALSE
    BY <2>0, <2>7 DEF PostAdmitted, PostOpens, PostChunk, PostEnds, PostBreaks
  <2>8. ASSUME NEW a \in Attempt, Confirms(a) PROVE FALSE
    BY <2>0, <2>8 DEF Confirms
  <2>9. ASSUME NEW a \in Attempt, Discards(a) PROVE FALSE
    BY <2>0, <2>9, Zenon DEF Discards
  <2>10. ASSUME ReceiverHindered PROVE Idle
    BY <2>2, <2>10 DEF ReceiverHindered
  <2> HIDE DEF Idle
  <2> QED BY <1>1, <2>1, <2>10, <2>3, <2>4, <2>5, <2>6, <2>7, <2>8, <2>9, OnceKinds DEF LoopLands, PostLands
<1>2. CASE LoopLands(1)
  <2>1. Run = "land" /\ Run' = "idle" /\ fin' = fin /\ post' = post /\ rcv'.tok = {} /\ rcv'.state # "accepted"
    BY <1>2, FirstMoves DEF LoopLands, Lands
  <2>2. ~overlap' => \A a \in Attempt : ~InWork(a)
    BY <2>1, <1>h, <1>o DEF OneAtATime, Busy, Run
  <2> QED BY <2>1, <2>2 DEF SavedLast, InWork, Serving
<1>3. ASSUME NEW a \in Attempt, PostLands(a) PROVE SavedLast'
  <2>1. /\ fin[a] = "land" /\ post' = post /\ fin' = [fin EXCEPT ![a] = "none"] /\ Run' = Run
        /\ rcv'.tok = {} /\ rcv'.state # "accepted"
    BY <1>3 DEF PostLands, Lands, Run
  <2>2. ~overlap' => ~Busy(1) /\ \A b \in Attempt : b # a => ~InWork(b)
    BY <2>1, <1>h, <1>o DEF OneAtATime, InWork
  <2>3. post[a] = "answered"
    BY <2>1, <1>h DEF VerifiedForRequest
  <2>4. ~overlap' => \A b \in Attempt : post'[b] \notin {"asked", "open", "broken"} /\ fin'[b] = "none"
    BY <2>1, <2>2, <2>3 DEF InWork, Serving
  <2>5. Run # "probe"
    BY <2>3, <1>h, Probing
  <2>6. ~Pulls /\ (~overlap' => ~Downloading)
    BY <2>3, <1>h, <1>o DEF PullAlone, RelayAlone
  <2>7. loop[1] \in LoopState
    BY DEF LoopType
  <2>8. ~overlap' => Run \in {"idle", "tell"}
    BY <2>2, <2>5, <2>6, <2>7, <1>h DEF PullAlone, Pulls, Downloading, Looping, LoopState, Run, Kind
  <2> QED BY <2>1, <2>4, <2>8 DEF SavedLast, InWork, Serving
<1> QED BY <1>1, <1>2, <1>3, LandsOf


LEMMA SavedWholeOnceStep ==
  ASSUME Inv, [Next]_vars, accepts' <= 1
  PROVE  SavedWholeOnce'
<1>h. accepts <= 1 /\ SavedWholeOnce
  BY OnceBefore DEF InOrder
<1>o. ~overlap' => ~overlap
  BY OverlapStays
<1>1. CASE Lands
  <2>1. accepts' = accepts
    BY <1>1 DEF Lands
  <2>2. ~overlap' => landed' = <<Chunks>> /\ accepts = 1
    BY <1>1, <1>h, <1>o, LandsOf, SavesOnce
  <2> QED BY <2>1, <2>2 DEF SavedWholeOnce
<1>2. CASE ~Lands
  <2>1. landed' = landed
    BY <1>2, LandedStays
  <2>2. accepts \in Nat /\ accepts' \in Nat /\ accepts <= accepts' /\ Len(landed) \in Nat
    BY AcceptsGrow, Typed, Numbers, LenProperties DEF Asks, CannotAccept
  <2> QED BY <1>h, <1>o, <2>1, <2>2 DEF SavedWholeOnce
<1> QED BY <1>1, <1>2

-----------------------------------------------------------------------------
(* The invariant and what it shows.                                        *)

LEMMA InitInv == Init => Inv
<1> SUFFICES ASSUME Init PROVE Inv
  OBVIOUS
<1> USE Numbers, NothingYet, Inodes DEF Init
<1>1. snd \in Sender /\ snd.state = "unsent" /\ snd.tok = FALSE /\ snd.run = "idle" /\ snd.push = 0
  BY DEF NoSender, Sender, TransferState, Mode
<1>2. hub \in [blob : {"none", "part", "full"}, up : BOOLEAN, down : BOOLEAN]
  BY DEF NoHub
<1>3. landed \in Seq(0..(Chunks + Chunks)) /\ Len(landed) = 0
  OBVIOUS
<1>4. loop \in [Loop -> LoopState] /\ \A l \in Loop : loop[l].run = "idle"
  OBVIOUS
<1>a. /\ route \in Route /\ rcv = NoReceiver /\ net = {} /\ accepts = 0 /\ late = FALSE /\ overlap = FALSE
      /\ trouble \in 0..MaxTrouble
      /\ post = [a \in Attempt |-> "none"] /\ file = [i \in Inode |-> 0] /\ fin = [a \in Attempt |-> "none"]
  OBVIOUS
<1>5. TypeOK
  <2>1. /\ post \in [Attempt -> {"none", "asked", "open", "broken", "answered", "gone"}]
        /\ fin \in [Attempt -> {"none", "check", "land"}] /\ file \in [Inode -> 0..(Chunks + Chunks)]
    <3>1. 0 \in 0..(Chunks + Chunks)
      OBVIOUS
    <3> QED BY <1>a, <3>1
  <2>2. rcv \in Receiver /\ net \subseteq Message /\ late \in BOOLEAN /\ overlap \in BOOLEAN /\ accepts \in 0..MaxAccepts
    <3>1. rcv \in Receiver
      BY <1>a, NothingYet, Zenon
    <3>2. 0 \in 0..MaxAccepts
      BY Numbers
    <3> QED BY <1>a, <3>1, <3>2, Zenon
  <2> QED BY <1>a, <1>1, <1>2, <1>3, <1>4, <2>1, <2>2, Zenon DEF TypeOK
<1>6. TryLeft /\ NoTokenAfterTheEnd /\ DoneMeansSaved /\ ActiveIsOpen /\ LoopsAccepted /\ TokensRouted
  BY <1>1, <1>4 DEF TryLeft, NoTokenAfterTheEnd, DoneMeansSaved, ActiveIsOpen, LoopsAccepted, TokensRouted
<1>7. Run = "idle" /\ Answers = {}
  BY <1>4 DEF Run, Answers
<1>8. NothingBegun /\ AnswerFirst /\ AcceptedWaits
  BY <1>1, <1>7 DEF NothingBegun, AnswerFirst, AcceptedWaits
<1>9. PullAlone /\ RelayAlone
  BY <1>1, <1>7 DEF PullAlone, RelayAlone, Pulls, Downloading, Looping
<1>10. VerifiedForRequest /\ WholeStays
  BY <1>7 DEF VerifiedForRequest, WholeStays
<1>11. OneAtATime
  BY <1>4 DEF OneAtATime, InWork, Serving, Busy
<1>12. SavedLast /\ SavedWholeOnce
  BY <1>3 DEF SavedLast, SavedWholeOnce
<1> QED BY <1>5, <1>6, <1>8, <1>9, <1>10, <1>11, <1>12 DEF Inv, InOrder

LEMMA NextInv == Inv /\ [Next]_vars => Inv'
<1> SUFFICES ASSUME Inv, [Next]_vars PROVE Inv'
  OBVIOUS
<1>1. SenderOK'
  BY SenderStep, Typed DEF Inv, TryLeft, NoTokenAfterTheEnd, SenderOK
<1>2. TypeOK'
  BY <1>1, ReceiverStep, LoopStep, NetStep, FilesStep, RestStep
     DEF TypeOK, SenderOK, LoopType, PostType, FileType, HubType
<1>3. TryLeft' /\ NoTokenAfterTheEnd'
  BY <1>1, ReceiverStep, LoopStep DEF TryLeft, NoTokenAfterTheEnd, SenderOK
<1>4. LoopsAccepted'
  BY LoopStep, UnacceptedStep DEF LoopsAccepted
<1>5. TokensRouted'
  BY ReceiverStep, RestStep DEF TokensRouted
<1>6. accepts' <= 1 => InOrder'
  BY NothingBegunStep, AnswerFirstStep, AcceptedWaitsStep, PullAloneStep, RelayAloneStep, VerifiedStep,
     OneAtATimeStep, WholeStaysStep, SavedLastStep, SavedWholeOnceStep DEF InOrder
<1> QED BY <1>2, <1>3, <1>4, <1>5, <1>6, DoneMeansSavedStep, ActiveIsOpenStep DEF Inv

LEMMA InvHolds == Spec => []Inv
BY InitInv, NextInv, PTL DEF Spec


\* Every variable keeps its type, through every order of requests, accepts,
\* messages, sweeps and restarts (files.ts).
THEOREM TypeCorrect == Spec => []TypeOK
<1>1. Inv => TypeOK
  BY DEF Inv
<1> QED BY <1>1, InvHolds, PTL

\* A sender that reports the file as sent is right, however often the offer was
\* accepted: file:done leaves the receiver only after the rename, and nothing
\* else makes a sender's transfer done.
THEOREM SentFilesAreSaved == Spec => []SentMeansSaved
<1>1. Inv => SentMeansSaved
  BY DEF Inv, DoneMeansSaved, SentMeansSaved
<1> QED BY <1>1, InvHolds, PTL

\* The inbox gets the whole file and gets it once, for any number of chunks,
\* tries and troubles, until the offer is accepted a second time while the first
\* accept still probes, and unless the receiver served two requests side by side.
THEOREM FilesAreSavedWholeOnce == Spec => [](accepts <= 1 => SavedWholeOnce)
<1>1. Inv => (accepts <= 1 => SavedWholeOnce)
  BY DEF Inv, InOrder
<1> QED BY <1>1, InvHolds, PTL

\* No token outlives the transfer it is for, at either peer: touch revokes it
\* with every end, and no step after the end hands out another.
THEOREM TokensEndWithTransfers == Spec => []NoTokenAfterTheEnd
<1>1. Inv => NoTokenAfterTheEnd
  BY DEF Inv
<1> QED BY <1>1, InvHolds, PTL
=============================================================================
