--------------------------- MODULE WebRtcTransfer ---------------------------
(***************************************************************************)
(* A transfer over WebRTC (packages/core/src/webrtc/webrtc.rs) with the    *)
(* controllers the application holds                                       *)
(* (packages/linko_isolates/rust/src/api/webrtc.rs).                       *)
(*                                                                         *)
(* Each peer has two tasks: the function called (send_offer, accept_offer),*)
(* which exchanges SDP and then waits in a select!, and the task it spawns,*)
(* which talks over the data channel.  The channel is ordered and reliable *)
(* until the connection breaks.  A string that may be long travels as      *)
(* binary messages ended by any text message; everything else is text.     *)
(***************************************************************************)
EXTENDS Integers, Sequences, FiniteSets

CONSTANTS
    Files,     \* files the sender lists
    Ghost,     \* a file id that is in no list
    Size,      \* declared size of each file, in messages
    MaxTries   \* PinConfig.max_tries

ASSUME TransferAssumption ==
    /\ Ghost \notin Files
    /\ Size \in [Files -> Nat]
    /\ MaxTries \in Nat \ {0}

S == "sender"
R == "receiver"
Roles == {S, R}
Other(p) == IF p = S THEN R ELSE S
Ids == Files \cup {Ghost}

VARIABLES
    cfg,      \* pin: the peer has a PIN; trust: the peer verifies the other's token
    main,     \* send_offer and accept_offer
    offer,    \* "none", "sent", "lost", or "answered" and what became of the answer
    pc,       \* the task of each peer
    net,      \* messages on the way to each peer
    acked,    \* how many of those to the receiver have surely arrived there
    up,       \* the peer connection
    buf,      \* what receive_string_from_chunks has collected
    tries,    \* pin_try of verify_pin
    proved,   \* history: peers that sent the right PIN
    told,     \* history: statuses the application of each peer was sent
    listed,   \* the receiving application has the list of files
    picked,   \* the files of the receiver's answer: file_tokens
    tokens,   \* file_map of the sender
    asked,    \* files the sending application has handed over
    cur,      \* file the sender is sending and the messages it still has of it
    open,     \* RTCFileState of the receiver: file and messages received
    sent,     \* messages sent of each file
    got,      \* messages the receiving application got of each file
    over,     \* files of which more came than declared
    todo,     \* files whose stream the receiving application has and has not rated
    results,  \* channel of the application's RTCSendFileResponse
    answered  \* results the receiver has sent: the file named and the file rated

vars == <<cfg, main, offer, pc, net, acked, up, buf, tries, proved, told, listed, picked, tokens,
          asked, cur, open, sent, got, over, todo, results, answered>>
pinVars == <<tries, proved>>
senderVars == <<tokens, asked, cur, sent>>
receiverVars == <<listed, picked, open, got, over, todo, results, answered>>
fileVars == <<senderVars, receiverVars>>
netVars == <<net, acked>>

Text(k) == [bin |-> FALSE, k |-> k, f |-> Ghost, s |-> {}]
Bin(k) == [bin |-> TRUE, k |-> k, f |-> Ghost, s |-> {}]
Delimiter == Text("0")
Header(f) == [Text("header") EXCEPT !.f = f]
Chunk(f) == [Bin("chunk") EXCEPT !.f = f]
FileList(picks) == [Bin("ok") EXCEPT !.s = picks]

Kinds == {"0", "nonce", "token", "ok", "pinRequired", "tooMany", "invalid", "right", "wrong",
          "declined", "header", "chunk", "response"}
Messages == [bin : BOOLEAN, k : Kinds, f : Ids, s : SUBSET Ids]
NoFile == [f |-> Ghost, n |-> 0, on |-> FALSE]

\* Mutant: the sender's verdict is sent as one text message too.
VerdictInText(p, k) == <<Text(k)>>

\* PinRequired and TooManyAttempts, in text by the receiver and in chunks by the sender.
Verdict(p, k) == IF p = S THEN <<Bin(k), Delimiter>> ELSE <<Text(k)>>

TypeOK ==
    /\ cfg \in [pin : [Roles -> BOOLEAN], trust : [Roles -> BOOLEAN]]
    /\ main \in [Roles -> {"start", "register", "await", "select", "ok", "err"}]
    /\ offer \in {"none", "sent", "lost", "answered", "heard", "missed"}
    /\ pc \in [Roles -> {"closed", "nonce", "token", "ask", "pinres", "verify", "list",
                         "select", "send", "file", "recv", "result", "flush", "drain", "ok", "err",
                         "desync"}]
    /\ net \in [Roles -> Seq(Messages)]
    /\ acked \in 0..Len(net[R])
    /\ up \in {"new", "open", "down"}
    /\ buf \in [Roles -> Seq(Messages)]
    /\ tries \in [Roles -> 0..MaxTries]
    /\ proved \in SUBSET Roles
    /\ told \in [Roles -> SUBSET {"SdpExchanged", "Connected", "PinRequired", "TooManyAttempts",
                                  "Declined", "Finished", "Error"}]
    /\ listed \in BOOLEAN
    /\ picked \in SUBSET Ids /\ tokens \in SUBSET Ids /\ asked \in SUBSET Ids
    /\ {cur, open} \subseteq [f : Ids, n : Nat, on : BOOLEAN]
    /\ sent \in [Ids -> Nat] /\ got \in [Ids -> Nat]
    /\ over \in SUBSET Ids /\ todo \in SUBSET Ids
    /\ results \in Seq(Ids) /\ Len(results) <= 1
    /\ answered \subseteq [f : Ids, of : Ids]

Init ==
    /\ cfg \in [pin : [Roles -> BOOLEAN], trust : [Roles -> BOOLEAN]]
    /\ main = [p \in Roles |-> "start"]
    /\ offer = "none"
    /\ pc = [p \in Roles |-> "closed"]
    /\ net = [p \in Roles |-> <<>>]
    /\ acked = 0
    /\ up = "new"
    /\ buf = [p \in Roles |-> <<>>]
    /\ tries = [p \in Roles |-> 0]
    /\ proved = {}
    /\ told = [p \in Roles |-> {}]
    /\ listed = FALSE
    /\ picked = {} /\ tokens = {} /\ asked = {}
    /\ cur = NoFile /\ open = NoFile
    /\ sent = [f \in Ids |-> 0] /\ got = [f \in Ids |-> 0]
    /\ over = {} /\ todo = {} /\ results = <<>> /\ answered = {}

Tell(p, s) == told' = [told EXCEPT ![p] = @ \cup {s}]
Goto(p, l) == pc' = [pc EXCEPT ![p] = l]
Send(p, msgs) == net' = [net EXCEPT ![Other(p)] = @ \o msgs]

Drop(n) == IF n = 0 THEN 0 ELSE n - 1

\* The task of p takes its next message m, and sends msgs.
Take(p, m, msgs) ==
    /\ up = "open"
    /\ net[p] # <<>> /\ m = Head(net[p])
    /\ net' = [net EXCEPT ![p] = Tail(@), ![Other(p)] = @ \o msgs]
    /\ acked' = IF p = R THEN Drop(acked) ELSE acked

\* The message p is about to read.
Front(p) == Head(net[p])

-----------------------------------------------------------------------------
(* The exchange of SDP *)

SendOffer ==
    /\ main[S] = "start"
    /\ main' = [main EXCEPT ![S] = "register"]
    /\ offer' = "sent"
    /\ UNCHANGED <<cfg, pc, netVars, up, buf, pinVars, told, fileVars>>

\* on_answer: the callback is inserted after the offer has been sent.
Register ==
    /\ main[S] = "register"
    /\ main' = [main EXCEPT ![S] = "await"]
    /\ UNCHANGED <<cfg, offer, pc, netVars, up, buf, pinVars, told, fileVars>>

\* The server finds no such peer in the room and says nothing.
LoseOffer ==
    /\ offer = "sent"
    /\ offer' = "lost"
    /\ UNCHANGED <<cfg, main, pc, netVars, up, buf, pinVars, told, fileVars>>

\* The receiving application accepts: accept_offer up to its select!.
AcceptOffer ==
    /\ offer = "sent" /\ main[R] = "start"
    /\ main' = [main EXCEPT ![R] = "select"]
    /\ offer' = "answered"
    /\ Tell(R, "SdpExchanged")
    /\ UNCHANGED <<cfg, pc, netVars, up, buf, pinVars, fileVars>>

\* The listener calls the callback of the session, if it is there already.
HearAnswer ==
    /\ offer = "answered"
    /\ offer' = IF main[S] = "await" THEN "heard" ELSE "missed"
    /\ UNCHANGED <<cfg, main, pc, netVars, up, buf, pinVars, told, fileVars>>

SetRemote ==
    /\ main[S] = "await" /\ offer = "heard"
    /\ main' = [main EXCEPT ![S] = "select"]
    /\ Tell(S, "SdpExchanged")
    /\ UNCHANGED <<cfg, offer, pc, netVars, up, buf, pinVars, fileVars>>

\* The data channel opens; the sender's task starts with its nonce.
OpenChannel ==
    /\ up = "new" /\ \A p \in Roles : main[p] = "select"
    /\ up' = "open"
    /\ pc' = [p \in Roles |-> "nonce"]
    /\ Send(S, <<Text("nonce")>>)
    /\ UNCHANGED <<cfg, main, offer, acked, buf, pinVars, told, fileVars>>

\* What has not arrived yet may be lost.
Cut ==
    \E n \in acked..Len(net[R]), k \in 0..Len(net[S]) :
        net' = [p \in Roles |-> SubSeq(net[p], 1, IF p = R THEN n ELSE k)]

\* on_peer_connection_state_change(Disconnected).
Disconnect ==
    /\ up = "open"
    /\ up' = "down"
    /\ Cut
    /\ UNCHANGED <<cfg, main, offer, pc, acked, buf, pinVars, told, fileVars>>

\* select! with the task's result Ok: Finished, and the connection is closed.
MainDone(p) ==
    /\ main[p] = "select" /\ pc[p] = "ok"
    /\ main' = [main EXCEPT ![p] = "ok"]
    /\ Tell(p, "Finished")
    /\ up' = "down"
    /\ Cut
    /\ UNCHANGED <<cfg, offer, pc, acked, buf, pinVars, fileVars>>

\* select! with the task's error: it is returned, and nothing is closed.
MainFails(p) ==
    /\ main[p] = "select" /\ pc[p] \in {"err", "desync"}
    /\ main' = [main EXCEPT ![p] = "err"]
    /\ Tell(p, "Error")
    /\ UNCHANGED <<cfg, offer, pc, netVars, up, buf, pinVars, fileVars>>

\* select! with done_rx: the task is left running.
MainLeft(p) ==
    /\ main[p] = "select" /\ up = "down"
    /\ main' = [main EXCEPT ![p] = "ok"]
    /\ Tell(p, "Finished")
    /\ UNCHANGED <<cfg, offer, pc, netVars, up, buf, pinVars, fileVars>>

\* The next send on a closed channel fails.
TaskFails(p) ==
    /\ up = "down" /\ pc[p] \notin {"closed", "ok", "err", "desync", "recv"}
    /\ Goto(p, "err")
    /\ UNCHANGED <<cfg, main, offer, netVars, up, buf, pinVars, told, fileVars>>

-----------------------------------------------------------------------------
(* Nonces, tokens and PINs *)

\* receive_nonce; each peer answers with what comes next, the receiver with its nonce.
NonceStep(p) ==
    /\ pc[p] = "nonce"
    /\ Take(p, Text("nonce"), <<Text(IF p = S THEN "token" ELSE "nonce")>>)
    /\ Goto(p, "token")
    /\ UNCHANGED <<cfg, main, offer, up, buf, pinVars, told, fileVars>>

\* The receiver verifies the sender's token, if it expects a key, and sends its own.
TokenRequest ==
    /\ pc[R] = "token"
    /\ \/ /\ ~cfg.trust[R]
          /\ Take(R, Text("token"), <<Text("invalid")>>)
          /\ Goto(R, "err")
       \/ /\ cfg.trust[R]
          /\ Take(R, Text("token"), <<Text(IF cfg.pin[R] THEN "pinRequired" ELSE "ok")>>)
          /\ Goto(R, IF cfg.pin[R] THEN "verify" ELSE "list")
    /\ told' = IF pc'[R] = "verify" THEN [told EXCEPT ![R] = @ \cup {"PinRequired"}] ELSE told
    /\ UNCHANGED <<cfg, main, offer, up, buf, pinVars, fileVars>>

\* Mutant: the sender waits for a PIN without a notice.
AfterReceiverPinSilent ==
    IF cfg.pin[S] THEN [pc |-> "verify", msgs |-> <<>>, say |-> "PinRequired"]
    ELSE [pc |-> "list", msgs |-> <<FileList(Files), Delimiter>>, say |-> "Connected"]

\* The sender's own challenge begins with a notice; without a PIN the list goes out.
AfterReceiverPin ==
    IF cfg.pin[S] THEN [pc |-> "verify", msgs |-> Verdict(S, "pinRequired"), say |-> "PinRequired"]
    ELSE [pc |-> "list", msgs |-> <<FileList(Files), Delimiter>>, say |-> "Connected"]

TokenResponse ==
    /\ pc[S] = "token"
    /\ net[S] # <<>>
    /\ LET a == AfterReceiverPin IN
       \/ /\ Front(S).k = "invalid" \/ ~cfg.trust[S]
          /\ Take(S, Front(S), <<>>)
          /\ Goto(S, "err")
          /\ UNCHANGED told
       \/ /\ Front(S).k = "pinRequired" /\ cfg.trust[S]
          /\ Take(S, Front(S), <<>>)
          /\ Goto(S, "ask")
          /\ Tell(S, "PinRequired")
       \/ /\ Front(S).k = "ok" /\ cfg.trust[S]
          /\ Take(S, Front(S), a.msgs)
          /\ Goto(S, a.pc)
          /\ Tell(S, a.say)
    /\ UNCHANGED <<cfg, main, offer, up, buf, pinVars, fileVars>>

\* handle_pin: the user's PIN, through RTCSendController or RTCReceiveController::send_pin.
SendPin(p) ==
    /\ pc[p] = "ask" /\ up = "open"
    /\ \E guess \in {"right", "wrong"} :
         /\ Send(p, <<Text(guess)>>)
         /\ proved' = IF guess = "right" THEN proved \cup {p} ELSE proved
    /\ Goto(p, "pinres")
    /\ UNCHANGED <<cfg, main, offer, acked, up, buf, tries, told, fileVars>>

\* Mutant: the challenge is passed with the last try, right or wrong.
PinPassesLastTry(p, guess) == guess = "right" \/ tries[p] + 1 >= MaxTries

\* verify_pin: the PIN is compared before the tries are.
PinPasses(p, guess) == guess = "right"

\* Mutant: one try more than max_tries.
PinExhaustedLate(p) == tries[p] + 1 > MaxTries

PinExhausted(p) == tries[p] + 1 >= MaxTries

VerifyPin(p) ==
    /\ pc[p] = "verify"
    /\ net[p] # <<>>
    /\ LET g == Front(p).k IN
       IF g \notin {"right", "wrong"}
       THEN Take(p, Front(p), <<>>) /\ Goto(p, "desync") /\ UNCHANGED <<tries, told>>
       ELSE /\ tries' = [tries EXCEPT ![p] = IF PinPasses(p, g) THEN 0 ELSE @ + 1]
            /\ \/ /\ PinPasses(p, g)
                  /\ Take(p, Front(p), IF p = R THEN <<Text("ok")>> ELSE <<FileList(Files), Delimiter>>)
                  /\ Goto(p, "list")
                  /\ told' = IF p = S THEN [told EXCEPT ![p] = @ \cup {"Connected"}] ELSE told
               \/ /\ ~PinPasses(p, g) /\ PinExhausted(p)
                  /\ Take(p, Front(p), Verdict(p, "tooMany"))
                  /\ Goto(p, "err")
                  /\ Tell(p, "TooManyAttempts")
               \/ /\ ~PinPasses(p, g) /\ ~PinExhausted(p)
                  /\ Take(p, Front(p), Verdict(p, "pinRequired"))
                  /\ UNCHANGED <<pc, told>>
    /\ UNCHANGED <<cfg, main, offer, up, buf, proved, fileVars>>

-----------------------------------------------------------------------------
(* Lists in chunks *)

ReadsChunks(p) == pc[p] = "list" \/ (p = R /\ pc[p] = "pinres")

\* receive_string_from_chunks: binary messages are collected, any text ends them.
Collect(p) ==
    /\ ReadsChunks(p)
    /\ net[p] # <<>> /\ Front(p).bin
    /\ Take(p, Front(p), <<>>)
    /\ buf' = [buf EXCEPT ![p] = Append(@, Front(p))]
    /\ UNCHANGED <<cfg, main, offer, pc, up, pinVars, told, fileVars>>

\* Serde parses exactly one value out of what was collected.
Parsed(p) == IF Len(buf[p]) = 1 THEN buf[p][1] ELSE Bin("0")

ChunksEnd(p) ==
    /\ ReadsChunks(p)
    /\ net[p] # <<>> /\ ~Front(p).bin
    /\ Take(p, Front(p), <<>>)
    /\ buf' = [buf EXCEPT ![p] = <<>>]

\* The match of handle_pin: after Ok the task goes on at next; a message that is none of
\* these does not parse.
PinOutcome(k, next) ==
    CASE k = "ok" -> next
      [] k = "pinRequired" -> [pc |-> "ask", say |-> "PinRequired"]
      [] k = "tooMany" -> [pc |-> "err", say |-> "TooManyAttempts"]
      [] OTHER -> [pc |-> "desync", say |-> "Error"]

\* RTCPinSendingResponse, at first and as the answer to a PIN.
ReceiverList ==
    /\ ChunksEnd(R)
    /\ LET k == Parsed(R).k
           o == PinOutcome(k, [pc |-> "select", say |-> "Connected"])
       IN  Goto(R, o.pc) /\ Tell(R, o.say) /\ listed' = (k = "ok")
    /\ UNCHANGED <<cfg, main, offer, up, pinVars, senderVars, picked, open, got, over, todo, results,
                   answered>>

\* RTCPinReceivingResponse, one text message.
SenderPinResult ==
    /\ pc[S] = "pinres"
    /\ net[S] # <<>>
    /\ LET m == Front(S)
           a == AfterReceiverPin
           o == PinOutcome(IF m.bin THEN "chunk" ELSE m.k, [pc |-> a.pc, say |-> a.say])
       IN  Take(S, m, IF m = Text("ok") THEN a.msgs ELSE <<>>) /\ Goto(S, o.pc) /\ Tell(S, o.say)
    /\ UNCHANGED <<cfg, main, offer, up, buf, pinVars, fileVars>>

\* RTCFileListResponse; nothing in the repository answers Pair.
SenderList ==
    /\ ChunksEnd(S)
    /\ LET m == Parsed(S) IN
       /\ Goto(S, CASE m.k = "ok" -> "send" [] m.k = "declined" -> "ok" [] OTHER -> "desync")
       /\ tokens' = m.s
       /\ told' = IF m.k = "declined" THEN [told EXCEPT ![S] = @ \cup {"Declined"}] ELSE told
    /\ UNCHANGED <<cfg, main, offer, up, pinVars, asked, cur, sent, receiverVars>>

\* RTCReceiveController::send_selection.
Select(sel) ==
    /\ pc[R] = "select" /\ up = "open"
    /\ picked' = sel
    /\ Send(R, <<FileList(sel), Delimiter>>)
    /\ Goto(R, "recv")
    /\ UNCHANGED <<cfg, main, offer, acked, up, buf, pinVars, told, senderVars, listed, open, got, over,
                   todo, results, answered>>

\* RTCReceiveController::decline: no wait for the buffer, the connection is closed next.
Decline ==
    /\ pc[R] = "select" /\ up = "open"
    /\ Send(R, <<Bin("declined"), Delimiter>>)
    /\ Goto(R, "ok")
    /\ UNCHANGED <<cfg, main, offer, acked, up, buf, pinVars, told, fileVars>>

\* The controller is dropped without a selection.
Abandon ==
    /\ pc[R] = "select"
    /\ Goto(R, "ok")
    /\ UNCHANGED <<cfg, main, offer, netVars, up, buf, pinVars, told, fileVars>>

-----------------------------------------------------------------------------
(* The files *)

\* RTCSendController::send_file; the file may have grown or shrunk since it was listed.
SendFile(f) ==
    /\ pc[S] = "send" /\ f \notin asked /\ up = "open"
    /\ asked' = asked \cup {f}
    /\ \/ f \notin tokens /\ UNCHANGED <<pc, cur, net>>
       \/ /\ f \in tokens
          /\ Send(S, <<Header(f)>>)
          /\ Goto(S, "file")
          /\ \E n \in IF f = Ghost THEN {1} ELSE 0..(Size[f] + 1) : cur' = [f |-> f, n |-> n, on |-> TRUE]
    /\ UNCHANGED <<cfg, main, offer, acked, up, buf, pinVars, told, tokens, sent, receiverVars>>

\* process_in_chunks, until the application closes the stream.
SendChunk ==
    /\ pc[S] = "file" /\ up = "open"
    /\ \/ /\ cur.n > 0
          /\ Send(S, <<Chunk(cur.f)>>)
          /\ sent' = [sent EXCEPT ![cur.f] = @ + 1]
          /\ cur' = [cur EXCEPT !.n = @ - 1]
          /\ UNCHANGED pc
       \/ /\ cur.n = 0
          /\ Goto(S, "send")
          /\ cur' = NoFile
          /\ UNCHANGED <<net, sent>>
    /\ UNCHANGED <<cfg, main, offer, acked, up, buf, pinVars, told, tokens, asked, receiverVars>>

\* The controller is dropped: sending_rx ends.
CloseSending ==
    /\ pc[S] = "send"
    /\ Goto(S, "flush")
    /\ UNCHANGED <<cfg, main, offer, netVars, up, buf, pinVars, told, fileVars>>

\* Mutant: the delimiter follows without waiting for the buffer.
Unbuffered == acked

\* wait_buffer_empty: all that was sent before has arrived.
BufferEmpty == Len(net[R])

Flush ==
    /\ pc[S] = "flush" /\ up = "open"
    /\ acked' = BufferEmpty
    /\ Send(S, <<Delimiter>>)
    /\ Goto(S, "drain")
    /\ UNCHANGED <<cfg, main, offer, up, buf, pinVars, told, fileVars>>

\* One message, whichever it is, ends the sender's task.
Drain ==
    /\ pc[S] = "drain"
    /\ net[S] # <<>>
    /\ Take(S, Front(S), <<>>)
    /\ Goto(S, "ok")
    /\ UNCHANGED <<cfg, main, offer, up, buf, pinVars, told, fileVars>>

\* The receiving task goes on with what has arrived when the connection is gone.
Read ==
    /\ net' = [net EXCEPT ![R] = Tail(@)]
    /\ acked' = Drop(acked)

\* A header opens its file; a delimiter is no header.
StartFile(m) ==
    LET valid == m.k = "header" /\ m.f \in picked \cap Files IN
    /\ open' = IF valid THEN [f |-> m.f, n |-> 0, on |-> TRUE] ELSE NoFile
    /\ Goto(R, IF m.k = "header" THEN "recv" ELSE "desync")
    /\ todo' = IF valid THEN todo \cup {m.f} ELSE todo

\* A text message while no file is open.
RecvHeader ==
    /\ pc[R] = "recv" /\ ~open.on
    /\ net[R] # <<>> /\ ~Front(R).bin
    /\ Read
    /\ StartFile(Front(R))
    /\ UNCHANGED <<cfg, main, offer, up, buf, pinVars, told, senderVars, listed, picked, got, over,
                   results, answered>>

\* Mutant: the next file is opened without waiting for the result of the last one.
FileEndsUnrated ==
    /\ pc[R] = "recv" /\ open.on
    /\ net[R] # <<>> /\ ~Front(R).bin
    /\ \/ Front(R).k = "header" /\ Read /\ StartFile(Front(R))
       \/ Front(R).k # "header" /\ Goto(R, "result") /\ UNCHANGED <<netVars, open, todo>>
    /\ UNCHANGED <<cfg, main, offer, up, buf, pinVars, told, senderVars, listed, picked, got, over,
                   results, answered>>

\* A text message ends the open file, whose result is awaited first.
FileEnds ==
    /\ pc[R] = "recv" /\ open.on
    /\ net[R] # <<>> /\ ~Front(R).bin
    /\ Goto(R, "result")
    /\ UNCHANGED <<cfg, main, offer, netVars, up, buf, pinVars, told, fileVars>>

Fits(n, f) == n <= Size[f]

\* Mutant: after too many bytes the file stays open.
RecvChunkStaysOpen ==
    /\ pc[R] = "recv"
    /\ net[R] # <<>> /\ Front(R).bin
    /\ Read
    /\ LET n == open.n + 1 IN
       \/ ~open.on /\ UNCHANGED <<open, got, over>>
       \/ /\ open.on
          /\ open' = [open EXCEPT !.n = n]
          /\ IF Fits(n, open.f)
             THEN got' = [got EXCEPT ![open.f] = @ + 1] /\ UNCHANGED over
             ELSE over' = over \cup {open.f} /\ UNCHANGED got
    /\ UNCHANGED <<cfg, main, offer, pc, up, buf, pinVars, told, senderVars, listed, picked, todo,
                   results, answered>>

\* A binary message: forwarded, too much, or without a header.
RecvChunk ==
    /\ pc[R] = "recv"
    /\ net[R] # <<>> /\ Front(R).bin
    /\ Read
    /\ LET n == open.n + 1 IN
       \/ /\ open.on /\ Fits(n, open.f)
          /\ open' = [open EXCEPT !.n = n]
          /\ got' = [got EXCEPT ![open.f] = @ + 1]
          /\ UNCHANGED over
       \/ /\ open.on /\ ~Fits(n, open.f)
          /\ open' = NoFile
          /\ over' = over \cup {open.f}
          /\ UNCHANGED got
       \/ ~open.on /\ UNCHANGED <<open, got, over>>
    /\ UNCHANGED <<cfg, main, offer, pc, up, buf, pinVars, told, senderVars, listed, picked, todo,
                   results, answered>>

\* The application saw a stream end and rates the file: send_file_status.
Rate(f) ==
    /\ f \in todo /\ (open.f # f \/ pc[R] = "result") /\ results = <<>>
    /\ results' = <<f>>
    /\ todo' = todo \ {f}
    /\ UNCHANGED <<cfg, main, offer, pc, netVars, up, buf, pinVars, told, senderVars, listed, picked,
                   open, got, over, answered>>

\* The next result is taken for the file that ended; then the text is a header or the end.
FileResult ==
    /\ pc[R] = "result" /\ results # <<>> /\ up = "open"
    /\ results' = <<>>
    /\ answered' = answered \cup {[f |-> open.f, of |-> Head(results)]}
    /\ net' = [net EXCEPT ![R] = Tail(@), ![S] = Append(@, Text("response"))]
    /\ acked' = Drop(acked)
    /\ IF Front(R) = Delimiter
       THEN Goto(R, "ok") /\ open' = NoFile /\ UNCHANGED todo
       ELSE StartFile(Front(R))
    /\ UNCHANGED <<cfg, main, offer, up, buf, pinVars, told, senderVars, listed, picked, got, over>>

-----------------------------------------------------------------------------
SignalStep == Register \/ HearAnswer \/ SetRemote

MainStep(p) == MainDone(p) \/ MainFails(p) \/ MainLeft(p)

SenderStep ==
    \/ NonceStep(S) \/ TokenResponse \/ SenderPinResult \/ VerifyPin(S) \/ Collect(S) \/ SenderList
    \/ SendChunk \/ Flush \/ Drain \/ TaskFails(S)

ReceiverStep ==
    \/ NonceStep(R) \/ TokenRequest \/ VerifyPin(R) \/ Collect(R) \/ ReceiverList
    \/ RecvHeader \/ FileEnds \/ RecvChunk \/ FileResult \/ TaskFails(R)

UserStep ==
    \/ SendOffer \/ AcceptOffer
    \/ \E p \in Roles : SendPin(p)
    \/ \E sel \in SUBSET Ids : Select(sel)
    \/ Decline \/ Abandon
    \/ \E f \in Ids : SendFile(f) \/ Rate(f)
    \/ CloseSending

Next ==
    \/ SignalStep \/ SenderStep \/ ReceiverStep \/ UserStep
    \/ \E p \in Roles : MainStep(p)
    \/ LoseOffer \/ OpenChannel \/ Disconnect

Spec == Init /\ [][Next]_vars

(* tokio polls the tasks, and what the channel delivers wakes them.  Users     *)
(* need not act, and a connection need not come about.                        *)
Fairness ==
    /\ WF_vars(SignalStep) /\ WF_vars(SenderStep) /\ WF_vars(ReceiverStep)
    /\ \A p \in Roles : WF_vars(MainStep(p))

FairSpec == Spec /\ Fairness

-----------------------------------------------------------------------------
(* Properties *)

(* The receiving application is shown the list of files only after each peer *)
(* that asks for a PIN was given the right one, and each peer that expects a *)
(* key has verified the other's token.                                       *)
ListedAfterChallenges ==
    listed => /\ \A p \in Roles : cfg.pin[p] => Other(p) \in proved
              /\ \A p \in Roles : cfg.trust[p]

(* No challenge is tried more than max_tries times, and none is skipped.      *)
ChallengesHold == TypeOK /\ ListedAfterChallenges

(* Two peers that run this code understand each other: a message is never    *)
(* parsed as what it is not.  The one exception is the delimiter after the   *)
(* last file, which the receiver takes for a header when no file is open.    *)
InSync == \A p \in Roles : pc[p] = "desync" => p = R /\ pc[S] \in {"drain", "ok", "err"}

Coming(f) == Cardinality({i \in DOMAIN net[R] : net[R][i] = Chunk(f)})

(* A file whose result was sent to the sender reached the application whole: *)
(* all that was sent of it, and no more than was declared.                   *)
AnsweredWhole ==
    \A a \in answered : got[a.f] = sent[a.f] /\ got[a.f] <= Size[a.f]

(* When the sender's task has ended of itself after sending, what it sent has *)
(* reached the application or is still going to be read, unless the           *)
(* receiver's task failed: closing the connection loses no file.              *)
SentArrives ==
    pc[S] = "ok" /\ "Declined" \notin told[S] /\ pc[R] \notin {"err", "desync"}
    => \A f \in Files \ over : got[f] + Coming(f) = sent[f]

(* The result sent for a file is the application's rating of that file, as   *)
(* long as no file was cut off for being too long: the rating of such a file  *)
(* stays in the channel and is taken for the next one.                        *)
RatingOfFile == over = {} => \A a \in answered : a.f = a.of

(* What the two ends believe of a file is true of it: answered files are      *)
(* whole, sent ones arrive, and a result is the rating of its file.           *)
FilesArrive == AnsweredWhole /\ SentArrives /\ RatingOfFile

\* The task of p waits for its user or its application.
AtUser(p) == pc[p] \in {"ask", "select", "send"} \/ (pc[p] = "result" /\ results = <<>>)

\* What may keep send_offer or accept_offer from returning.
Excused(p) ==
    \/ main[p] = "start"
    \/ p = S /\ offer \in {"sent", "lost", "missed"}
    \/ main[p] = "select" /\ up = "new"
    \/ /\ up = "open"
       /\ AtUser(p) \/ (net[p] = <<>> /\ (AtUser(Other(p)) \/ main[Other(p)] = "err"))

(* Both calls return, unless the offer or the answer was lost, the channel    *)
(* never opened, somebody waits for a user, or the other peer has failed with *)
(* the connection still up.  The tasks never wait for each other.             *)
CallsReturn == <>[](\A p \in Roles : main[p] \in {"ok", "err"} \/ Excused(p))

(* What a comment of the code promises and the code does not keep.            *)

(* "Wait for the last status to be sent": a sender that finished sending has  *)
(* been sent the result of every file it sent.                                *)
LastStatusSent ==
    main[S] = "ok" /\ pc[S] = "ok" /\ "Declined" \notin told[S]
    => \A f \in Files \cap tokens \cap asked : f \in over \/ \E a \in answered : a.f = f
=============================================================================
