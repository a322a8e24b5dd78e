---------------------------- MODULE WebRtcProofs ----------------------------
(***************************************************************************)
(* Proofs about WebRtcTransfer.                                            *)
(*                                                                         *)
(* The inductive invariant has two halves.  Until the files are sent, the  *)
(* place of one task tells the place of the other and every message on the *)
(* way (Talking), and who has proved what (Proved, Tries).  From then on   *)
(* the channel is a run of files, each a header and its chunks, of which   *)
(* the first may be cut off by what was read already (Flow).               *)
(***************************************************************************)
EXTENDS WebRtcTransfer, FiniteSetTheorems, SequenceTheorems, TLAPS

-----------------------------------------------------------------------------
(* The conversation before the files *)

Empty(p) == buf[p] = <<>> /\ net[p] = <<>>
Only(p, m) == buf[p] = <<>> /\ net[p] = <<m>>
\* The list m, which travels in one chunk, is on its way to p or half read.
Comes(p, m) ==
    \/ buf[p] = <<>> /\ net[p] = <<m, Delimiter>>
    \/ buf[p] = <<m>> /\ net[p] = <<Delimiter>>

At(s, r) == pc[S] = s /\ pc[R] = r
Idle == Empty(S) /\ Empty(R)
Guess(p) == Only(p, Text("wrong")) \/ (Only(p, Text("right")) /\ Other(p) \in proved)

(* The challenge of the sender, which the receiver verifies. *)
FirstChallenge ==
    \/ At("nonce", "nonce") /\ Empty(S) /\ Only(R, Text("nonce"))
    \/ At("nonce", "token") /\ Only(S, Text("nonce")) /\ Empty(R)
    \/ At("token", "token") /\ Empty(S) /\ Only(R, Text("token"))
    \/ At("token", "err") /\ Only(S, Text("invalid")) /\ Empty(R)
    \/ At("token", "verify") /\ Only(S, Text("pinRequired")) /\ Empty(R)
    \/ At("token", "list") /\ Only(S, Text("ok")) /\ Empty(R)
    \/ At("ask", "verify") /\ Idle
    \/ At("pinres", "verify") /\ Empty(S) /\ Guess(R)
    \/ At("pinres", "verify") /\ Only(S, Text("pinRequired")) /\ Empty(R)
    \/ At("pinres", "list") /\ Only(S, Text("ok")) /\ Empty(R)
    \/ At("pinres", "err") /\ Only(S, Text("tooMany")) /\ Empty(R)

(* The challenge of the receiver, and the list of files with its answer. *)
SecondChallenge ==
    \/ (At("verify", "list") \/ At("verify", "pinres")) /\ Empty(S) /\ Comes(R, Bin("pinRequired"))
    \/ At("verify", "ask") /\ Idle
    \/ At("verify", "pinres") /\ Guess(S) /\ Empty(R)
    \/ (At("list", "list") \/ At("list", "pinres")) /\ Empty(S) /\ Comes(R, FileList(Files))
    \/ At("list", "select") /\ Idle
    \/ At("list", "recv") /\ Comes(S, FileList(picked)) /\ Empty(R)
    \/ At("list", "ok") /\ (Comes(S, Bin("declined")) \/ Empty(S)) /\ Empty(R)

Failed ==
    \/ At("err", "err")
    \/ (At("err", "verify") \/ At("err", "list")) /\ Empty(R)
    \/ At("err", "pinres") /\ Empty(S) /\ Comes(R, Bin("tooMany"))

InFiles == pc[S] \in {"send", "file", "flush", "drain", "ok"} /\ pc[R] \in {"recv", "result", "ok", "desync"}

Conversation == FirstChallenge \/ SecondChallenge \/ Failed \/ InFiles

(* As long as the connection is up, where one task stands and what is on the *)
(* way follow from where the other one stands.                               *)
Talking ==
    /\ up = "new" => At("closed", "closed") /\ Idle
    /\ up = "open" => Conversation

(* A task is past a check only if the check was made. *)
Proved ==
    /\ pc[R] = "verify" => cfg.trust[R]
    /\ pc[R] \in {"list", "ask", "pinres"} => cfg.trust[R] /\ (cfg.pin[R] => S \in proved)
    /\ pc[S] \in {"ask", "pinres", "verify"} => cfg.trust[S]
    /\ pc[S] = "list" => cfg.trust[S] /\ (cfg.pin[S] => R \in proved)

-----------------------------------------------------------------------------
(* The files *)

Stream == {Header(f) : f \in Ids} \cup {Chunk(f) : f \in Ids}

(* Nothing of a file has been said. *)
Calm ==
    /\ pc[S] # "file"
    /\ asked = {} /\ over = {} /\ todo = {} /\ results = <<>> /\ answered = {} /\ open = NoFile
    /\ \A f \in Ids : sent[f] = 0 /\ got[f] = 0
    /\ \A i \in DOMAIN net[R] : net[R][i] \notin Stream

Early ==
    \/ pc[S] \in {"closed", "nonce", "token", "ask", "pinres", "verify", "list"}
    \/ pc[R] \in {"closed", "nonce", "token", "ask", "pinres", "verify", "list", "select"}

Opened(f) == open.on /\ open.f = f
Fresh(f) == got[f] = 0 /\ f \notin over /\ ~Opened(f) /\ \A a \in answered : a.f # f

\* A chunk at the front of the channel belongs to the open file, or is thrown away.
Reading(f) == Opened(f) \/ (~open.on /\ (f \in over \/ f = Ghost))

(* A header comes once and first; the chunks of a file follow it. *)
HeadersFirst ==
    /\ \A f \in Ids : \A i \in DOMAIN net[R] : net[R][i] = Header(f) =>
         /\ Fresh(f)
         /\ \A j \in DOMAIN net[R] : net[R][j] = Header(f) => i = j
    /\ \A f \in Ids : \A i \in DOMAIN net[R] : net[R][i] \in {Header(f), Chunk(f)} =>
         f \in asked \cap picked
    /\ \A f \in Ids : f \notin asked => Fresh(f) /\ sent[f] = 0
Regions ==
    \A f \in Ids : \A i \in DOMAIN net[R] : net[R][i] = Chunk(f) =>
        \/ \E j \in 1..(i - 1) : net[R][j] = Header(f) /\ \A k \in (j + 1)..i : net[R][k] = Chunk(f)
        \/ Reading(f) /\ \A k \in 1..i : net[R][k] = Chunk(f)

Sending ==
    /\ pc[S] \in {"send", "file"} => up = "down" \/ tokens = picked
    /\ pc[S] = "file" => cur.on /\ cur.f \in asked
    /\ pc[S] = "file" /\ up = "open" =>
         /\ cur.f \in picked
         /\ IF net[R] = <<>> THEN Reading(cur.f)
            ELSE net[R][Len(net[R])] \in {Header(cur.f), Chunk(cur.f)}

Receiving ==
    /\ pc[R] \in {"recv", "result"} => \A i \in DOMAIN net[R] : net[R][i] \in Stream \cup {Delimiter}
    /\ pc[R] \in {"recv", "result"} => \A i \in DOMAIN net[R] : net[R][i] = Delimiter =>
         pc[S] \in {"drain", "ok", "err"}
    /\ open.on => /\ open.f \in asked \cap picked \cap Files /\ open.f \notin over
                  /\ open.n = got[open.f] /\ open.n <= Size[open.f]
    /\ pc[R] = "result" => open.on
    /\ pc[R] = "result" /\ up = "open" => net[R] # <<>> /\ ~net[R][1].bin

Kept ==
    /\ up # "down" \/ pc[S] \in {"drain", "ok"} =>
         \A f \in Files \ over : got[f] + Coming(f) = sent[f]
    /\ pc[S] \in {"drain", "ok"} =>
         \A i \in DOMAIN net[R] : net[R][i] \in Stream => i <= acked

Answered ==
    \A a \in answered :
        /\ a.f \in asked \cap Files /\ got[a.f] = sent[a.f] /\ got[a.f] <= Size[a.f]
        /\ ~Opened(a.f) /\ ~(pc[S] = "file" /\ cur.f = a.f)
        /\ \A i \in DOMAIN net[R] : net[R][i] \notin {Header(a.f), Chunk(a.f)}

Rated ==
    over = {} =>
        /\ todo \subseteq (IF open.on THEN {open.f} ELSE {})
        /\ results # <<>> => open.on /\ results = <<open.f>> /\ todo = {} /\ pc[R] \in {"result", "err"}
        /\ \A a \in answered : a.f = a.of

(* A challenge leaves no tries behind it. *)
Tries ==
    \A p \in Roles : IF pc[p] = "verify" THEN tries[p] < MaxTries
                    ELSE pc[p] \in {"err", "desync"} \/ tries[p] = 0

Flow == HeadersFirst /\ Regions /\ Sending /\ Receiving /\ Kept /\ Answered /\ Rated

IInv == /\ TypeOK /\ Tries /\ Talking /\ Proved /\ ListedAfterChallenges /\ InSync
        /\ Early => Calm
        /\ Flow

-----------------------------------------------------------------------------
(* Roles and messages *)

USE DEF Drop

(* There are two roles, and each is the other one's other. *)
LEMMA TwoRoles ==
    /\ S \in Roles /\ R \in Roles /\ S # R /\ R # S
    /\ Other(S) = R /\ Other(R) = S
    /\ \A p \in Roles : p = S \/ p = R
    /\ \A p \in Roles : Other(p) \in Roles /\ Other(p) # p /\ Other(Other(p)) = p
BY DEF S, R, Roles, Other

(* What can be told of a message built by Text, Bin, Header, Chunk or FileList. *)
LEMMA MessageFields ==
    /\ \A k : /\ Text(k).bin = FALSE /\ Text(k).k = k /\ Text(k).s = {} /\ Text(k).f = Ghost
              /\ Bin(k).bin = TRUE /\ Bin(k).k = k /\ Bin(k).s = {} /\ Bin(k).f = Ghost
    /\ \A f : /\ Header(f).bin = FALSE /\ Header(f).k = "header" /\ Header(f).f = f
              /\ Chunk(f).bin = TRUE /\ Chunk(f).k = "chunk" /\ Chunk(f).f = f
    /\ \A s : FileList(s).bin = TRUE /\ FileList(s).k = "ok" /\ FileList(s).s = s
    /\ Delimiter.bin = FALSE /\ Delimiter.k = "0"
BY DEF Text, Bin, Header, Chunk, FileList, Delimiter

(* Every message built by the code is in the set of messages. *)
LEMMA MessageTypes ==
    /\ \A k \in Kinds : Text(k) \in Messages /\ Bin(k) \in Messages
    /\ \A f \in Ids : Header(f) \in Messages /\ Chunk(f) \in Messages
    /\ \A s \in SUBSET Ids : FileList(s) \in Messages
    /\ Delimiter \in Messages
    /\ Ghost \in Ids /\ Files \subseteq Ids
<1>1. Ghost \in Ids /\ Files \subseteq Ids BY DEF Ids
<1>2. ASSUME NEW k \in Kinds PROVE Text(k) \in Messages /\ Bin(k) \in Messages
  BY <1>1 DEF Text, Bin, Messages
<1>3. "header" \in Kinds /\ "chunk" \in Kinds /\ "ok" \in Kinds /\ "0" \in Kinds BY DEF Kinds
<1>4. ASSUME NEW f \in Ids PROVE Header(f) \in Messages /\ Chunk(f) \in Messages
  BY <1>2, <1>3 DEF Header, Chunk, Messages
<1>5. ASSUME NEW s \in SUBSET Ids PROVE FileList(s) \in Messages
  BY <1>2, <1>3 DEF FileList, Messages
<1> QED BY <1>1, <1>2, <1>3, <1>4, <1>5 DEF Delimiter

(* A message of a file is a header or a chunk, of one file only. *)
LEMMA StreamFacts ==
    /\ \A f, g \in Ids : /\ Header(f) = Header(g) => f = g
                         /\ Chunk(f) = Chunk(g) => f = g
                         /\ Header(f) # Chunk(g)
                         /\ Header(f) # Delimiter /\ Chunk(f) # Delimiter
                         /\ Header(f) \in Stream /\ Chunk(f) \in Stream
    /\ \A m \in Stream : \E f \in Ids : m = Header(f) \/ m = Chunk(f)
    /\ \A m \in Stream : m.k \in {"header", "chunk"}
    /\ Delimiter \notin Stream
BY MessageFields DEF Stream

-----------------------------------------------------------------------------
(* Sequences *)

(* A sequence without its first element. *)
LEMMA TailFacts ==
    ASSUME NEW X, NEW s \in Seq(X), s # <<>>
    PROVE  /\ Head(s) \in X /\ Head(s) = s[1] /\ Tail(s) \in Seq(X)
           /\ Len(s) \in Nat /\ Len(s) > 0 /\ Len(Tail(s)) = Len(s) - 1
           /\ DOMAIN s = 1..Len(s) /\ DOMAIN Tail(s) = 1..(Len(s) - 1)
           /\ \A i \in 1..(Len(s) - 1) : Tail(s)[i] = s[i + 1]
<1>1. Len(s) \in Nat /\ Len(s) > 0 BY EmptySeq, LenProperties
<1> QED BY <1>1, HeadTailProperties, LenProperties

(* A sequence with a message at its end. *)
LEMMA AppendFacts ==
    ASSUME NEW X, NEW s \in Seq(X), NEW m \in X
    PROVE  /\ s \o <<m>> \in Seq(X) /\ s \o <<m>> # <<>>
           /\ Len(s) \in Nat /\ Len(s \o <<m>>) = Len(s) + 1
           /\ DOMAIN s = 1..Len(s) /\ DOMAIN (s \o <<m>>) = 1..(Len(s) + 1)
           /\ \A i \in 1..Len(s) : (s \o <<m>>)[i] = s[i]
           /\ (s \o <<m>>)[Len(s) + 1] = m
           /\ s # <<>> => Len(s) > 0
<1>1. <<m>> \in Seq(X) /\ Len(<<m>>) = 1 /\ <<m>>[1] = m OBVIOUS
<1>2. Len(s) \in Nat BY LenProperties
<1>3. /\ s \o <<m>> \in Seq(X) /\ Len(s \o <<m>>) = Len(s) + 1
      /\ \A i \in 1..Len(s) : (s \o <<m>>)[i] = s[i]
      /\ (s \o <<m>>)[Len(s) + 1] = m
  BY <1>1, <1>2, ConcatProperties
<1> QED BY <1>2, <1>3, LenProperties, EmptySeq

(* A sequence of one or two messages. *)
LEMMA ShortFacts ==
    ASSUME NEW X, NEW m \in X, NEW n \in X
    PROVE  /\ <<m>> \in Seq(X) /\ <<m, n>> \in Seq(X) /\ <<>> \in Seq(X)
           /\ Head(<<m>>) = m /\ Tail(<<m>>) = <<>> /\ <<m>> # <<>> /\ <<m>>[1] = m
           /\ Head(<<m, n>>) = m /\ Tail(<<m, n>>) = <<n>> /\ <<m, n>> # <<>>
           /\ <<m, n>>[1] = m /\ <<m, n>>[2] = n
           /\ Len(<<m>>) = 1 /\ Len(<<m, n>>) = 2
           /\ Append(<<>>, m) = <<m>> /\ <<>> \o <<m>> = <<m>> /\ <<>> \o <<m, n>> = <<m, n>>
           /\ <<>> \o <<>> = <<>>
OBVIOUS

(* The first messages of a sequence. *)
LEMMA PrefixFacts ==
    ASSUME NEW X, NEW s \in Seq(X), NEW n \in 0..Len(s)
    PROVE  /\ SubSeq(s, 1, n) \in Seq(X) /\ Len(SubSeq(s, 1, n)) = n
           /\ DOMAIN SubSeq(s, 1, n) = 1..n /\ DOMAIN s = 1..Len(s) /\ Len(s) \in Nat
           /\ \A i \in 1..n : SubSeq(s, 1, n)[i] = s[i]
<1>1. Len(s) \in Nat /\ DOMAIN s = 1..Len(s) BY LenProperties
<1>2. n \in Int /\ 1 \in Int BY <1>1
<1>3. \A i \in 1..n : s[i] \in X BY <1>1, ElementOfSeq
<1>4. /\ SubSeq(s, 1, n) \in Seq(X)
      /\ Len(SubSeq(s, 1, n)) = IF 1 <= n THEN n - 1 + 1 ELSE 0
      /\ \A i \in 1..n - 1 + 1 : SubSeq(s, 1, n)[i] = s[1 + i - 1]
  BY <1>2, <1>3, SubSeqProperties
<1>5. Len(SubSeq(s, 1, n)) = n /\ \A i \in 1..n : SubSeq(s, 1, n)[i] = s[i] BY <1>1, <1>4
<1> QED BY <1>1, <1>4, <1>5, LenProperties

-----------------------------------------------------------------------------
(* The channel *)

NetOK == net \in [Roles -> Seq(Messages)] /\ acked \in 0..Len(net[R])

(* A task that takes a message takes the oldest one, while the channel is open. *)
LEMMA TakeNet ==
    ASSUME NetOK, NEW p \in Roles, NEW m, NEW msgs \in Seq(Messages), Take(p, m, msgs)
    PROVE  /\ NetOK' /\ up = "open"
           /\ m \in Messages /\ net[p] # <<>> /\ m = net[p][1] /\ m = Front(p)
           /\ net'[p] = Tail(net[p]) /\ net'[Other(p)] = net[Other(p)] \o msgs
<1>1. net[p] \in Seq(Messages) /\ net[Other(p)] \in Seq(Messages) BY TwoRoles DEF NetOK
<1>2. net[p] # <<>> /\ m = Head(net[p]) /\ up = "open" BY DEF Take
<1>3. /\ m \in Messages /\ m = net[p][1] /\ Tail(net[p]) \in Seq(Messages)
      /\ Len(net[p]) \in Nat /\ Len(net[p]) > 0 /\ Len(Tail(net[p])) = Len(net[p]) - 1
  BY <1>1, <1>2, TailFacts
<1>4. /\ net' = [net EXCEPT ![p] = Tail(net[p]), ![Other(p)] = net[Other(p)] \o msgs]
      /\ acked' = IF p = R THEN Drop(acked) ELSE acked
  <2>1. net' = [net EXCEPT ![p] = Tail(@), ![Other(p)] = @ \o msgs]
        /\ acked' = IF p = R THEN Drop(acked) ELSE acked
    BY Zenon DEF Take
  <2> QED BY <2>1, TwoRoles DEF NetOK
<1>5. net'[p] = Tail(net[p]) /\ net'[Other(p)] = net[Other(p)] \o msgs
  BY <1>4, TwoRoles DEF NetOK
<1>6. /\ net[Other(p)] \o msgs \in Seq(Messages)
      /\ Len(net[Other(p)] \o msgs) = Len(net[Other(p)]) + Len(msgs) /\ Len(msgs) \in Nat
      /\ Len(net[Other(p)]) \in Nat
  BY <1>1, ConcatProperties, LenProperties
<1>7. net' \in [Roles -> Seq(Messages)] BY <1>3, <1>4, <1>6 DEF NetOK
<1>8. acked' \in 0..Len(net'[R])
  <2>1. CASE p = R
    <3>1. Len(net'[R]) = Len(net[R]) - 1 /\ Len(net[R]) \in Nat /\ Len(net[R]) > 0
      BY <2>1, <1>3, <1>5
    <3>2. acked' = IF acked = 0 THEN 0 ELSE acked - 1 BY <2>1, <1>4
    <3> QED BY <3>1, <3>2 DEF NetOK
  <2>2. CASE p = S
    <3>1. Len(net'[R]) = Len(net[R]) + Len(msgs) BY <2>2, <1>5, <1>6, TwoRoles
    <3>2. acked' = acked BY <2>2, <1>4, TwoRoles
    <3> QED BY <2>2, <3>1, <3>2, <1>6, TwoRoles DEF NetOK
  <2> QED BY <2>1, <2>2, TwoRoles
<1> QED BY <1>2, <1>3, <1>5, <1>7, <1>8 DEF NetOK, Front

(* A task that sends adds to what is on the way to the other one. *)
LEMMA SendNet ==
    ASSUME NetOK, NEW p \in Roles, NEW msgs \in Seq(Messages), Send(p, msgs)
    PROVE  /\ net'[Other(p)] = net[Other(p)] \o msgs /\ net'[p] = net[p]
           /\ net' \in [Roles -> Seq(Messages)]
           /\ Len(net'[R]) \in Nat /\ Len(net'[R]) >= Len(net[R])
           /\ acked' = acked => NetOK'
<1>1. net[p] \in Seq(Messages) /\ net[Other(p)] \in Seq(Messages) BY TwoRoles DEF NetOK
<1>2. net' = [net EXCEPT ![Other(p)] = net[Other(p)] \o msgs] BY Zenon DEF Send
<1>3. net'[p] = net[p] /\ net'[Other(p)] = net[Other(p)] \o msgs BY <1>2, TwoRoles DEF NetOK
<1>4. /\ net[Other(p)] \o msgs \in Seq(Messages)
      /\ Len(net[Other(p)] \o msgs) = Len(net[Other(p)]) + Len(msgs) /\ Len(msgs) \in Nat
      /\ Len(net[Other(p)]) \in Nat /\ Len(net[p]) \in Nat
  BY <1>1, ConcatProperties, LenProperties
<1>5. net' \in [Roles -> Seq(Messages)] BY <1>2, <1>4 DEF NetOK
<1>6. Len(net'[R]) \in Nat /\ Len(net'[R]) >= Len(net[R]) BY <1>3, <1>4, TwoRoles
<1> QED BY <1>3, <1>5, <1>6 DEF NetOK

(* The receiver reads on. *)
LEMMA ReadNet ==
    ASSUME NetOK, net[R] # <<>>, Read
    PROVE  /\ NetOK' /\ net'[R] = Tail(net[R]) /\ net'[S] = net[S] /\ acked' = Drop(acked)
           /\ Front(R) \in Messages /\ Front(R) = net[R][1]
<1>1. net[R] \in Seq(Messages) BY TwoRoles DEF NetOK
<1>2. /\ Front(R) \in Messages /\ Front(R) = net[R][1] /\ Tail(net[R]) \in Seq(Messages)
      /\ Len(net[R]) \in Nat /\ Len(net[R]) > 0 /\ Len(Tail(net[R])) = Len(net[R]) - 1
  BY <1>1, TailFacts DEF Front
<1>3. net' = [net EXCEPT ![R] = Tail(net[R])] /\ acked' = Drop(acked) BY Zenon DEF Read
<1>4. net'[R] = Tail(net[R]) /\ net'[S] = net[S] /\ net' \in [Roles -> Seq(Messages)]
  BY <1>2, <1>3, TwoRoles DEF NetOK
<1> QED BY <1>2, <1>3, <1>4 DEF NetOK

(* What is lost is the end of what was on the way, and nothing that had arrived. *)
LEMMA CutNet ==
    ASSUME NetOK, Cut, acked' = acked
    PROVE  /\ NetOK'
           /\ \E n \in acked..Len(net[R]) : net'[R] = SubSeq(net[R], 1, n)
           /\ \E n \in 0..Len(net[S]) : net'[S] = SubSeq(net[S], 1, n)
<1>1. PICK n \in acked..Len(net[R]), k \in 0..Len(net[S]) :
        net' = [p \in Roles |-> SubSeq(net[p], 1, IF p = R THEN n ELSE k)]
  BY DEF Cut
<1>2. net[R] \in Seq(Messages) /\ net[S] \in Seq(Messages) BY TwoRoles DEF NetOK
<1>3. acked \in Nat /\ Len(net[R]) \in Nat /\ Len(net[S]) \in Nat BY <1>2, LenProperties DEF NetOK
<1>4. n \in 0..Len(net[R]) /\ acked <= n BY <1>3
<1>5. SubSeq(net[R], 1, n) \in Seq(Messages) /\ Len(SubSeq(net[R], 1, n)) = n
  BY <1>2, <1>4, PrefixFacts
<1>6. SubSeq(net[S], 1, k) \in Seq(Messages) BY <1>2, PrefixFacts
<1>7. net'[R] = SubSeq(net[R], 1, n) /\ net'[S] = SubSeq(net[S], 1, k) BY <1>1, TwoRoles
<1>8. net' \in [Roles -> Seq(Messages)] BY <1>1, <1>5, <1>6, TwoRoles
<1>9. acked' \in 0..Len(net'[R]) BY <1>3, <1>4, <1>5, <1>7
<1> QED BY <1>7, <1>8, <1>9 DEF NetOK

-----------------------------------------------------------------------------
(* Types *)

Places == {"closed", "nonce", "token", "ask", "pinres", "verify", "list", "select", "send", "file",
           "recv", "result", "flush", "drain", "ok", "err", "desync"}
Statuses == {"SdpExchanged", "Connected", "PinRequired", "TooManyAttempts", "Declined", "Finished",
             "Error"}

ControlOK ==
    /\ cfg \in [pin : [Roles -> BOOLEAN], trust : [Roles -> BOOLEAN]]
    /\ main \in [Roles -> {"start", "register", "await", "select", "ok", "err"}]
    /\ offer \in {"none", "sent", "lost", "answered", "heard", "missed"}
    /\ pc \in [Roles -> Places]
    /\ up \in {"new", "open", "down"}
    /\ buf \in [Roles -> Seq(Messages)]
    /\ told \in [Roles -> SUBSET Statuses]
PinOK == tries \in [Roles -> 0..MaxTries] /\ proved \in SUBSET Roles
FilesOK ==
    /\ listed \in BOOLEAN
    /\ picked \in SUBSET Ids /\ tokens \in SUBSET Ids /\ asked \in SUBSET Ids
    /\ {cur, open} \subseteq [f : Ids, n : Nat, on : BOOLEAN]
    /\ sent \in [Ids -> Nat] /\ got \in [Ids -> Nat]
    /\ over \in SUBSET Ids /\ todo \in SUBSET Ids
    /\ results \in Seq(Ids) /\ Len(results) <= 1
    /\ answered \subseteq [f : Ids, of : Ids]

(* The type invariant in parts. *)
LEMMA TypeParts ==
    /\ TypeOK <=> ControlOK /\ PinOK /\ NetOK /\ FilesOK
    /\ TypeOK' <=> ControlOK' /\ PinOK' /\ NetOK' /\ FilesOK'
BY DEF TypeOK, ControlOK, PinOK, NetOK, FilesOK, Places, Statuses

(* No file is an entry too. *)
LEMMA NoFileType == NoFile \in [f : Ids, n : Nat, on : BOOLEAN] /\ NoFile.on = FALSE /\ NoFile.f = Ghost
BY MessageTypes DEF NoFile

(* A step that leaves the files alone keeps their types. *)
LEMMA FilesKept == FilesOK /\ UNCHANGED fileVars => FilesOK'
BY DEF FilesOK, fileVars, senderVars, receiverVars

(* The initial state is well typed. *)
LEMMA InitTypes == Init => TypeOK
<1> SUFFICES ASSUME Init PROVE TypeOK OBVIOUS
<1> USE TransferAssumption
<1>1. <<>> \in Seq(Messages) /\ <<>> \in Seq(Ids) /\ Len(<<>>) = 0 OBVIOUS
<1>2. ControlOK BY <1>1 DEF ControlOK, Init, Places, Statuses
<1>3. PinOK BY DEF PinOK, Init
<1>4. NetOK
  <2>1. net[R] = <<>> BY TwoRoles DEF Init
  <2> QED BY <1>1, <2>1 DEF NetOK, Init
<1>5. FilesOK
  <2>1. NoFile \in [f : Ids, n : Nat, on : BOOLEAN] BY MessageTypes DEF NoFile
  <2>2. picked \in SUBSET Ids /\ tokens \in SUBSET Ids /\ asked \in SUBSET Ids BY DEF Init
  <2>3. sent \in [Ids -> Nat] /\ got \in [Ids -> Nat] BY DEF Init
  <2>4. results \in Seq(Ids) /\ Len(results) <= 1 BY <1>1 DEF Init
  <2>5. {cur, open} \subseteq [f : Ids, n : Nat, on : BOOLEAN] BY <2>1 DEF Init
  <2> QED BY <2>2, <2>3, <2>4, <2>5 DEF FilesOK, Init
<1> QED BY <1>2, <1>3, <1>4, <1>5, TypeParts

(* The steps that exchange the SDP and those that end send_offer and accept_offer. *)
LEMMA MainTypes ==
    ASSUME TypeOK,
           \/ SendOffer \/ Register \/ LoseOffer \/ AcceptOffer \/ HearAnswer \/ SetRemote
           \/ \E p \in Roles : MainFails(p) \/ MainLeft(p)
    PROVE  TypeOK'
<1> USE TypeParts, TwoRoles
<1>1. UNCHANGED <<netVars, pinVars, fileVars>>
  BY DEF SendOffer, Register, LoseOffer, AcceptOffer, HearAnswer, SetRemote, MainFails, MainLeft
<1>2. NetOK' /\ PinOK' /\ FilesOK'
  <2>1. FilesOK' BY <1>1, FilesKept
  <2>2. PinOK' BY <1>1 DEF PinOK, pinVars
  <2>3. NetOK' BY <1>1 DEF NetOK, netVars
  <2> QED BY <2>1, <2>2, <2>3
<1>3. CASE SendOffer BY <1>2, <1>3 DEF SendOffer, ControlOK, Places, Statuses
<1>4. CASE Register BY <1>2, <1>4 DEF Register, ControlOK, Places, Statuses
<1>5. CASE LoseOffer BY <1>2, <1>5 DEF LoseOffer, ControlOK, Places, Statuses
<1>6. CASE AcceptOffer BY <1>2, <1>6 DEF AcceptOffer, Tell, ControlOK, Places, Statuses
<1>7. CASE HearAnswer BY <1>2, <1>7 DEF HearAnswer, ControlOK, Places, Statuses
<1>8. CASE SetRemote BY <1>2, <1>8 DEF SetRemote, Tell, ControlOK, Places, Statuses
<1>9. ASSUME NEW p \in Roles, MainFails(p) PROVE TypeOK'
  BY <1>2, <1>9 DEF MainFails, Tell, ControlOK, Places, Statuses
<1>10. ASSUME NEW p \in Roles, MainLeft(p) PROVE TypeOK'
  BY <1>2, <1>10 DEF MainLeft, Tell, ControlOK, Places, Statuses
<1> QED BY <1>3, <1>4, <1>5, <1>6, <1>7, <1>8, <1>9, <1>10

(* The steps that open and close the connection. *)
LEMMA ConnectionTypes ==
    ASSUME TypeOK, OpenChannel \/ Disconnect \/ \E p \in Roles : MainDone(p) \/ TaskFails(p)
    PROVE  TypeOK'
<1> USE TypeParts, TwoRoles
<1>1. UNCHANGED <<pinVars, fileVars>> BY DEF OpenChannel, Disconnect, MainDone, TaskFails
<1>2. PinOK' /\ FilesOK' BY <1>1, FilesKept DEF PinOK, pinVars
<1>3. CASE OpenChannel
  <2>1. <<Text("nonce")>> \in Seq(Messages) BY MessageTypes, ShortFacts DEF Kinds
  <2>2. NetOK' BY <1>3, <2>1, SendNet DEF OpenChannel
  <2> QED BY <1>2, <1>3, <2>2 DEF OpenChannel, ControlOK, Places, Statuses
<1>4. CASE Disconnect
  <2>1. NetOK' BY <1>4, CutNet DEF Disconnect
  <2> QED BY <1>2, <1>4, <2>1 DEF Disconnect, ControlOK, Places, Statuses
<1>5. ASSUME NEW p \in Roles, MainDone(p) PROVE TypeOK'
  <2>1. NetOK' BY <1>5, CutNet DEF MainDone
  <2> QED BY <1>2, <1>5, <2>1 DEF MainDone, Tell, ControlOK, Places, Statuses
<1>6. ASSUME NEW p \in Roles, TaskFails(p) PROVE TypeOK'
  <2>1. NetOK' BY <1>6 DEF TaskFails, netVars, NetOK
  <2> QED BY <1>2, <1>6, <2>1 DEF TaskFails, Goto, ControlOK, Places, Statuses
<1> QED BY <1>3, <1>4, <1>5, <1>6

(* What the two texts that follow a verdict on the receiver's PIN are made of. *)
LEMMA MsgLists ==
    /\ \A k \in Kinds : /\ <<Text(k)>> \in Seq(Messages) /\ <<Bin(k), Delimiter>> \in Seq(Messages)
                        /\ \A p \in Roles : Verdict(p, k) \in Seq(Messages)
    /\ \A s \in SUBSET Ids : <<FileList(s), Delimiter>> \in Seq(Messages)
    /\ \A f \in Ids : <<Header(f)>> \in Seq(Messages) /\ <<Chunk(f)>> \in Seq(Messages)
    /\ <<>> \in Seq(Messages) /\ <<Delimiter>> \in Seq(Messages)
    /\ {"0", "nonce", "token", "ok", "pinRequired", "tooMany", "invalid", "right", "wrong",
        "declined", "header", "chunk", "response"} \subseteq Kinds
<1>1. ASSUME NEW m \in Messages, NEW n \in Messages
      PROVE <<m>> \in Seq(Messages) /\ <<m, n>> \in Seq(Messages) /\ <<>> \in Seq(Messages)
  BY ShortFacts
<1>2. ASSUME NEW k \in Kinds, NEW p \in Roles PROVE Verdict(p, k) \in Seq(Messages)
  BY <1>1, MessageTypes DEF Verdict
<1> QED BY <1>1, <1>2, MessageTypes DEF Kinds

(* What the sender does after its PIN was accepted. *)
LEMMA AfterPinTypes ==
    ASSUME ControlOK
    PROVE  /\ AfterReceiverPin.msgs \in Seq(Messages)
           /\ AfterReceiverPin.pc = IF cfg.pin[S] THEN "verify" ELSE "list"
           /\ AfterReceiverPin.say \in {"PinRequired", "Connected"}
           /\ AfterReceiverPin.msgs = IF cfg.pin[S] THEN <<Bin("pinRequired"), Delimiter>>
                                      ELSE <<FileList(Files), Delimiter>>
<1>1. Files \in SUBSET Ids BY MessageTypes
<1> QED BY <1>1, MsgLists, TwoRoles DEF AfterReceiverPin, Verdict

(* A status added, a place changed. *)
LEMMA TellGoto ==
    ASSUME ControlOK, NEW p \in Roles
    PROVE  /\ \A s \in Statuses : [told EXCEPT ![p] = @ \cup {s}] \in [Roles -> SUBSET Statuses]
           /\ \A l \in Places : [pc EXCEPT ![p] = l] \in [Roles -> Places]
<1>1. told \in [Roles -> SUBSET Statuses] /\ pc \in [Roles -> Places] BY DEF ControlOK
<1>2. ASSUME NEW s \in Statuses PROVE [told EXCEPT ![p] = @ \cup {s}] \in [Roles -> SUBSET Statuses]
  <2>1. told[p] \cup {s} \in SUBSET Statuses BY <1>1
  <2> QED BY <1>1, <2>1
<1> QED BY <1>1, <1>2

(* The steps of the two challenges but the comparison of a PIN. *)
LEMMA ChallengeTypes ==
    ASSUME TypeOK,
           \/ TokenRequest \/ TokenResponse
           \/ \E p \in Roles : NonceStep(p) \/ SendPin(p) \/ Collect(p)
    PROVE  TypeOK'
<1> USE TypeParts, TwoRoles
<1>1. UNCHANGED fileVars BY DEF NonceStep, TokenRequest, TokenResponse, SendPin, Collect
<1>2. FilesOK' BY <1>1, FilesKept
<1>3. ASSUME NEW p \in Roles, NonceStep(p) PROVE TypeOK'
  <2>1. <<Text(IF p = S THEN "token" ELSE "nonce")>> \in Seq(Messages) BY MsgLists
  <2>2. NetOK' BY <1>3, <2>1, TakeNet DEF NonceStep
  <2>3. PinOK' BY <1>3 DEF NonceStep, PinOK, pinVars
  <2> QED BY <1>2, <1>3, <2>2, <2>3 DEF NonceStep, Goto, ControlOK, Places, Statuses
<1>4. CASE TokenRequest
  <2>1. /\ <<Text("invalid")>> \in Seq(Messages)
        /\ <<Text(IF cfg.pin[R] THEN "pinRequired" ELSE "ok")>> \in Seq(Messages)
    BY MsgLists
  <2>2. NetOK' BY <1>4, <2>1, TakeNet DEF TokenRequest
  <2>3. PinOK' BY <1>4 DEF TokenRequest, PinOK, pinVars
  <2>4. pc' \in [Roles -> Places]
    BY <1>4 DEF TokenRequest, Goto, ControlOK, Places, Statuses
  <2>5. told' \in [Roles -> SUBSET Statuses]
    BY <1>4 DEF TokenRequest, ControlOK, Places, Statuses
  <2> QED BY <1>2, <1>4, <2>2, <2>3, <2>4, <2>5 DEF TokenRequest, ControlOK, Places, Statuses
<1>5. CASE TokenResponse
  <2>1. /\ <<>> \in Seq(Messages) /\ AfterReceiverPin.msgs \in Seq(Messages)
        /\ AfterReceiverPin.pc \in {"verify", "list"}
        /\ AfterReceiverPin.say \in {"PinRequired", "Connected"}
    BY MsgLists, AfterPinTypes
  <2>2. NetOK' BY <1>5, <2>1, TakeNet DEF TokenResponse
  <2>3. PinOK' BY <1>5 DEF TokenResponse, PinOK, pinVars
  <2>4. /\ pc' \in [Roles -> Places]
        /\ told' \in [Roles -> SUBSET Statuses]
    <3>1. \/ told' = told
          \/ \E s \in {"PinRequired", "Connected"} : told' = [told EXCEPT ![S] = @ \cup {s}]
      BY <1>5, <2>1 DEF TokenResponse, Tell
    <3>2. \E l \in {"err", "ask", "verify", "list"} : pc' = [pc EXCEPT ![S] = l]
      BY <1>5, <2>1 DEF TokenResponse, Goto
    <3>3. {"PinRequired", "Connected"} \subseteq Statuses /\ {"err", "ask", "verify", "list"} \subseteq Places
      BY DEF Places, Statuses
    <3>4. told' \in [Roles -> SUBSET Statuses]
      <4>1. CASE told' = told BY <4>1 DEF ControlOK
      <4>2. ASSUME NEW s \in {"PinRequired", "Connected"}, told' = [told EXCEPT ![S] = @ \cup {s}]
            PROVE  told' \in [Roles -> SUBSET Statuses]
        <5>1. s \in Statuses BY <3>3
        <5>2. [told EXCEPT ![S] = @ \cup {s}] \in [Roles -> SUBSET Statuses] BY <5>1, TellGoto
        <5> QED BY <4>2, <5>2
      <4> QED BY <3>1, <4>1, <4>2
    <3>5. pc' \in [Roles -> Places] BY <3>2, <3>3, TellGoto
    <3> QED BY <3>4, <3>5
  <2> QED BY <1>2, <1>5, <2>2, <2>3, <2>4 DEF TokenResponse, ControlOK, Places, Statuses
<1>6. ASSUME NEW p \in Roles, SendPin(p) PROVE TypeOK'
  <2>1. PICK guess \in {"right", "wrong"} :
            /\ Send(p, <<Text(guess)>>)
            /\ proved' = IF guess = "right" THEN proved \cup {p} ELSE proved
    BY <1>6 DEF SendPin
  <2>2. <<Text(guess)>> \in Seq(Messages) BY MsgLists
  <2>3. NetOK' BY <1>6, <2>1, <2>2, SendNet DEF SendPin
  <2>4. PinOK' BY <1>6, <2>1 DEF SendPin, PinOK
  <2> QED BY <1>2, <1>6, <2>3, <2>4 DEF SendPin, Goto, ControlOK, Places, Statuses
<1>7. ASSUME NEW p \in Roles, Collect(p) PROVE TypeOK'
  <2>1. <<>> \in Seq(Messages) BY MsgLists
  <2>2. NetOK' /\ Front(p) \in Messages BY <1>7, <2>1, TakeNet DEF Collect
  <2>3. PinOK' BY <1>7 DEF Collect, PinOK, pinVars
  <2>4. buf[p] \in Seq(Messages) BY DEF ControlOK, Places, Statuses
  <2>5. Append(buf[p], Front(p)) \in Seq(Messages) BY <2>2, <2>4
  <2>6. buf' = [buf EXCEPT ![p] = Append(buf[p], Front(p))] BY <1>7, Zenon DEF Collect
  <2>7. buf' \in [Roles -> Seq(Messages)] BY <2>5, <2>6 DEF ControlOK, Places, Statuses
  <2> QED BY <1>2, <1>7, <2>2, <2>3, <2>7 DEF Collect, ControlOK, Places, Statuses
<1> QED BY <1>3, <1>4, <1>5, <1>6, <1>7

(* The comparison of a PIN. *)
LEMMA VerifyTypes ==
    ASSUME TypeOK, Tries, NEW p \in Roles, VerifyPin(p)
    PROVE  TypeOK' /\ (tries' = tries \/ (tries' = [tries EXCEPT ![p] = tries'[p]] /\ tries'[p] \in 0..MaxTries))
<1> USE TypeParts, TwoRoles
<1>1. FilesOK' BY FilesKept DEF VerifyPin
<1>2. /\ <<>> \in Seq(Messages) /\ <<Text("ok")>> \in Seq(Messages)
      /\ <<FileList(Files), Delimiter>> \in Seq(Messages)
      /\ Verdict(p, "tooMany") \in Seq(Messages) /\ Verdict(p, "pinRequired") \in Seq(Messages)
      /\ (IF p = R THEN <<Text("ok")>> ELSE <<FileList(Files), Delimiter>>) \in Seq(Messages)
  BY MsgLists, MessageTypes
<1>3. NetOK' BY <1>2, TakeNet DEF VerifyPin
<1>4. tries[p] < MaxTries /\ tries[p] \in 0..MaxTries BY DEF VerifyPin, Tries, PinOK
<1>5. tries' = tries \/ tries' = [tries EXCEPT ![p] = IF PinPasses(p, Front(p).k) THEN 0 ELSE tries[p] + 1]
  BY Zenon DEF VerifyPin
<1>6. /\ (IF PinPasses(p, Front(p).k) THEN 0 ELSE tries[p] + 1) \in 0..MaxTries
      /\ MaxTries \in Nat
  BY <1>4, TransferAssumption
<1>7. tries' \in [Roles -> 0..MaxTries] BY <1>5, <1>6 DEF PinOK
<1>8. PinOK' BY <1>7 DEF PinOK, VerifyPin
<1>9. pc' \in [Roles -> Places]
  BY DEF VerifyPin, Goto, ControlOK, Places, Statuses
<1>10. told' \in [Roles -> SUBSET Statuses]
  <2>1. \/ told' = told
        \/ told' = [told EXCEPT ![p] = @ \cup {"Connected"}]
        \/ told' = [told EXCEPT ![p] = @ \cup {"TooManyAttempts"}]
    BY Zenon DEF VerifyPin, Tell
  <2>2. "Connected" \in Statuses /\ "TooManyAttempts" \in Statuses BY DEF Statuses
  <2>3. /\ [told EXCEPT ![p] = @ \cup {"Connected"}] \in [Roles -> SUBSET Statuses]
        /\ [told EXCEPT ![p] = @ \cup {"TooManyAttempts"}] \in [Roles -> SUBSET Statuses]
    BY <2>2, TellGoto
  <2>4. told \in [Roles -> SUBSET Statuses] BY DEF ControlOK
  <2> QED BY <2>1, <2>3, <2>4
<1>11. ControlOK' BY <1>9, <1>10 DEF VerifyPin, ControlOK, Places, Statuses
<1> QED BY <1>1, <1>3, <1>5, <1>6, <1>8, <1>11 DEF PinOK

(* What was collected parses as one message, or as nothing that is one. *)
LEMMA ParsedType ==
    ASSUME ControlOK, NEW p \in Roles
    PROVE  Parsed(p) \in Messages
<1>1. buf[p] \in Seq(Messages) BY DEF ControlOK
<1>2. CASE Len(buf[p]) = 1 BY <1>1, <1>2 DEF Parsed
<1>3. CASE Len(buf[p]) # 1 BY <1>3, MessageTypes, MsgLists DEF Parsed
<1> QED BY <1>2, <1>3

(* Where handle_pin goes on. *)
LEMMA PinOutcomeCases ==
    ASSUME NEW k, NEW next
    PROVE  /\ k = "ok" => PinOutcome(k, next) = next
           /\ k = "pinRequired" => PinOutcome(k, next) = [pc |-> "ask", say |-> "PinRequired"]
           /\ k = "tooMany" => PinOutcome(k, next) = [pc |-> "err", say |-> "TooManyAttempts"]
           /\ k \notin {"ok", "pinRequired", "tooMany"} =>
                PinOutcome(k, next) = [pc |-> "desync", say |-> "Error"]
BY DEF PinOutcome

(* The steps that end a list, and the receiver's answer. *)
LEMMA ListTypes ==
    ASSUME TypeOK, ReceiverList \/ SenderPinResult \/ SenderList \/ Decline \/ Abandon
                   \/ \E sel \in SUBSET Ids : Select(sel)
    PROVE  TypeOK'
<1> USE TypeParts, TwoRoles
<1>a. S \in Roles /\ R \in Roles OBVIOUS
<1>b. {"select", "send", "ok", "desync", "recv", "err", "ask", "verify", "list"} \subseteq Places BY DEF Places
<1>c. {"PinRequired", "Connected", "TooManyAttempts", "Error", "Declined"} \subseteq Statuses BY DEF Statuses
<1>d. told \in [Roles -> SUBSET Statuses] BY DEF ControlOK
<1>e. \A p \in Roles : \A s \in Statuses : [told EXCEPT ![p] = @ \cup {s}] \in [Roles -> SUBSET Statuses]
  BY TellGoto
<1>f. \A p \in Roles : \A l \in Places : [pc EXCEPT ![p] = l] \in [Roles -> Places] BY TellGoto
<1>g. ASSUME NEW p \in Roles, ChunksEnd(p)
      PROVE  NetOK' /\ buf' \in [Roles -> Seq(Messages)]
  <2>1. <<>> \in Seq(Messages) BY MsgLists
  <2>2. NetOK' BY <1>g, <2>1, TakeNet DEF ChunksEnd
  <2> QED BY <1>g, <2>1, <2>2 DEF ChunksEnd, ControlOK
<1>1. CASE ReceiverList
  <2> DEFINE o == PinOutcome(Parsed(R).k, [pc |-> "select", say |-> "Connected"])
  <2>1. /\ ChunksEnd(R) /\ Goto(R, o.pc) /\ Tell(R, o.say) /\ listed' = (Parsed(R).k = "ok")
        /\ UNCHANGED <<cfg, main, offer, up, pinVars, senderVars, picked, open, got, over, todo, results,
                       answered>>
    BY <1>1, Zenon DEF ReceiverList
  <2>2. o.pc \in Places /\ o.say \in Statuses BY <1>b, <1>c, PinOutcomeCases
  <2> HIDE DEF o
  <2>3. pc' \in [Roles -> Places] /\ told' \in [Roles -> SUBSET Statuses]
    BY <1>a, <1>e, <1>f, <2>1, <2>2 DEF Goto, Tell
  <2>4. ControlOK' BY <1>a, <1>g, <2>1, <2>3 DEF ControlOK
  <2>5. FilesOK' BY <2>1 DEF FilesOK, senderVars
  <2>6. PinOK' BY <2>1 DEF PinOK, pinVars
  <2> QED BY <1>a, <1>g, <2>1, <2>4, <2>5, <2>6
<1>2. CASE SenderPinResult
  <2> DEFINE k == IF Front(S).bin THEN "chunk" ELSE Front(S).k
             a == AfterReceiverPin
             o == PinOutcome(k, [pc |-> a.pc, say |-> a.say])
  <2>1. /\ Take(S, Front(S), IF Front(S) = Text("ok") THEN a.msgs ELSE <<>>)
        /\ Goto(S, o.pc) /\ Tell(S, o.say)
        /\ UNCHANGED <<cfg, main, offer, up, buf, pinVars, fileVars>>
    BY <1>2, Zenon DEF SenderPinResult
  <2>2. /\ a.pc \in Places /\ a.say \in Statuses
        /\ (IF Front(S) = Text("ok") THEN a.msgs ELSE <<>>) \in Seq(Messages)
    BY <1>b, <1>c, AfterPinTypes, MsgLists
  <2>3. o.pc \in Places /\ o.say \in Statuses BY <1>b, <1>c, <2>2, PinOutcomeCases
  <2> HIDE DEF o, a
  <2>4. pc' \in [Roles -> Places] /\ told' \in [Roles -> SUBSET Statuses]
    BY <1>a, <1>e, <1>f, <2>1, <2>3 DEF Goto, Tell
  <2>5. NetOK' BY <1>a, <2>1, <2>2, TakeNet
  <2>6. ControlOK' BY <2>1, <2>4 DEF ControlOK
  <2>7. PinOK' BY <2>1 DEF PinOK, pinVars
  <2> QED BY <2>1, <2>5, <2>6, <2>7, FilesKept
<1>3. CASE SenderList
  <2>1. /\ ChunksEnd(S) /\ tokens' = Parsed(S).s
        /\ UNCHANGED <<cfg, main, offer, up, pinVars, asked, cur, sent, receiverVars>>
    BY <1>3, Zenon DEF SenderList
  <2>2. \E l \in {"send", "ok", "desync"} : pc' = [pc EXCEPT ![S] = l]
    BY <1>3 DEF SenderList, Goto
  <2>3. told' = told \/ told' = [told EXCEPT ![S] = @ \cup {"Declined"}] BY <1>3, Zenon DEF SenderList
  <2>4. pc' \in [Roles -> Places] BY <1>a, <1>b, <1>f, <2>2
  <2>5. told' \in [Roles -> SUBSET Statuses] BY <1>a, <1>c, <1>d, <1>e, <2>3
  <2>6. tokens' \in SUBSET Ids BY <1>a, <2>1, ParsedType DEF Messages
  <2>7. FilesOK' BY <2>1, <2>6 DEF FilesOK, receiverVars
  <2>8. ControlOK' BY <1>a, <1>g, <2>1, <2>4, <2>5 DEF ControlOK
  <2>9. PinOK' BY <2>1 DEF PinOK, pinVars
  <2> QED BY <1>a, <1>g, <2>1, <2>7, <2>8, <2>9
<1>4. ASSUME NEW sel \in SUBSET Ids, Select(sel) PROVE TypeOK'
  <2>1. <<FileList(sel), Delimiter>> \in Seq(Messages) BY MsgLists
  <2>2. NetOK' BY <1>4, <2>1, <1>a, SendNet DEF Select
  <2>3. FilesOK' BY <1>4 DEF Select, FilesOK, senderVars
  <2>4. PinOK' BY <1>4 DEF Select, PinOK, pinVars
  <2>5. pc' \in [Roles -> Places] BY <1>4, <1>a, <1>b, <1>f DEF Select, Goto
  <2> QED BY <1>4, <2>2, <2>3, <2>4, <2>5 DEF Select, ControlOK
<1>5. CASE Decline
  <2>1. <<Bin("declined"), Delimiter>> \in Seq(Messages) BY MsgLists
  <2>2. NetOK' BY <1>5, <2>1, <1>a, SendNet DEF Decline
  <2>3. FilesOK' BY <1>5, FilesKept DEF Decline
  <2>4. PinOK' BY <1>5 DEF Decline, PinOK, pinVars
  <2>5. pc' \in [Roles -> Places] BY <1>5, <1>a, <1>b, <1>f DEF Decline, Goto
  <2> QED BY <1>5, <2>2, <2>3, <2>4, <2>5 DEF Decline, ControlOK
<1>6. CASE Abandon
  <2>2. NetOK' BY <1>6 DEF Abandon, NetOK, netVars
  <2>3. FilesOK' BY <1>6, FilesKept DEF Abandon
  <2>4. PinOK' BY <1>6 DEF Abandon, PinOK, pinVars
  <2>5. pc' \in [Roles -> Places] BY <1>6, <1>a, <1>b, <1>f DEF Abandon, Goto
  <2> QED BY <1>6, <2>2, <2>3, <2>4, <2>5 DEF Abandon, ControlOK
<1> QED BY <1>1, <1>2, <1>3, <1>4, <1>5, <1>6

(* The steps that send the files. *)
LEMMA SendingTypes ==
    ASSUME TypeOK, SendChunk \/ CloseSending \/ Flush \/ Drain \/ \E f \in Ids : SendFile(f)
    PROVE  TypeOK'
<1> USE TypeParts
<1>a. S \in Roles /\ R \in Roles /\ Other(S) = R BY TwoRoles
<1>b. {"file", "send", "flush", "drain", "ok"} \subseteq Places BY DEF Places
<1>c. \A l \in Places : [pc EXCEPT ![S] = l] \in [Roles -> Places] BY <1>a, TellGoto
<1>d. pc \in [Roles -> Places] BY DEF ControlOK
<1>e. PinOK' BY DEF SendFile, SendChunk, CloseSending, Flush, Drain, PinOK, pinVars
<1>f. cur \in [f : Ids, n : Nat, on : BOOLEAN] BY DEF FilesOK
<1>1. ASSUME NEW f \in Ids, SendFile(f) PROVE TypeOK'
  <2>1. /\ asked' = asked \cup {f}
        /\ UNCHANGED <<cfg, main, offer, acked, up, buf, pinVars, told, tokens, sent, receiverVars>>
    BY <1>1, Zenon DEF SendFile
  <2>2. CASE UNCHANGED <<pc, cur, net>>
    <3>1. FilesOK' BY <2>1, <2>2 DEF FilesOK, receiverVars
    <3>2. ControlOK' BY <2>1, <2>2 DEF ControlOK
    <3>3. NetOK' BY <2>1, <2>2 DEF NetOK
    <3> QED BY <1>e, <3>1, <3>2, <3>3
  <2>3. CASE /\ Send(S, <<Header(f)>>) /\ Goto(S, "file")
             /\ \E n \in IF f = Ghost THEN {1} ELSE 0..(Size[f] + 1) : cur' = [f |-> f, n |-> n, on |-> TRUE]
    <3>1. <<Header(f)>> \in Seq(Messages) BY MsgLists
    <3>2. NetOK' BY <1>a, <2>1, <2>3, <3>1, SendNet
    <3>3. cur' \in [f : Ids, n : Nat, on : BOOLEAN]
      <4>1. PICK n \in IF f = Ghost THEN {1} ELSE 0..(Size[f] + 1) : cur' = [f |-> f, n |-> n, on |-> TRUE]
        BY <2>3
      <4>2. n \in Nat BY TransferAssumption DEF Ids
      <4> QED BY <4>1, <4>2
    <3>4. FilesOK' BY <2>1, <3>3 DEF FilesOK, receiverVars
    <3>5. pc' \in [Roles -> Places] BY <1>b, <1>c, <2>3 DEF Goto
    <3>6. ControlOK' BY <2>1, <3>5 DEF ControlOK
    <3> QED BY <1>e, <3>2, <3>4, <3>6
  <2> QED BY <1>1, <2>2, <2>3 DEF SendFile
<1>2. CASE SendChunk
  <2>1. UNCHANGED <<cfg, main, offer, acked, up, buf, pinVars, told, tokens, asked, receiverVars>>
    BY <1>2 DEF SendChunk
  <2>2. CASE /\ cur.n > 0 /\ Send(S, <<Chunk(cur.f)>>)
             /\ sent' = [sent EXCEPT ![cur.f] = @ + 1]
             /\ cur' = [cur EXCEPT !.n = @ - 1] /\ UNCHANGED pc
    <3>1. cur.f \in Ids BY <1>f
    <3>2. <<Chunk(cur.f)>> \in Seq(Messages) BY <3>1, MsgLists
    <3>3. NetOK' BY <1>a, <2>1, <2>2, <3>2, SendNet
    <3>4. cur' \in [f : Ids, n : Nat, on : BOOLEAN] BY <1>f, <2>2
    <3>5. sent' \in [Ids -> Nat] BY <3>1, <2>2 DEF FilesOK
    <3>6. FilesOK' BY <2>1, <3>4, <3>5 DEF FilesOK, receiverVars
    <3>7. ControlOK' BY <2>1, <2>2 DEF ControlOK
    <3> QED BY <1>e, <3>3, <3>6, <3>7
  <2>3. CASE cur.n = 0 /\ Goto(S, "send") /\ cur' = NoFile /\ UNCHANGED <<net, sent>>
    <3>1. cur' \in [f : Ids, n : Nat, on : BOOLEAN] BY <2>3, MessageTypes DEF NoFile
    <3>2. FilesOK' BY <2>1, <2>3, <3>1 DEF FilesOK, receiverVars
    <3>3. NetOK' BY <2>1, <2>3 DEF NetOK
    <3>4. pc' \in [Roles -> Places] BY <1>b, <1>c, <2>3 DEF Goto
    <3>5. ControlOK' BY <2>1, <3>4 DEF ControlOK
    <3> QED BY <1>e, <3>2, <3>3, <3>5
  <2> QED BY <1>2, <2>2, <2>3 DEF SendChunk
<1>3. CASE CloseSending
  <2>1. FilesOK' BY <1>3, FilesKept DEF CloseSending
  <2>2. NetOK' BY <1>3 DEF CloseSending, NetOK, netVars
  <2>3. pc' \in [Roles -> Places] BY <1>b, <1>c, <1>3 DEF CloseSending, Goto
  <2>4. ControlOK' BY <1>3, <2>3 DEF CloseSending, ControlOK
  <2> QED BY <1>e, <2>1, <2>2, <2>4
<1>4. CASE Flush
  <2>1. FilesOK' BY <1>4, FilesKept DEF Flush
  <2>2. <<Delimiter>> \in Seq(Messages) BY MsgLists
  <2>3. NetOK'
    <3>1. net' \in [Roles -> Seq(Messages)] /\ Len(net'[R]) \in Nat /\ Len(net'[R]) >= Len(net[R])
      BY <1>4, <1>a, <2>2, SendNet DEF Flush
    <3>2. acked' = Len(net[R]) BY <1>4 DEF Flush, BufferEmpty
    <3>3. Len(net[R]) \in Nat BY <1>a, LenProperties DEF NetOK
    <3> QED BY <3>1, <3>2, <3>3 DEF NetOK
  <2>4. pc' \in [Roles -> Places] BY <1>b, <1>c, <1>4 DEF Flush, Goto
  <2>5. ControlOK' BY <1>4, <2>4 DEF Flush, ControlOK
  <2> QED BY <1>e, <2>1, <2>3, <2>5
<1>5. CASE Drain
  <2>1. FilesOK' BY <1>5, FilesKept DEF Drain
  <2>2. NetOK' BY <1>5, <1>a, MsgLists, TakeNet DEF Drain
  <2>3. pc' \in [Roles -> Places] BY <1>b, <1>c, <1>5 DEF Drain, Goto
  <2>4. ControlOK' BY <1>5, <2>3 DEF Drain, ControlOK
  <2> QED BY <1>e, <2>1, <2>2, <2>4
<1> QED BY <1>1, <1>2, <1>3, <1>4, <1>5

(* What becomes of the open file when a text is read where a header may stand. *)
LEMMA StartFileCases ==
    ASSUME TypeOK, NEW m \in Messages, StartFile(m)
    PROVE  /\ \/ /\ m.k = "header" /\ m.f \in picked \cap Files
                 /\ open' = [f |-> m.f, n |-> 0, on |-> TRUE] /\ todo' = todo \cup {m.f}
              \/ /\ ~(m.k = "header" /\ m.f \in picked \cap Files)
                 /\ open' = NoFile /\ todo' = todo
           /\ pc' = [pc EXCEPT ![R] = IF m.k = "header" THEN "recv" ELSE "desync"]
           /\ open' \in [f : Ids, n : Nat, on : BOOLEAN] /\ todo' \in SUBSET Ids
           /\ pc' \in [Roles -> Places]
<1>1. /\ \/ /\ m.k = "header" /\ m.f \in picked \cap Files
            /\ open' = [f |-> m.f, n |-> 0, on |-> TRUE] /\ todo' = todo \cup {m.f}
         \/ /\ ~(m.k = "header" /\ m.f \in picked \cap Files)
            /\ open' = NoFile /\ todo' = todo
      /\ pc' = [pc EXCEPT ![R] = IF m.k = "header" THEN "recv" ELSE "desync"]
  BY DEF StartFile, Goto
<1>2. m.f \in Ids BY DEF Messages
<1>3. NoFile \in [f : Ids, n : Nat, on : BOOLEAN] BY NoFileType
<1>4. open' \in [f : Ids, n : Nat, on : BOOLEAN]
  <2>1. CASE open' = [f |-> m.f, n |-> 0, on |-> TRUE] BY <1>2, <2>1
  <2>2. CASE open' = NoFile BY <1>3, <2>2
  <2> QED BY <1>1, <2>1, <2>2
<1>5. todo' \in SUBSET Ids BY <1>1, <1>2, TypeParts DEF FilesOK
<1>6. pc' \in [Roles -> Places] BY <1>1, TypeParts DEF ControlOK, Places
<1> QED BY <1>1, <1>4, <1>5, <1>6

(* The steps that receive the files. *)
LEMMA ReceivingTypes ==
    ASSUME TypeOK, Receiving,
           RecvHeader \/ FileEnds \/ RecvChunk \/ FileResult \/ \E f \in Ids : Rate(f)
    PROVE  TypeOK'
<1> USE TypeParts
<1>a. S \in Roles /\ R \in Roles /\ Other(R) = S /\ Other(S) = R /\ S # R BY TwoRoles
<1>b. PinOK' BY DEF RecvHeader, FileEnds, RecvChunk, FileResult, Rate, PinOK, pinVars
<1>c. open \in [f : Ids, n : Nat, on : BOOLEAN] BY DEF FilesOK
<1>1. CASE RecvHeader
  <2>1. NetOK' /\ Front(R) \in Messages BY <1>1, ReadNet DEF RecvHeader
  <2>2. /\ open' \in [f : Ids, n : Nat, on : BOOLEAN] /\ todo' \in SUBSET Ids
        /\ pc' \in [Roles -> Places]
    BY <1>1, <2>1, StartFileCases DEF RecvHeader
  <2>3. FilesOK' BY <1>1, <2>2 DEF RecvHeader, FilesOK, senderVars
  <2>4. ControlOK' BY <1>1, <2>2 DEF RecvHeader, ControlOK
  <2> QED BY <1>b, <2>1, <2>3, <2>4
<1>2. CASE FileEnds
  <2>1. FilesOK' BY <1>2, FilesKept DEF FileEnds
  <2>2. NetOK' BY <1>2 DEF FileEnds, NetOK, netVars
  <2>3. "result" \in Places BY DEF Places
  <2>4. pc' \in [Roles -> Places] BY <1>a, <1>2, <2>3, TellGoto DEF FileEnds, Goto
  <2>5. ControlOK' BY <1>2, <2>4 DEF FileEnds, ControlOK
  <2> QED BY <1>b, <2>1, <2>2, <2>5
<1>3. CASE RecvChunk
  <2>1. NetOK' BY <1>3, ReadNet DEF RecvChunk
  <2>2. /\ open' \in [f : Ids, n : Nat, on : BOOLEAN] /\ got' \in [Ids -> Nat]
        /\ over' \in SUBSET Ids
    <3>1. CASE /\ open' = [open EXCEPT !.n = open.n + 1] /\ got' = [got EXCEPT ![open.f] = @ + 1]
               /\ UNCHANGED over
      <4>1. open.f \in Ids /\ open.n \in Nat BY <1>c
      <4>2. open' \in [f : Ids, n : Nat, on : BOOLEAN] BY <1>c, <4>1, <3>1
      <4>3. got \in [Ids -> Nat] /\ over \in SUBSET Ids BY DEF FilesOK
      <4>4. got' \in [Ids -> Nat] BY <4>1, <4>3, <3>1
      <4> QED BY <4>2, <4>3, <4>4, <3>1
    <3>2. CASE open' = NoFile /\ over' = over \cup {open.f} /\ UNCHANGED got
      BY <1>c, <3>2, MessageTypes DEF FilesOK, NoFile
    <3>3. CASE UNCHANGED <<open, got, over>> BY <3>3 DEF FilesOK
    <3> QED BY <1>3, <3>1, <3>2, <3>3, Zenon DEF RecvChunk
  <2>3. FilesOK' BY <1>3, <2>2 DEF RecvChunk, FilesOK, senderVars
  <2>4. ControlOK' BY <1>3 DEF RecvChunk, ControlOK
  <2> QED BY <1>b, <2>1, <2>3, <2>4
<1>4. CASE FileResult
  <2>1. net[R] # <<>> /\ pc[R] = "result" /\ results # <<>> BY <1>4 DEF Receiving, FileResult
  <2>2. NetOK' /\ Front(R) \in Messages
    <3>1. net[R] \in Seq(Messages) /\ net[S] \in Seq(Messages) BY <1>a DEF NetOK
    <3>2. /\ Front(R) \in Messages /\ Tail(net[R]) \in Seq(Messages)
          /\ Len(net[R]) \in Nat /\ Len(net[R]) > 0 /\ Len(Tail(net[R])) = Len(net[R]) - 1
      BY <2>1, <3>1, TailFacts DEF Front
    <3>3. Text("response") \in Messages BY MessageTypes DEF Kinds
    <3>4. Append(net[S], Text("response")) \in Seq(Messages) BY <3>1, <3>3
    <3>5. /\ net' = [net EXCEPT ![R] = Tail(net[R]), ![S] = Append(net[S], Text("response"))]
          /\ acked' = Drop(acked)
      <4>1. net' = [net EXCEPT ![R] = Tail(@), ![S] = Append(@, Text("response"))] /\ acked' = Drop(acked)
        BY <1>4, Zenon DEF FileResult
      <4> QED BY <1>a, <4>1 DEF NetOK
    <3>6. net' \in [Roles -> Seq(Messages)] /\ net'[R] = Tail(net[R])
      <4>1. net \in [Roles -> Seq(Messages)] BY DEF NetOK
      <4>2. net'[R] = Tail(net[R]) BY <4>1, <1>a, <3>5
      <4>3. net' \in [Roles -> Seq(Messages)] BY <4>1, <3>2, <3>4, <3>5
      <4> QED BY <4>2, <4>3
    <3>7. acked' = IF acked = 0 THEN 0 ELSE acked - 1 BY <3>5
    <3>8. acked' \in 0..Len(net'[R]) BY <3>2, <3>6, <3>7 DEF NetOK
    <3> QED BY <3>2, <3>6, <3>8 DEF NetOK
  <2>3. /\ open' \in [f : Ids, n : Nat, on : BOOLEAN] /\ todo' \in SUBSET Ids
        /\ pc' \in [Roles -> Places]
    <3>1. CASE Goto(R, "ok") /\ open' = NoFile /\ UNCHANGED todo
      <4>1. "ok" \in Places BY DEF Places
      <4>2. pc' \in [Roles -> Places] BY <1>a, <3>1, <4>1, TellGoto DEF Goto
      <4>3. NoFile \in [f : Ids, n : Nat, on : BOOLEAN] BY MessageTypes DEF NoFile
      <4> QED BY <3>1, <4>2, <4>3 DEF FilesOK
    <3>2. CASE StartFile(Front(R)) BY <2>2, <3>2, StartFileCases
    <3> QED BY <1>4, <3>1, <3>2 DEF FileResult
  <2>4. results' \in Seq(Ids) /\ Len(results') <= 1 BY <1>4 DEF FileResult
  <2>5. answered' \subseteq [f : Ids, of : Ids]
    <3>1. Head(results) \in Ids BY <2>1 DEF FilesOK
    <3> QED BY <1>4, <1>c, <3>1 DEF FileResult, FilesOK
  <2>6. FilesOK' BY <1>4, <2>3, <2>4, <2>5 DEF FileResult, FilesOK, senderVars
  <2>7. ControlOK' BY <1>4, <2>3 DEF FileResult, ControlOK
  <2> QED BY <1>b, <2>2, <2>6, <2>7
<1>5. ASSUME NEW f \in Ids, Rate(f) PROVE TypeOK'
  <2>1. results' \in Seq(Ids) /\ Len(results') <= 1 BY <1>5 DEF Rate
  <2>2. FilesOK' BY <1>5, <2>1 DEF Rate, FilesOK, senderVars
  <2>3. ControlOK' BY <1>5 DEF Rate, ControlOK
  <2>4. NetOK' BY <1>5 DEF Rate, NetOK, netVars
  <2> QED BY <1>b, <2>2, <2>3, <2>4
<1> QED BY <1>1, <1>2, <1>3, <1>4, <1>5

(* A step that changes nothing. *)
LEMMA StutterTypes == TypeOK /\ UNCHANGED vars => TypeOK'
BY DEF TypeOK, vars, senderVars, receiverVars, netVars, pinVars, fileVars

(* Every step keeps the types. *)
LEMMA StepTypes ==
    ASSUME TypeOK, Tries, Receiving, [Next]_vars
    PROVE  TypeOK'
<1>1. CASE UNCHANGED vars BY <1>1, StutterTypes
<1>2. ASSUME NEW p \in Roles, MainStep(p) PROVE TypeOK'
  BY <1>2, MainTypes, ConnectionTypes DEF MainStep
<1>3. CASE SignalStep \/ LoseOffer BY <1>3, MainTypes DEF SignalStep
<1>4. CASE OpenChannel \/ Disconnect BY <1>4, ConnectionTypes
<1>5. CASE SenderStep
  BY <1>5, TwoRoles, ChallengeTypes, VerifyTypes, ListTypes, SendingTypes, ConnectionTypes DEF SenderStep
<1>6. CASE ReceiverStep
  BY <1>6, TwoRoles, ChallengeTypes, VerifyTypes, ListTypes, ReceivingTypes, ConnectionTypes
  DEF ReceiverStep
<1>7. CASE UserStep
  BY <1>7, MainTypes, ChallengeTypes, ListTypes, SendingTypes, ReceivingTypes DEF UserStep
<1> QED BY <1>1, <1>2, <1>3, <1>4, <1>5, <1>6, <1>7 DEF Next

-----------------------------------------------------------------------------
(* The conversation before the files *)

(* A task takes the only message on the way, and nothing is on the way to the other. *)
LEMMA TakeOne ==
    ASSUME NetOK, NEW p \in Roles, NEW m, NEW msgs \in Seq(Messages), Take(p, m, msgs),
           NEW x \in Messages, net[p] = <<x>>, net[Other(p)] = <<>>
    PROVE  m = x /\ net'[p] = <<>> /\ net'[Other(p)] = msgs
<1>1. m = net[p][1] /\ net'[p] = Tail(net[p]) /\ net'[Other(p)] = net[Other(p)] \o msgs
  BY TakeNet
<1>2. net[p][1] = x /\ Tail(net[p]) = <<>> BY ShortFacts
<1>3. <<>> \o msgs = msgs BY ConcatEmptySeq
<1> QED BY <1>1, <1>2, <1>3

(* Nonces cross. *)
LEMMA NonceTalk ==
    ASSUME TypeOK, Conversation, NEW p \in Roles, NonceStep(p)
    PROVE  Conversation' /\ up' = up /\ \A q \in Roles : pc'[q] # "desync" \/ pc[q] = "desync"
<1>a. /\ S \in Roles /\ R \in Roles /\ S # R /\ Other(S) = R /\ Other(R) = S
      /\ \A q \in Roles : q = S \/ q = R
  BY TwoRoles
<1>b. pc \in [Roles -> Places] /\ NetOK BY TypeParts DEF ControlOK
<1>c. /\ Text("nonce") \in Messages /\ <<Text("token")>> \in Seq(Messages)
      /\ <<Text("nonce")>> \in Seq(Messages)
  BY MessageTypes, MsgLists DEF Kinds
<1>d. net[p] # <<>> BY DEF NonceStep, Take
<1>e. buf' = buf /\ up' = up /\ pc' = [pc EXCEPT ![p] = "token"] BY DEF NonceStep, Goto
<1>1. CASE p = S
  <2>1. At("nonce", "token") /\ Only(S, Text("nonce")) /\ Empty(R)
    BY <1>1, <1>d DEF NonceStep, Conversation, FirstChallenge, SecondChallenge, Failed, InFiles, At, Empty
  <2>2. Take(S, Text("nonce"), <<Text("token")>>) BY <1>1 DEF NonceStep
  <2>a. net[S] = <<Text("nonce")>> /\ net[Other(S)] = <<>> BY <1>a, <2>1 DEF Only, Empty
  <2>b. net'[S] = <<>> /\ net'[Other(S)] = <<Text("token")>>
    BY <1>a, <1>b, <1>c, <2>a, <2>2, TakeOne
  <2>3. net'[S] = <<>> /\ net'[R] = <<Text("token")>> BY <1>a, <2>b
  <2>4. At("token", "token")' /\ Empty(S)' /\ Only(R, Text("token"))'
    BY <1>1, <1>a, <1>b, <1>e, <2>1, <2>3 DEF At, Only, Empty
  <2> QED BY <1>a, <1>e, <2>4 DEF Conversation, FirstChallenge, At
<1>2. CASE p = R
  <2>1. At("nonce", "nonce") /\ Only(R, Text("nonce")) /\ Empty(S)
    BY <1>2, <1>d DEF NonceStep, Conversation, FirstChallenge, SecondChallenge, Failed, InFiles, At, Empty
  <2>2. Take(R, Text("nonce"), <<Text("nonce")>>) BY <1>2, <1>a DEF NonceStep
  <2>a. net[R] = <<Text("nonce")>> /\ net[Other(R)] = <<>> BY <1>a, <2>1 DEF Only, Empty
  <2>b. net'[R] = <<>> /\ net'[Other(R)] = <<Text("nonce")>>
    BY <1>a, <1>b, <1>c, <2>a, <2>2, TakeOne
  <2>3. net'[R] = <<>> /\ net'[S] = <<Text("nonce")>> BY <1>a, <2>b
  <2>4. At("nonce", "token")' /\ Only(S, Text("nonce"))' /\ Empty(R)'
    BY <1>2, <1>a, <1>b, <1>e, <2>1, <2>3 DEF At, Only, Empty
  <2> QED BY <1>a, <1>e, <2>4 DEF Conversation, FirstChallenge, At
<1> QED BY <1>1, <1>2, <1>a

(* The sender takes the only message on the way. *)
LEMMA SenderTakes ==
    ASSUME TypeOK, NEW x \in Messages, NEW m, NEW msgs \in Seq(Messages), Take(S, m, msgs),
           Only(S, x), Empty(R)
    PROVE  m = x /\ net[S] # <<>> /\ Front(S) = x /\ net'[S] = <<>> /\ net'[R] = msgs
<1>1. net[S] = <<x>> /\ net[Other(S)] = <<>> /\ S \in Roles /\ NetOK
  BY TwoRoles, TypeParts DEF Only, Empty
<1>2. m = x /\ net'[S] = <<>> /\ net'[Other(S)] = msgs BY <1>1, TakeOne
<1> QED BY <1>1, <1>2, TwoRoles, ShortFacts DEF Front

(* The receiver takes the only message on the way. *)
LEMMA ReceiverTakes ==
    ASSUME TypeOK, NEW x \in Messages, NEW m, NEW msgs \in Seq(Messages), Take(R, m, msgs),
           Only(R, x), Empty(S)
    PROVE  m = x /\ net[R] # <<>> /\ Front(R) = x /\ net'[R] = <<>> /\ net'[S] = msgs
<1>1. net[R] = <<x>> /\ net[Other(R)] = <<>> /\ R \in Roles /\ NetOK
  BY TwoRoles, TypeParts DEF Only, Empty
<1>2. m = x /\ net'[R] = <<>> /\ net'[Other(R)] = msgs BY <1>1, TakeOne
<1> QED BY <1>1, <1>2, TwoRoles, ShortFacts DEF Front

(* The only message on the way is in front. *)
LEMMA FrontOnly ==
    /\ \A p \in Roles : \A x \in Messages : Only(p, x) => Front(p) = x /\ net[p] # <<>>
    /\ \A p \in Roles : Empty(p) => net[p] = <<>>
BY ShortFacts DEF Only, Empty, Front

(* The receiver answers the sender's token. *)
LEMMA TokenRequestTalk ==
    ASSUME TypeOK, Conversation, TokenRequest
    PROVE  Conversation' /\ up' = up /\ \A q \in Roles : pc'[q] # "desync" \/ pc[q] = "desync"
<1>a. /\ S \in Roles /\ R \in Roles /\ S # R /\ Other(S) = R /\ Other(R) = S
      /\ \A q \in Roles : q = S \/ q = R
  BY TwoRoles
<1>b. pc \in [Roles -> Places] /\ NetOK BY TypeParts DEF ControlOK
<1>c. Text("token") \in Messages /\ \A k \in {"invalid", "pinRequired", "ok"} : <<Text(k)>> \in Seq(Messages)
  BY MessageTypes, MsgLists DEF Kinds
<1>d. net[R] # <<>> /\ pc[R] = "token" BY DEF TokenRequest, Take
<1>e. buf' = buf /\ up' = up BY DEF TokenRequest
<1>1. At("token", "token") /\ Only(R, Text("token")) /\ Empty(S)
  BY <1>d DEF Conversation, FirstChallenge, SecondChallenge, Failed, InFiles, At, Empty
<1>2. CASE Take(R, Text("token"), <<Text("invalid")>>) /\ Goto(R, "err")
  <2>1. net'[R] = <<>> /\ net'[S] = <<Text("invalid")>> BY <1>1, <1>2, <1>c, ReceiverTakes
  <2>2. pc' = [pc EXCEPT ![R] = "err"] BY <1>2 DEF Goto
  <2>3. At("token", "err")' /\ Only(S, Text("invalid"))' /\ Empty(R)'
    BY <1>a, <1>b, <1>e, <1>1, <2>1, <2>2 DEF At, Only, Empty
  <2> QED BY <1>a, <1>e, <2>3 DEF Conversation, FirstChallenge, At
<1>3. CASE Take(R, Text("token"), <<Text("pinRequired")>>) /\ Goto(R, "verify")
  <2>1. net'[R] = <<>> /\ net'[S] = <<Text("pinRequired")>> BY <1>1, <1>3, <1>c, ReceiverTakes
  <2>2. pc' = [pc EXCEPT ![R] = "verify"] BY <1>3 DEF Goto
  <2>3. At("token", "verify")' /\ Only(S, Text("pinRequired"))' /\ Empty(R)'
    BY <1>a, <1>b, <1>e, <1>1, <2>1, <2>2 DEF At, Only, Empty
  <2> QED BY <1>a, <1>e, <2>3 DEF Conversation, FirstChallenge, At
<1>4. CASE Take(R, Text("token"), <<Text("ok")>>) /\ Goto(R, "list")
  <2>1. net'[R] = <<>> /\ net'[S] = <<Text("ok")>> BY <1>1, <1>4, <1>c, ReceiverTakes
  <2>2. pc' = [pc EXCEPT ![R] = "list"] BY <1>4 DEF Goto
  <2>3. At("token", "list")' /\ Only(S, Text("ok"))' /\ Empty(R)'
    BY <1>a, <1>b, <1>e, <1>1, <2>1, <2>2 DEF At, Only, Empty
  <2> QED BY <1>a, <1>e, <2>3 DEF Conversation, FirstChallenge, At
<1>5. \/ Take(R, Text("token"), <<Text("invalid")>>) /\ Goto(R, "err")
      \/ Take(R, Text("token"), <<Text("pinRequired")>>) /\ Goto(R, "verify")
      \/ Take(R, Text("token"), <<Text("ok")>>) /\ Goto(R, "list")
  BY Zenon DEF TokenRequest
<1> QED BY <1>2, <1>3, <1>4, <1>5

(* What the sender says after its PIN was accepted is what the receiver's list wants. *)
LEMMA AfterPinTalk ==
    ASSUME TypeOK, NEW r \in {"list", "pinres"}, pc' = [pc EXCEPT ![S] = AfterReceiverPin.pc], pc[R] = r,
           buf' = buf, buf[R] = <<>>, buf[S] = <<>>, net'[S] = <<>>, net'[R] = AfterReceiverPin.msgs
    PROVE  SecondChallenge' /\ \A q \in Roles : pc'[q] # "desync" \/ pc[q] = "desync"
<1>a. S \in Roles /\ R \in Roles /\ S # R /\ \A q \in Roles : q = S \/ q = R BY TwoRoles
<1>b. pc \in [Roles -> Places] BY TypeParts DEF ControlOK
<1>1. CASE cfg.pin[S]
  <2>1. AfterReceiverPin.pc = "verify" /\ net'[R] = <<Bin("pinRequired"), Delimiter>>
    BY <1>1, AfterPinTypes, TypeParts
  <2>2. At("verify", r)' /\ Empty(S)' /\ Comes(R, Bin("pinRequired"))'
    BY <1>a, <1>b, <2>1 DEF At, Empty, Comes
  <2> QED BY <1>a, <2>2 DEF SecondChallenge, At
<1>2. CASE ~cfg.pin[S]
  <2>1. AfterReceiverPin.pc = "list" /\ net'[R] = <<FileList(Files), Delimiter>>
    BY <1>2, AfterPinTypes, TypeParts
  <2>2. At("list", r)' /\ Empty(S)' /\ Comes(R, FileList(Files))'
    BY <1>a, <1>b, <2>1 DEF At, Empty, Comes
  <2> QED BY <1>a, <2>2 DEF SecondChallenge, At
<1> QED BY <1>1, <1>2

(* The sender reads the answer to its token. *)
LEMMA TokenResponseTalk ==
    ASSUME TypeOK, Conversation, TokenResponse
    PROVE  Conversation' /\ up' = up /\ \A q \in Roles : pc'[q] # "desync" \/ pc[q] = "desync"
<1>a. /\ S \in Roles /\ R \in Roles /\ S # R /\ Other(S) = R /\ Other(R) = S
      /\ \A q \in Roles : q = S \/ q = R
  BY TwoRoles
<1>b. pc \in [Roles -> Places] /\ NetOK BY TypeParts DEF ControlOK
<1>c. /\ \A k \in {"invalid", "pinRequired", "ok"} : Text(k) \in Messages /\ Text(k).k = k
      /\ <<>> \in Seq(Messages) /\ AfterReceiverPin.msgs \in Seq(Messages)
  BY MessageTypes, MsgLists, MessageFields, AfterPinTypes, TypeParts DEF Kinds
<1>d. net[S] # <<>> /\ pc[S] = "token" BY DEF TokenResponse, Take
<1>e. buf' = buf /\ up' = up BY DEF TokenResponse
<1>1. /\ Empty(R)
      /\ \/ At("token", "err") /\ Only(S, Text("invalid"))
         \/ At("token", "verify") /\ Only(S, Text("pinRequired"))
         \/ At("token", "list") /\ Only(S, Text("ok"))
  BY <1>d DEF Conversation, FirstChallenge, SecondChallenge, Failed, InFiles, At, Empty
<1>2. ASSUME NEW x \in Messages, Only(S, x), NEW msgs \in Seq(Messages), Take(S, Front(S), msgs)
      PROVE  Front(S) = x /\ net'[S] = <<>> /\ net'[R] = msgs
  BY <1>1, <1>2, SenderTakes
<1>3. \E k \in {"invalid", "pinRequired", "ok"} : Only(S, Text(k)) /\ Front(S).k = k /\ Front(S) = Text(k)
  BY <1>1, <1>a, <1>c, FrontOnly
<1>4. CASE /\ Front(S).k = "invalid" \/ ~cfg.trust[S]
           /\ Take(S, Front(S), <<>>) /\ Goto(S, "err")
  <2>1. net'[R] = <<>> BY <1>2, <1>3, <1>4, <1>c
  <2>2. pc' = [pc EXCEPT ![S] = "err"] BY <1>4 DEF Goto
  <2>3. Empty(R)' /\ pc'[S] = "err" /\ pc'[R] = pc[R]
    BY <1>a, <1>b, <1>e, <1>1, <2>1, <2>2 DEF Empty
  <2>4. pc[R] \in {"err", "verify", "list"} BY <1>1 DEF At
  <2>5. Failed' BY <2>3, <2>4 DEF Failed, At
  <2> QED BY <1>a, <1>e, <2>3, <2>4, <2>5 DEF Conversation
<1>5. CASE /\ Front(S).k = "pinRequired" /\ cfg.trust[S]
           /\ Take(S, Front(S), <<>>) /\ Goto(S, "ask")
  <2>1. net'[S] = <<>> /\ net'[R] = <<>> BY <1>2, <1>3, <1>5, <1>c
  <2>2. pc' = [pc EXCEPT ![S] = "ask"] BY <1>5 DEF Goto
  <2>3. At("token", "verify") /\ Only(S, Text("pinRequired"))
    BY <1>1, <1>3, <1>5, <1>a, <1>c, FrontOnly
  <2>4. At("ask", "verify")' /\ Idle'
    BY <1>a, <1>b, <1>e, <1>1, <2>1, <2>2, <2>3 DEF At, Idle, Empty, Only
  <2> QED BY <1>a, <1>e, <2>4 DEF Conversation, FirstChallenge, At
<1>6. CASE /\ Front(S).k = "ok" /\ cfg.trust[S]
           /\ Take(S, Front(S), AfterReceiverPin.msgs) /\ Goto(S, AfterReceiverPin.pc)
  <2>1. net'[S] = <<>> /\ net'[R] = AfterReceiverPin.msgs BY <1>2, <1>3, <1>6, <1>c
  <2>2. pc' = [pc EXCEPT ![S] = AfterReceiverPin.pc] BY <1>6 DEF Goto
  <2>3. At("token", "list") /\ Only(S, Text("ok"))
    BY <1>1, <1>3, <1>6, <1>a, <1>c, FrontOnly
  <2>4. pc[R] = "list" /\ buf[R] = <<>> /\ buf[S] = <<>> BY <2>3, <1>1 DEF At, Empty, Only
  <2>5. SecondChallenge' /\ \A q \in Roles : pc'[q] # "desync" \/ pc[q] = "desync"
    BY <1>e, <2>1, <2>2, <2>4, AfterPinTalk
  <2> QED BY <1>e, <2>5 DEF Conversation
<1> QED BY <1>4, <1>5, <1>6, Zenon DEF TokenResponse

(* A user gives a PIN to the task that asks for it. *)
LEMMA SendPinTalk ==
    ASSUME TypeOK, Conversation, NEW p \in Roles, SendPin(p)
    PROVE  Conversation' /\ up' = up /\ \A q \in Roles : pc'[q] # "desync" \/ pc[q] = "desync"
<1>a. /\ S \in Roles /\ R \in Roles /\ S # R /\ Other(S) = R /\ Other(R) = S
      /\ \A q \in Roles : q = S \/ q = R
  BY TwoRoles
<1>b. pc \in [Roles -> Places] /\ NetOK /\ net \in [Roles -> Seq(Messages)]
  BY TypeParts DEF ControlOK, NetOK
<1>c. PICK guess \in {"right", "wrong"} :
            /\ Send(p, <<Text(guess)>>)
            /\ proved' = IF guess = "right" THEN proved \cup {p} ELSE proved
  BY DEF SendPin
<1>d. <<Text(guess)>> \in Seq(Messages) BY MsgLists
<1>e. buf' = buf /\ up' = up /\ pc[p] = "ask" /\ pc' = [pc EXCEPT ![p] = "pinres"] BY DEF SendPin, Goto
<1>f. net'[Other(p)] = net[Other(p)] \o <<Text(guess)>> /\ net'[p] = net[p] BY <1>b, <1>c, <1>d, SendNet
<1>g. <<>> \o <<Text(guess)>> = <<Text(guess)>> OBVIOUS
<1>1. CASE p = S
  <2>1. At("ask", "verify") /\ Idle
    BY <1>1, <1>e DEF Conversation, FirstChallenge, SecondChallenge, Failed, InFiles, At
  <2>2. net'[S] = <<>> /\ net'[R] = <<Text(guess)>>
    BY <1>1, <1>a, <1>f, <1>g, <2>1 DEF Idle, Empty
  <2>3. At("pinres", "verify")' /\ Empty(S)' /\ Only(R, Text(guess))'
    BY <1>1, <1>a, <1>b, <1>e, <2>1, <2>2 DEF At, Idle, Only, Empty
  <2>4. Guess(R)' BY <1>1, <1>a, <1>c, <2>3 DEF Guess
  <2> QED BY <1>a, <1>e, <2>3, <2>4 DEF Conversation, FirstChallenge, At
<1>2. CASE p = R
  <2>1. At("verify", "ask") /\ Idle
    BY <1>2, <1>e DEF Conversation, FirstChallenge, SecondChallenge, Failed, InFiles, At
  <2>2. net'[R] = <<>> /\ net'[S] = <<Text(guess)>>
    BY <1>2, <1>a, <1>f, <1>g, <2>1 DEF Idle, Empty
  <2>3. At("verify", "pinres")' /\ Empty(R)' /\ Only(S, Text(guess))'
    BY <1>2, <1>a, <1>b, <1>e, <2>1, <2>2 DEF At, Idle, Only, Empty
  <2>4. Guess(S)' BY <1>2, <1>a, <1>c, <2>3 DEF Guess
  <2> QED BY <1>a, <1>e, <2>3, <2>4 DEF Conversation, SecondChallenge, At
<1> QED BY <1>1, <1>2, <1>a

(* A guess that passed was the right one. *)
LEMMA VerifyTalk ==
    ASSUME TypeOK, Conversation, NEW p \in Roles, VerifyPin(p)
    PROVE  /\ Conversation' /\ up' = up /\ \A q \in Roles : pc'[q] # "desync" \/ pc[q] = "desync"
           /\ pc'[p] = "list" => Other(p) \in proved
           /\ pc'[p] \in {"list", "err", "verify"} /\ pc[p] = "verify"
           /\ pc' = [pc EXCEPT ![p] = pc'[p]]
           /\ tries'[p] = IF pc'[p] = "list" THEN 0 ELSE tries[p] + 1
           /\ pc'[p] = "verify" => tries[p] + 1 < MaxTries
           /\ \A q \in Roles \ {p} : tries'[q] = tries[q]
<1>a. /\ S \in Roles /\ R \in Roles /\ S # R /\ Other(S) = R /\ Other(R) = S
      /\ \A q \in Roles : q = S \/ q = R
  BY TwoRoles
<1>b. pc \in [Roles -> Places] /\ NetOK /\ tries \in [Roles -> 0..MaxTries] /\ MaxTries \in Nat
  BY TypeParts, TransferAssumption DEF ControlOK, PinOK
<1>c. \A k \in {"right", "wrong"} : Text(k) \in Messages /\ Text(k).k = k
  BY MessageTypes, MessageFields DEF Kinds
<1>d. net[p] # <<>> /\ pc[p] = "verify" BY DEF VerifyPin
<1>e. buf' = buf /\ up' = up /\ proved' = proved BY DEF VerifyPin
<1>1. /\ Guess(p) /\ Empty(Other(p))
      /\ p = S => At("verify", "pinres")
      /\ p = R => At("pinres", "verify")
  <2>1. CASE p = S
    <3>1. pc[S] = "verify" /\ net[S] # <<>> BY <1>d, <2>1
    <3>2. At("verify", "pinres") /\ Guess(S) /\ Empty(R)
      BY <3>1 DEF Conversation, FirstChallenge, SecondChallenge, Failed, InFiles, At, Empty, Idle
    <3> QED BY <3>2, <2>1, <1>a
  <2>2. CASE p = R
    <3>1. pc[R] = "verify" /\ net[R] # <<>> BY <1>d, <2>2
    <3>2. At("pinres", "verify") /\ Guess(R) /\ Empty(S)
      BY <3>1 DEF Conversation, FirstChallenge, SecondChallenge, Failed, InFiles, At, Empty, Idle
    <3> QED BY <3>2, <2>2, <1>a
  <2> QED BY <2>1, <2>2, <1>a
<1>2. PICK k \in {"right", "wrong"} : Only(p, Text(k)) /\ (k = "right" => Other(p) \in proved)
  BY <1>1 DEF Guess
<1>3. Front(p) = Text(k) /\ Front(p).k = k BY <1>2, <1>c, FrontOnly
<1>4. /\ tries' = [tries EXCEPT ![p] = IF PinPasses(p, k) THEN 0 ELSE @ + 1]
      /\ \/ /\ PinPasses(p, k)
            /\ Take(p, Front(p), IF p = R THEN <<Text("ok")>> ELSE <<FileList(Files), Delimiter>>)
            /\ Goto(p, "list")
         \/ /\ ~PinPasses(p, k) /\ PinExhausted(p)
            /\ Take(p, Front(p), Verdict(p, "tooMany"))
            /\ Goto(p, "err")
         \/ /\ ~PinPasses(p, k) /\ ~PinExhausted(p)
            /\ Take(p, Front(p), Verdict(p, "pinRequired"))
            /\ UNCHANGED pc
  BY <1>3, Zenon DEF VerifyPin
<1>5. k = "right" <=> PinPasses(p, k) BY DEF PinPasses
<1>6. ASSUME NEW msgs \in Seq(Messages), Take(p, Front(p), msgs)
      PROVE  net'[p] = <<>> /\ net'[Other(p)] = msgs
  BY <1>1, <1>2, <1>a, <1>c, <1>6, SenderTakes, ReceiverTakes
<1>7. buf[S] = <<>> /\ buf[R] = <<>> BY <1>1, <1>2, <1>a DEF Empty, Only
<1>8. /\ \A k1 \in Kinds : <<Text(k1)>> \in Seq(Messages) /\ <<Bin(k1), Delimiter>> \in Seq(Messages)
      /\ <<FileList(Files), Delimiter>> \in Seq(Messages)
      /\ {"ok", "tooMany", "pinRequired"} \subseteq Kinds
      /\ \A k1 \in Kinds : Verdict(p, k1) = IF p = S THEN <<Bin(k1), Delimiter>> ELSE <<Text(k1)>>
  BY MsgLists, MessageTypes, Zenon DEF Verdict
<1>9. tries'[p] = (IF PinPasses(p, k) THEN 0 ELSE tries[p] + 1) /\ \A q \in Roles \ {p} : tries'[q] = tries[q]
  BY <1>4, <1>b
<1>10. CASE PinPasses(p, k) /\ Goto(p, "list")
            /\ Take(p, Front(p), IF p = R THEN <<Text("ok")>> ELSE <<FileList(Files), Delimiter>>)
  <2>1. pc' = [pc EXCEPT ![p] = "list"] /\ pc'[p] = "list" BY <1>10, <1>b DEF Goto
  <2>2. /\ net'[p] = <<>>
        /\ net'[Other(p)] = IF p = R THEN <<Text("ok")>> ELSE <<FileList(Files), Delimiter>>
    BY <1>10, <1>6, <1>8
  <2>3. CASE p = S
    <3>1. At("list", "pinres")' /\ Empty(S)' /\ Comes(R, FileList(Files))'
      BY <2>1, <2>2, <2>3, <1>1, <1>a, <1>b, <1>e, <1>7 DEF At, Empty, Comes
    <3> QED BY <3>1, <1>2, <1>5, <1>9, <1>10, <1>a, <1>d, <1>e, <2>1 DEF Conversation, SecondChallenge, At
  <2>4. CASE p = R
    <3>1. At("pinres", "list")' /\ Only(S, Text("ok"))' /\ Empty(R)'
      BY <2>1, <2>2, <2>4, <1>1, <1>a, <1>b, <1>e, <1>7 DEF At, Empty, Only
    <3> QED BY <3>1, <1>2, <1>5, <1>9, <1>10, <1>a, <1>d, <1>e, <2>1 DEF Conversation, FirstChallenge, At
  <2> QED BY <2>3, <2>4, <1>a
<1>11. CASE ~PinPasses(p, k) /\ Goto(p, "err") /\ Take(p, Front(p), Verdict(p, "tooMany"))
  <2>1. pc' = [pc EXCEPT ![p] = "err"] /\ pc'[p] = "err" BY <1>11, <1>b DEF Goto
  <2>2. /\ net'[p] = <<>>
        /\ net'[Other(p)] = IF p = S THEN <<Bin("tooMany"), Delimiter>> ELSE <<Text("tooMany")>>
    BY <1>11, <1>6, <1>8
  <2>3. CASE p = S
    <3>1. At("err", "pinres")' /\ Empty(S)' /\ Comes(R, Bin("tooMany"))'
      BY <2>1, <2>2, <2>3, <1>1, <1>a, <1>b, <1>e, <1>7 DEF At, Comes, Empty
    <3> QED BY <3>1, <1>9, <1>11, <1>a, <1>d, <1>e, <2>1 DEF Conversation, Failed, At
  <2>4. CASE p = R
    <3>1. At("pinres", "err")' /\ Only(S, Text("tooMany"))' /\ Empty(R)'
      BY <2>1, <2>2, <2>4, <1>1, <1>a, <1>b, <1>e, <1>7 DEF At, Empty, Only
    <3> QED BY <3>1, <1>9, <1>11, <1>a, <1>d, <1>e, <2>1 DEF Conversation, FirstChallenge, At
  <2> QED BY <2>3, <2>4, <1>a
<1>12. CASE ~PinPasses(p, k) /\ ~PinExhausted(p) /\ UNCHANGED pc
            /\ Take(p, Front(p), Verdict(p, "pinRequired"))
  <2>1. pc' = [pc EXCEPT ![p] = "verify"] /\ pc'[p] = "verify" BY <1>12, <1>b, <1>d
  <2>2. /\ net'[p] = <<>>
        /\ net'[Other(p)] = IF p = S THEN <<Bin("pinRequired"), Delimiter>> ELSE <<Text("pinRequired")>>
    BY <1>12, <1>6, <1>8
  <2>a. tries[p] + 1 < MaxTries BY <1>12, <1>b DEF PinExhausted
  <2>3. CASE p = S
    <3>1. At("verify", "pinres")' /\ Empty(S)' /\ Comes(R, Bin("pinRequired"))'
      BY <2>1, <2>2, <2>3, <1>1, <1>a, <1>b, <1>e, <1>7 DEF At, Comes, Empty
    <3> QED BY <3>1, <1>9, <1>12, <1>a, <1>d, <1>e, <2>1, <2>a DEF Conversation, SecondChallenge, At
  <2>4. CASE p = R
    <3>1. At("pinres", "verify")' /\ Only(S, Text("pinRequired"))' /\ Empty(R)'
      BY <2>1, <2>2, <2>4, <1>1, <1>a, <1>b, <1>e, <1>7 DEF At, Empty, Only
    <3> QED BY <3>1, <1>9, <1>12, <1>a, <1>d, <1>e, <2>1, <2>a DEF Conversation, FirstChallenge, At
  <2> QED BY <2>3, <2>4, <1>a
<1> QED BY <1>4, <1>10, <1>11, <1>12

(* A list is collected from its one chunk and parsed at its delimiter. *)
LEMMA ComesStep ==
    ASSUME TypeOK, NEW p \in Roles, NEW m \in Messages, m.bin = TRUE, Comes(p, m), net[Other(p)] = <<>>,
           Take(p, Front(p), <<>>)
    PROVE  /\ net'[Other(p)] = <<>>
           /\ Front(p).bin => Front(p) = m /\ buf[p] = <<>> /\ net'[p] = <<Delimiter>>
           /\ ~Front(p).bin => buf[p] = <<m>> /\ net'[p] = <<>> /\ Parsed(p) = m
<1>1. <<>> \in Seq(Messages) /\ Delimiter \in Messages /\ Delimiter.bin = FALSE /\ NetOK
  BY MsgLists, MessageTypes, MessageFields, TypeParts
<1>2. net'[p] = Tail(net[p]) /\ net'[Other(p)] = net[Other(p)] \o <<>> BY <1>1, TakeNet
<1>3. net'[Other(p)] = <<>> BY <1>2
<1>4. CASE buf[p] = <<>> /\ net[p] = <<m, Delimiter>>
  BY <1>1, <1>2, <1>3, <1>4, ShortFacts DEF Front
<1>5. CASE buf[p] = <<m>> /\ net[p] = <<Delimiter>>
  <2>1. Front(p) = Delimiter /\ net'[p] = <<>> BY <1>1, <1>2, <1>5, ShortFacts DEF Front
  <2>2. Parsed(p) = m BY <1>5, ShortFacts DEF Parsed
  <2> QED BY <1>1, <1>3, <1>5, <2>1, <2>2
<1> QED BY <1>4, <1>5 DEF Comes

(* What may be read as a list. *)
LEMMA ListsComing ==
    ASSUME TypeOK, Conversation, NEW p \in Roles, ReadsChunks(p), net[p] # <<>>
    PROVE  /\ net[Other(p)] = <<>> /\ buf[Other(p)] = <<>>
           /\ p = R => \/ /\ pc[S] = "verify" /\ Comes(R, Bin("pinRequired"))
                          /\ pc[R] \in {"list", "pinres"}
                       \/ pc[S] = "list" /\ Comes(R, FileList(Files)) /\ pc[R] \in {"list", "pinres"}
                       \/ At("err", "pinres") /\ Comes(R, Bin("tooMany"))
           /\ p = S => \/ At("list", "recv") /\ Comes(S, FileList(picked))
                       \/ At("list", "ok") /\ Comes(S, Bin("declined"))
<1>a. /\ S \in Roles /\ R \in Roles /\ S # R /\ Other(S) = R /\ Other(R) = S
      /\ \A q \in Roles : q = S \/ q = R
  BY TwoRoles
<1>1. CASE p = R
  <2>1. pc[R] \in {"list", "pinres"} /\ net[R] # <<>> BY <1>1, <1>a DEF ReadsChunks
  <2>2. \/ (At("verify", "list") \/ At("verify", "pinres")) /\ Empty(S) /\ Comes(R, Bin("pinRequired"))
        \/ (At("list", "list") \/ At("list", "pinres")) /\ Empty(S) /\ Comes(R, FileList(Files))
        \/ At("err", "pinres") /\ Empty(S) /\ Comes(R, Bin("tooMany"))
        \/ At("verify", "pinres") /\ Guess(S) /\ Empty(R)
    BY <2>1 DEF Conversation, FirstChallenge, SecondChallenge, Failed, InFiles, At, Empty, Idle
  <2> QED BY <2>1, <2>2, <1>1, <1>a DEF At, Empty
<1>2. CASE p = S
  <2>1. pc[S] = "list" /\ net[S] # <<>> BY <1>2, <1>a DEF ReadsChunks
  <2>2. \/ At("list", "recv") /\ Comes(S, FileList(picked)) /\ Empty(R)
        \/ At("list", "ok") /\ Comes(S, Bin("declined")) /\ Empty(R)
    BY <2>1 DEF Conversation, FirstChallenge, SecondChallenge, Failed, InFiles, At, Empty, Idle
  <2> QED BY <2>1, <2>2, <1>2, <1>a DEF At, Empty
<1> QED BY <1>1, <1>2, <1>a

(* A list is collected. *)
LEMMA CollectTalk ==
    ASSUME TypeOK, Conversation, NEW p \in Roles, Collect(p)
    PROVE  Conversation' /\ up' = up /\ pc' = pc
<1>a. /\ S \in Roles /\ R \in Roles /\ S # R /\ Other(S) = R /\ Other(R) = S
      /\ \A q \in Roles : q = S \/ q = R
  BY TwoRoles
<1>b. /\ buf \in [Roles -> Seq(Messages)] /\ picked \in SUBSET Ids /\ Files \in SUBSET Ids
      /\ {"pinRequired", "tooMany", "declined"} \subseteq Kinds
  BY TypeParts, MessageTypes DEF ControlOK, FilesOK, Kinds
<1>c. /\ ReadsChunks(p) /\ net[p] # <<>> /\ Front(p).bin /\ Take(p, Front(p), <<>>)
      /\ pc' = pc /\ up' = up /\ picked' = picked
  BY DEF Collect, fileVars, receiverVars
<1>d. buf' = [buf EXCEPT ![p] = Append(buf[p], Front(p))] BY Zenon DEF Collect
<1>1. ASSUME NEW m \in Messages, m.bin = TRUE, Comes(p, m), net[Other(p)] = <<>>, buf[Other(p)] = <<>>
      PROVE  /\ buf'[p] = <<m>> /\ net'[p] = <<Delimiter>>
             /\ net'[Other(p)] = <<>> /\ buf'[Other(p)] = <<>>
  <2>1. /\ net'[Other(p)] = <<>> /\ Front(p) = m /\ buf[p] = <<>> /\ net'[p] = <<Delimiter>>
    BY <1>1, <1>c, ComesStep
  <2>2. Append(<<>>, m) = <<m>> BY ShortFacts
  <2> QED BY <1>1, <1>b, <1>d, <2>1, <2>2, TwoRoles
<1>2. /\ \A k \in {"pinRequired", "tooMany", "declined"} : Bin(k) \in Messages /\ Bin(k).bin = TRUE
      /\ FileList(Files) \in Messages /\ FileList(picked) \in Messages
      /\ FileList(Files).bin = TRUE /\ FileList(picked).bin = TRUE
  BY <1>b, MessageTypes, MessageFields
<1>3. net[Other(p)] = <<>> /\ buf[Other(p)] = <<>> BY <1>c, ListsComing
<1>4. CASE p = R
  <2>1. ASSUME NEW m \in Messages, m.bin = TRUE, Comes(R, m)
        PROVE  Comes(R, m)' /\ Empty(S)'
    BY <2>1, <1>1, <1>3, <1>4, <1>a DEF Comes, Empty
  <2>2. CASE pc[S] = "verify" /\ Comes(R, Bin("pinRequired")) /\ pc[R] \in {"list", "pinres"}
    <3>1. Comes(R, Bin("pinRequired"))' /\ Empty(S)' BY <2>1, <2>2, <1>2
    <3> QED BY <3>1, <2>2, <1>c DEF Conversation, SecondChallenge, At
  <2>3. CASE pc[S] = "list" /\ Comes(R, FileList(Files)) /\ pc[R] \in {"list", "pinres"}
    <3>1. Comes(R, FileList(Files))' /\ Empty(S)' BY <2>1, <2>3, <1>2
    <3> QED BY <3>1, <2>3, <1>c DEF Conversation, SecondChallenge, At
  <2>4. CASE At("err", "pinres") /\ Comes(R, Bin("tooMany"))
    <3>1. Comes(R, Bin("tooMany"))' /\ Empty(S)' BY <2>1, <2>4, <1>2
    <3> QED BY <3>1, <2>4, <1>c DEF Conversation, Failed, At
  <2> QED BY <1>4, <1>c, <2>2, <2>3, <2>4, ListsComing
<1>5. CASE p = S
  <2>1. ASSUME NEW m \in Messages, m.bin = TRUE, Comes(S, m)
        PROVE  Comes(S, m)' /\ Empty(R)'
    BY <2>1, <1>1, <1>3, <1>5, <1>a DEF Comes, Empty
  <2>2. CASE At("list", "recv") /\ Comes(S, FileList(picked))
    <3>1. Comes(S, FileList(picked))' /\ Empty(R)'
      <4>1. Empty(R)' BY <2>1, <2>2, <1>2
      <4>2. buf'[S] = <<FileList(picked)>> /\ net'[S] = <<Delimiter>>
        BY <2>2, <1>1, <1>2, <1>3, <1>5
      <4> QED BY <4>1, <4>2, <1>c DEF Comes
    <3> QED BY <3>1, <2>2, <1>c DEF Conversation, SecondChallenge, At
  <2>3. CASE At("list", "ok") /\ Comes(S, Bin("declined"))
    <3>1. Comes(S, Bin("declined"))' /\ Empty(R)' BY <2>1, <2>3, <1>2
    <3> QED BY <3>1, <2>3, <1>c DEF Conversation, SecondChallenge, At
  <2> QED BY <1>5, <1>c, <2>2, <2>3, ListsComing
<1> QED BY <1>4, <1>5, <1>a, <1>c

(* The receiver's list is parsed as what it is, and shown only when it is the list of files. *)
LEMMA ReceiverListTalk ==
    ASSUME TypeOK, Conversation, ReceiverList
    PROVE  /\ Conversation' /\ up' = up /\ \A q \in Roles : pc'[q] # "desync" \/ pc[q] = "desync"
           /\ pc[R] \in {"list", "pinres"} /\ pc'[S] = pc[S]
           /\ pc'[R] \in {"select", "ask", "err"}
           /\ listed' => pc[S] = "list"
<1>a. /\ S \in Roles /\ R \in Roles /\ S # R /\ Other(S) = R /\ Other(R) = S
      /\ \A q \in Roles : q = S \/ q = R
  BY TwoRoles
<1>b. /\ buf \in [Roles -> Seq(Messages)] /\ Files \in SUBSET Ids /\ pc \in [Roles -> Places]
      /\ {"pinRequired", "tooMany"} \subseteq Kinds
  BY TypeParts, MessageTypes DEF ControlOK, Kinds
<1>c. /\ ReadsChunks(R) /\ net[R] # <<>> /\ ~Front(R).bin /\ Take(R, Front(R), <<>>)
      /\ buf' = [buf EXCEPT ![R] = <<>>] /\ up' = up /\ pc[R] \in {"list", "pinres"}
  BY <1>a DEF ReceiverList, ChunksEnd, ReadsChunks
<1> DEFINE o == PinOutcome(Parsed(R).k, [pc |-> "select", say |-> "Connected"])
<1>d. pc' = [pc EXCEPT ![R] = o.pc] /\ listed' = (Parsed(R).k = "ok")
  BY Zenon DEF ReceiverList, Goto
<1>e. /\ Bin("pinRequired") \in Messages /\ Bin("tooMany") \in Messages /\ FileList(Files) \in Messages
      /\ Bin("pinRequired").k = "pinRequired" /\ Bin("tooMany").k = "tooMany" /\ FileList(Files).k = "ok"
      /\ Bin("pinRequired").bin = TRUE /\ Bin("tooMany").bin = TRUE /\ FileList(Files).bin = TRUE
  BY <1>b, MessageTypes, MessageFields
<1>1. net[S] = <<>> /\ buf[S] = <<>> BY <1>a, <1>c, ListsComing
<1>2. ASSUME NEW m \in Messages, m.bin = TRUE, Comes(R, m)
      PROVE  Parsed(R) = m /\ Empty(R)' /\ Empty(S)'
  <2>1. net'[S] = <<>> /\ net'[R] = <<>> /\ Parsed(R) = m BY <1>2, <1>1, <1>a, <1>c, ComesStep
  <2>2. buf'[R] = <<>> /\ buf'[S] = <<>> BY <1>a, <1>b, <1>c, <1>1
  <2> QED BY <2>1, <2>2 DEF Empty
<1>3. \/ pc[S] = "verify" /\ Comes(R, Bin("pinRequired"))
      \/ pc[S] = "list" /\ Comes(R, FileList(Files))
      \/ At("err", "pinres") /\ Comes(R, Bin("tooMany"))
  BY <1>a, <1>c, ListsComing
<1>4. CASE pc[S] = "verify" /\ Comes(R, Bin("pinRequired"))
  <2>1. Parsed(R).k = "pinRequired" /\ Empty(R)' /\ Empty(S)' BY <1>2, <1>4, <1>e
  <2>2. o.pc = "ask" BY <2>1, PinOutcomeCases
  <2> HIDE DEF o
  <2>3. pc'[R] = "ask" /\ pc'[S] = "verify" /\ ~listed' BY <1>a, <1>b, <1>4, <1>d, <2>1, <2>2
  <2> QED BY <1>a, <1>4, <1>c, <2>1, <2>3 DEF Conversation, SecondChallenge, At, Idle
<1>5. CASE pc[S] = "list" /\ Comes(R, FileList(Files))
  <2>1. Parsed(R).k = "ok" /\ Empty(R)' /\ Empty(S)' BY <1>2, <1>5, <1>e
  <2>2. o.pc = "select" BY <2>1, PinOutcomeCases
  <2> HIDE DEF o
  <2>3. pc'[R] = "select" /\ pc'[S] = "list" BY <1>a, <1>b, <1>5, <1>d, <2>2
  <2> QED BY <1>a, <1>5, <1>c, <2>1, <2>3 DEF Conversation, SecondChallenge, At, Idle
<1>6. CASE At("err", "pinres") /\ Comes(R, Bin("tooMany"))
  <2>1. Parsed(R).k = "tooMany" /\ Empty(R)' /\ Empty(S)' BY <1>2, <1>6, <1>e
  <2>2. o.pc = "err" BY <2>1, PinOutcomeCases
  <2> HIDE DEF o
  <2>3. pc'[R] = "err" /\ pc'[S] = "err" /\ ~listed' BY <1>a, <1>b, <1>6, <1>d, <2>1, <2>2 DEF At
  <2> QED BY <1>a, <1>6, <1>c, <2>1, <2>3 DEF Conversation, Failed, At, Idle
<1> QED BY <1>3, <1>4, <1>5, <1>6

(* The receiver's verdict on a PIN is parsed as what it is. *)
LEMMA SenderPinResultTalk ==
    ASSUME TypeOK, Conversation, SenderPinResult
    PROVE  /\ Conversation' /\ up' = up /\ \A q \in Roles : pc'[q] # "desync" \/ pc[q] = "desync"
           /\ pc[S] = "pinres" /\ pc'[R] = pc[R]
           /\ pc'[S] \in {"ask", "err"} \/ pc'[S] = AfterReceiverPin.pc
<1>a. /\ S \in Roles /\ R \in Roles /\ S # R /\ Other(S) = R /\ Other(R) = S
      /\ \A q \in Roles : q = S \/ q = R
  BY TwoRoles
<1>b. pc \in [Roles -> Places] /\ NetOK BY TypeParts DEF ControlOK
<1>c. /\ \A k \in {"tooMany", "pinRequired", "ok"} :
           Text(k) \in Messages /\ Text(k).k = k /\ Text(k).bin = FALSE
      /\ <<>> \in Seq(Messages) /\ AfterReceiverPin.msgs \in Seq(Messages)
  BY MessageTypes, MsgLists, MessageFields, AfterPinTypes, TypeParts DEF Kinds
<1>d. net[S] # <<>> /\ pc[S] = "pinres" BY DEF SenderPinResult, Take
<1>e. buf' = buf /\ up' = up BY DEF SenderPinResult
<1> DEFINE k == IF Front(S).bin THEN "chunk" ELSE Front(S).k
           o == PinOutcome(k, [pc |-> AfterReceiverPin.pc, say |-> AfterReceiverPin.say])
<1>f. /\ Take(S, Front(S), IF Front(S) = Text("ok") THEN AfterReceiverPin.msgs ELSE <<>>)
      /\ pc' = [pc EXCEPT ![S] = o.pc]
  BY Zenon DEF SenderPinResult, Goto
<1>1. /\ Empty(R)
      /\ \/ At("pinres", "err") /\ Only(S, Text("tooMany"))
         \/ At("pinres", "verify") /\ Only(S, Text("pinRequired"))
         \/ At("pinres", "list") /\ Only(S, Text("ok"))
  BY <1>d DEF Conversation, FirstChallenge, SecondChallenge, Failed, InFiles, At, Empty
<1>2. ASSUME NEW x \in Messages, Only(S, x)
      PROVE  /\ Front(S) = x /\ net'[S] = <<>>
             /\ net'[R] = (IF x = Text("ok") THEN AfterReceiverPin.msgs ELSE <<>>)
  <2>1. (IF Front(S) = Text("ok") THEN AfterReceiverPin.msgs ELSE <<>>) \in Seq(Messages) BY <1>c
  <2> QED BY <1>1, <1>2, <1>f, <2>1, SenderTakes
<1>3. CASE At("pinres", "err") /\ Only(S, Text("tooMany"))
  <2>1. Front(S) = Text("tooMany") /\ net'[S] = <<>> /\ Text("tooMany") # Text("ok") BY <1>2, <1>3, <1>c
  <2>2. k = "tooMany" BY <2>1, <1>c
  <2>3. o.pc = "err" BY <2>2, PinOutcomeCases
  <2> HIDE DEF o, k
  <2>4. At("err", "err")' BY <1>3, <1>a, <1>b, <1>f, <2>3 DEF At
  <2> QED BY <1>a, <1>d, <1>e, <1>3, <2>4 DEF Conversation, Failed, At
<1>4. CASE At("pinres", "verify") /\ Only(S, Text("pinRequired"))
  <2>1. /\ Front(S) = Text("pinRequired") /\ net'[S] = <<>> /\ net'[R] = <<>>
    BY <1>2, <1>4, <1>c
  <2>2. k = "pinRequired" BY <2>1, <1>c
  <2>3. o.pc = "ask" BY <2>2, PinOutcomeCases
  <2> HIDE DEF o, k
  <2>4. At("ask", "verify")' BY <1>4, <1>a, <1>b, <1>f, <2>3 DEF At
  <2>5. Idle' BY <1>4, <1>1, <1>e, <2>1 DEF Idle, Empty, Only
  <2> QED BY <1>a, <1>d, <1>e, <1>4, <2>4, <2>5 DEF Conversation, FirstChallenge, At
<1>5. CASE At("pinres", "list") /\ Only(S, Text("ok"))
  <2>1. /\ Front(S) = Text("ok") /\ net'[S] = <<>> /\ net'[R] = AfterReceiverPin.msgs
    BY <1>2, <1>5, <1>c
  <2>2. k = "ok" BY <2>1, <1>c
  <2>3. o.pc = AfterReceiverPin.pc BY <2>2, PinOutcomeCases
  <2> HIDE DEF o, k
  <2>4. pc' = [pc EXCEPT ![S] = AfterReceiverPin.pc] BY <1>f, <2>3
  <2>5. pc[R] = "list" /\ buf[R] = <<>> /\ buf[S] = <<>> BY <1>5, <1>1 DEF At, Empty, Only
  <2>6. SecondChallenge' /\ \A q \in Roles : pc'[q] # "desync" \/ pc[q] = "desync"
    BY <1>e, <2>1, <2>4, <2>5, AfterPinTalk
  <2> QED BY <1>a, <1>b, <1>d, <1>e, <2>4, <2>6 DEF Conversation
<1> QED BY <1>1, <1>3, <1>4, <1>5

(* The receiver's answer is parsed as what it is. *)
LEMMA SenderListTalk ==
    ASSUME TypeOK, Conversation, SenderList
    PROVE  /\ Conversation' /\ up' = up /\ \A q \in Roles : pc'[q] # "desync" \/ pc[q] = "desync"
           /\ pc[S] = "list" /\ pc'[R] = pc[R]
           /\ pc'[S] \in {"send", "ok"} /\ (pc'[S] = "send" => tokens' = picked')
           /\ net'[R] = <<>>
<1>a. /\ S \in Roles /\ R \in Roles /\ S # R /\ Other(S) = R /\ Other(R) = S
      /\ \A q \in Roles : q = S \/ q = R
  BY TwoRoles
<1>b. /\ buf \in [Roles -> Seq(Messages)] /\ picked \in SUBSET Ids /\ pc \in [Roles -> Places]
      /\ "declined" \in Kinds
  BY TypeParts DEF ControlOK, FilesOK, Kinds
<1>c. /\ ReadsChunks(S) /\ net[S] # <<>> /\ ~Front(S).bin /\ Take(S, Front(S), <<>>)
      /\ up' = up /\ pc[S] = "list" /\ picked' = picked
  BY <1>a DEF SenderList, ChunksEnd, ReadsChunks, receiverVars
<1>d. /\ pc' = [pc EXCEPT ![S] = CASE Parsed(S).k = "ok" -> "send"
                                   [] Parsed(S).k = "declined" -> "ok" [] OTHER -> "desync"]
      /\ tokens' = Parsed(S).s
  BY Zenon DEF SenderList, Goto
<1>1. /\ \/ At("list", "recv") /\ Comes(S, FileList(picked))
         \/ At("list", "ok") /\ Comes(S, Bin("declined"))
      /\ net[R] = <<>> /\ buf[R] = <<>>
  BY <1>a, <1>c, ListsComing
<1>2. ASSUME NEW m \in Messages, m.bin = TRUE, Comes(S, m)
      PROVE  Parsed(S) = m /\ net'[R] = <<>>
  BY <1>2, <1>1, <1>a, <1>c, ComesStep
<1>3. CASE At("list", "recv") /\ Comes(S, FileList(picked))
  <2>1. Parsed(S) = FileList(picked) /\ net'[R] = <<>>
    BY <1>2, <1>3, <1>b, MessageTypes, MessageFields
  <2>2. Parsed(S).k = "ok" /\ Parsed(S).s = picked BY <2>1, MessageFields
  <2>3. pc'[S] = "send" /\ pc'[R] = "recv" /\ tokens' = picked' BY <1>a, <1>b, <1>c, <1>d, <1>3, <2>2 DEF At
  <2> QED BY <1>a, <1>c, <1>3, <2>1, <2>3 DEF Conversation, InFiles, At
<1>4. CASE At("list", "ok") /\ Comes(S, Bin("declined"))
  <2>1. Parsed(S) = Bin("declined") /\ net'[R] = <<>>
    BY <1>2, <1>4, <1>b, MessageTypes, MessageFields
  <2>2. Parsed(S).k = "declined" BY <2>1, MessageFields
  <2>3. pc'[S] = "ok" /\ pc'[R] = "ok" BY <1>a, <1>b, <1>d, <1>4, <2>2 DEF At
  <2> QED BY <1>a, <1>c, <1>4, <2>1, <2>3 DEF Conversation, InFiles, At
<1> QED BY <1>1, <1>3, <1>4

(* The receiver answers the list, or not. *)
LEMMA AnswerTalk ==
    ASSUME TypeOK, Conversation, Decline \/ Abandon \/ \E sel \in SUBSET Ids : Select(sel), up = "open"
    PROVE  /\ Conversation' /\ up' = up /\ \A q \in Roles : pc'[q] # "desync" \/ pc[q] = "desync"
           /\ net'[R] = <<>> /\ pc[S] = "list"
<1>a. /\ S \in Roles /\ R \in Roles /\ S # R /\ Other(S) = R /\ Other(R) = S
      /\ \A q \in Roles : q = S \/ q = R
  BY TwoRoles
<1>b. pc \in [Roles -> Places] /\ NetOK /\ net \in [Roles -> Seq(Messages)]
  BY TypeParts DEF ControlOK, NetOK
<1>1. pc[R] = "select" BY DEF Decline, Abandon, Select
<1>2. At("list", "select") /\ Idle
  BY <1>1 DEF Conversation, FirstChallenge, SecondChallenge, Failed, InFiles, At
<1>3. buf' = buf /\ up' = up BY DEF Decline, Abandon, Select
<1>4. buf'[R] = <<>> /\ buf'[S] = <<>> BY <1>2, <1>3 DEF Idle, Empty
<1>5. ASSUME NEW msgs \in Seq(Messages), Send(R, msgs)
      PROVE  net'[R] = <<>> /\ net'[S] = msgs
  <2>1. net'[Other(R)] = net[Other(R)] \o msgs /\ net'[R] = net[R] BY <1>5, <1>a, <1>b, SendNet
  <2>2. net[S] = <<>> /\ net[R] = <<>> BY <1>2 DEF Idle, Empty
  <2> QED BY <1>a, <2>1, <2>2, ConcatEmptySeq
<1>6. CASE Decline
  <2>1. <<Bin("declined"), Delimiter>> \in Seq(Messages) BY MsgLists
  <2>2. net'[R] = <<>> /\ net'[S] = <<Bin("declined"), Delimiter>> BY <1>5, <1>6, <2>1 DEF Decline
  <2>3. pc' = [pc EXCEPT ![R] = "ok"] BY <1>6 DEF Decline, Goto
  <2>4. At("list", "ok")' /\ Comes(S, Bin("declined"))' /\ Empty(R)'
    BY <1>a, <1>b, <1>2, <1>4, <2>2, <2>3 DEF At, Comes, Empty
  <2> QED BY <1>a, <1>2, <1>3, <2>2, <2>4 DEF Conversation, SecondChallenge, At
<1>7. CASE Abandon
  <2>1. net' = net /\ pc' = [pc EXCEPT ![R] = "ok"] BY <1>7 DEF Abandon, Goto, netVars
  <2>2. At("list", "ok")' /\ Empty(S)' /\ Empty(R)'
    BY <1>a, <1>b, <1>2, <1>4, <2>1 DEF At, Idle, Empty
  <2> QED BY <1>a, <1>2, <1>3, <2>1, <2>2 DEF Conversation, SecondChallenge, At, Empty
<1>8. ASSUME NEW sel \in SUBSET Ids, Select(sel)
      PROVE  /\ Conversation' /\ \A q \in Roles : pc'[q] # "desync" \/ pc[q] = "desync"
             /\ net'[R] = <<>> /\ pc[S] = "list"
  <2>1. <<FileList(sel), Delimiter>> \in Seq(Messages) BY MsgLists
  <2>2. net'[R] = <<>> /\ net'[S] = <<FileList(sel), Delimiter>> BY <1>5, <1>8, <2>1 DEF Select
  <2>3. pc' = [pc EXCEPT ![R] = "recv"] /\ picked' = sel BY <1>8 DEF Select, Goto
  <2>4. Comes(S, FileList(picked))' BY <1>4, <2>2, <2>3 DEF Comes
  <2>5. At("list", "recv")' /\ Empty(R)' BY <1>a, <1>b, <1>2, <1>4, <2>2, <2>3 DEF At, Empty
  <2> QED BY <1>a, <1>2, <2>2, <2>4, <2>5 DEF Conversation, SecondChallenge, At
<1> QED BY <1>3, <1>6, <1>7, <1>8

(* The channel opens with the sender's nonce. *)
LEMMA OpenTalk ==
    ASSUME TypeOK, Talking, OpenChannel
    PROVE  Conversation' /\ up' = "open" /\ At("nonce", "nonce")' /\ At("closed", "closed")
           /\ net'[R] = <<Text("nonce")>>
<1>a. S \in Roles /\ R \in Roles /\ S # R /\ Other(S) = R /\ Other(R) = S BY TwoRoles
<1>b. NetOK /\ net \in [Roles -> Seq(Messages)] /\ <<Text("nonce")>> \in Seq(Messages)
  BY TypeParts, MsgLists DEF NetOK
<1>1. At("closed", "closed") /\ Idle BY DEF Talking, OpenChannel
<1>2. /\ up' = "open" /\ buf' = buf /\ pc' = [p \in Roles |-> "nonce"] /\ Send(S, <<Text("nonce")>>)
  BY DEF OpenChannel
<1>3. net'[R] = net[R] \o <<Text("nonce")>> /\ net'[S] = net[S] BY <1>a, <1>b, <1>2, SendNet
<1>4. <<>> \o <<Text("nonce")>> = <<Text("nonce")>> OBVIOUS
<1>5. At("nonce", "nonce")' /\ Empty(S)' /\ Only(R, Text("nonce"))'
  BY <1>a, <1>1, <1>2, <1>3, <1>4 DEF At, Idle, Empty, Only
<1> QED BY <1>1, <1>2, <1>5 DEF Conversation, FirstChallenge, Only

-----------------------------------------------------------------------------
(* Kinds of steps *)

\* The calls of the application go on; the tasks and the channel do not.
Quiet == UNCHANGED <<cfg, pc, net, acked, up, buf, tries, proved, listed, picked, tokens, asked, cur,
                     open, sent, got, over, todo, results, answered>>
\* The connection is closed or breaks.
Closing == /\ up' = "down" /\ Cut
           /\ UNCHANGED <<cfg, pc, acked, buf, tries, proved, listed, picked, tokens, asked, cur,
                          open, sent, got, over, todo, results, answered>>
HandStep ==
    \/ TokenRequest \/ TokenResponse \/ ReceiverList \/ SenderPinResult \/ SenderList
    \/ \E p \in Roles : NonceStep(p) \/ SendPin(p) \/ Collect(p) \/ VerifyPin(p)
AnswerStep == Decline \/ Abandon \/ \E sel \in SUBSET Ids : Select(sel)
SendingStep == SendChunk \/ CloseSending \/ Flush \/ Drain \/ \E f \in Ids : SendFile(f)
ReadingStep == RecvHeader \/ FileEnds \/ RecvChunk \/ FileResult
RatingStep == \E f \in Ids : Rate(f)

(* Every step is of one of these kinds. *)
LEMMA StepKinds ==
    [Next]_vars => \/ Quiet \/ Closing \/ OpenChannel \/ HandStep \/ AnswerStep \/ SendingStep
                   \/ ReadingStep \/ RatingStep \/ \E p \in Roles : TaskFails(p)
<1>1. UNCHANGED vars => Quiet
  BY DEF vars, Quiet, netVars, pinVars, fileVars, senderVars, receiverVars
<1>2. SendOffer \/ Register \/ LoseOffer \/ AcceptOffer \/ HearAnswer \/ SetRemote => Quiet
  BY DEF SendOffer, Register, LoseOffer, AcceptOffer, HearAnswer, SetRemote, Quiet, netVars,
         pinVars, fileVars, senderVars, receiverVars
<1>3. ASSUME NEW p \in Roles PROVE MainFails(p) \/ MainLeft(p) => Quiet
  BY DEF MainFails, MainLeft, Quiet, netVars, pinVars, fileVars, senderVars, receiverVars
<1>4. Disconnect => Closing
  BY DEF Disconnect, Closing, netVars, pinVars, fileVars, senderVars, receiverVars
<1>5. ASSUME NEW p \in Roles PROVE MainDone(p) => Closing
  BY DEF MainDone, Closing, netVars, pinVars, fileVars, senderVars, receiverVars
<1>6. ASSUME NEW p \in Roles PROVE MainStep(p) => Quiet \/ Closing BY <1>3, <1>5 DEF MainStep
<1>7. SenderStep => HandStep \/ SendingStep \/ \E p \in Roles : TaskFails(p)
  BY TwoRoles DEF SenderStep, HandStep, SendingStep
<1>8. ReceiverStep => HandStep \/ ReadingStep \/ \E p \in Roles : TaskFails(p)
  BY TwoRoles DEF ReceiverStep, HandStep, ReadingStep
<1>9. UserStep => Quiet \/ HandStep \/ AnswerStep \/ SendingStep \/ RatingStep
  BY <1>2 DEF UserStep, HandStep, AnswerStep, SendingStep, RatingStep
<1>10. SignalStep \/ LoseOffer => Quiet BY <1>2 DEF SignalStep
<1> QED BY <1>1, <1>4, <1>6, <1>7, <1>8, <1>9, <1>10 DEF Next

(* Every step of the first half is taken while the channel is open. *)
LEMMA HandOpen == HandStep => up = "open"
BY DEF HandStep, TokenRequest, TokenResponse, ReceiverList, SenderPinResult, SenderList, NonceStep,
       SendPin, Collect, VerifyPin, ChunksEnd, Take

(* The steps of the first half keep the conversation. *)
LEMMA HandTalk ==
    ASSUME TypeOK, Conversation, HandStep
    PROVE  Conversation' /\ up' = up /\ \A q \in Roles : pc'[q] # "desync" \/ pc[q] = "desync"
<1>1. ASSUME NEW p \in Roles, NonceStep(p) \/ SendPin(p) \/ Collect(p) \/ VerifyPin(p)
      PROVE  Conversation' /\ up' = up /\ \A q \in Roles : pc'[q] # "desync" \/ pc[q] = "desync"
  BY <1>1, NonceTalk, SendPinTalk, CollectTalk, VerifyTalk
<1>2. CASE TokenRequest BY <1>2, TokenRequestTalk
<1>3. CASE TokenResponse BY <1>3, TokenResponseTalk
<1>4. CASE ReceiverList BY <1>4, ReceiverListTalk
<1>5. CASE SenderPinResult BY <1>5, SenderPinResultTalk
<1>6. CASE SenderList BY <1>6, SenderListTalk
<1> QED BY <1>1, <1>2, <1>3, <1>4, <1>5, <1>6 DEF HandStep

(* Where the sender stands before and after a step of sending. *)
LEMMA SendingPlaces ==
    ASSUME TypeOK, SendingStep
    PROVE  /\ pc[S] \in {"send", "file", "flush", "drain"}
           /\ pc'[S] \in {"send", "file", "flush", "drain", "ok"} /\ pc'[R] = pc[R]
           /\ up' = up /\ buf' = buf
           /\ pc[S] = "drain" => pc'[S] = "ok"
<1>a. S \in Roles /\ R \in Roles /\ S # R BY TwoRoles
<1>b. pc \in [Roles -> Places] BY TypeParts DEF ControlOK
<1>1. ASSUME NEW f \in Ids, SendFile(f)
      PROVE  pc[S] = "send" /\ (pc' = pc \/ pc' = [pc EXCEPT ![S] = "file"]) /\ up' = up /\ buf' = buf
  BY <1>1 DEF SendFile, Goto
<1>2. SendChunk => pc[S] = "file" /\ (pc' = pc \/ pc' = [pc EXCEPT ![S] = "send"]) /\ up' = up /\ buf' = buf
  BY DEF SendChunk, Goto
<1>3. CloseSending => pc[S] = "send" /\ pc' = [pc EXCEPT ![S] = "flush"] /\ up' = up /\ buf' = buf
  BY DEF CloseSending, Goto
<1>4. Flush => pc[S] = "flush" /\ pc' = [pc EXCEPT ![S] = "drain"] /\ up' = up /\ buf' = buf
  BY DEF Flush, Goto
<1>5. Drain => pc[S] = "drain" /\ pc' = [pc EXCEPT ![S] = "ok"] /\ up' = up /\ buf' = buf
  BY DEF Drain, Goto
<1>6. CASE \E f \in Ids : SendFile(f) BY <1>a, <1>b, <1>1, <1>6
<1>7. CASE SendChunk BY <1>a, <1>b, <1>2, <1>7
<1>8. CASE CloseSending BY <1>a, <1>b, <1>3, <1>8
<1>9. CASE Flush BY <1>a, <1>b, <1>4, <1>9
<1>10. CASE Drain BY <1>a, <1>b, <1>5, <1>10
<1> QED BY <1>6, <1>7, <1>8, <1>9, <1>10 DEF SendingStep

(* Where the receiver stands before and after a step of reading. *)
LEMMA ReadingPlaces ==
    ASSUME TypeOK, Receiving, ReadingStep
    PROVE  /\ pc[R] \in {"recv", "result"} /\ net[R] # <<>>
           /\ pc'[R] \in {"recv", "result", "ok", "desync"} /\ pc'[S] = pc[S]
           /\ up' = up /\ buf' = buf /\ net[R] \in Seq(Messages)
           /\ Front(R) \in Messages /\ Front(R) = net[R][1] /\ 1 \in DOMAIN net[R]
           /\ Front(R) \in Stream \cup {Delimiter}
           /\ pc'[R] = "desync" => Front(R) = Delimiter
           /\ Front(R) = Delimiter => pc[S] \in {"drain", "ok", "err"}
<1>a. S \in Roles /\ R \in Roles /\ S # R BY TwoRoles
<1>b. pc \in [Roles -> Places] /\ net[R] \in Seq(Messages) BY <1>a, TypeParts DEF ControlOK, NetOK
<1>1. pc[R] \in {"recv", "result"} /\ net[R] # <<>> /\ up' = up /\ buf' = buf
  BY DEF ReadingStep, RecvHeader, FileEnds, RecvChunk, FileResult, Receiving
<1>2. Front(R) \in Messages /\ Front(R) = net[R][1] /\ 1 \in DOMAIN net[R]
  BY <1>b, <1>1, TailFacts DEF Front
<1>3. /\ Front(R) \in Stream \cup {Delimiter}
      /\ Front(R) = Delimiter => pc[S] \in {"drain", "ok", "err"}
  BY <1>1, <1>2 DEF Receiving
<1>4. ASSUME StartFile(Front(R))
      PROVE  pc' = [pc EXCEPT ![R] = "recv"] \/ (pc' = [pc EXCEPT ![R] = "desync"] /\ Front(R) = Delimiter)
  <2>1. pc' = [pc EXCEPT ![R] = IF Front(R).k = "header" THEN "recv" ELSE "desync"]
    BY <1>2, <1>4, StartFileCases
  <2>2. CASE Front(R).k = "header" BY <2>1, <2>2
  <2>3. CASE Front(R) = Delimiter BY <2>1, <2>3, MessageFields
  <2>4. CASE Front(R) \in Stream /\ Front(R).k # "header"
    <3>1. Front(R).k = "chunk" /\ Front(R).bin = TRUE BY <2>4, StreamFacts, MessageFields
    <3>2. ~Front(R).bin \/ (pc[R] = "result" /\ up = "open") BY <1>4, <2>1, <3>1, <1>a, <1>b DEF ReadingStep, RecvHeader, FileEnds, RecvChunk, FileResult
    <3>3. ~Front(R).bin BY <1>2, <3>2 DEF Receiving
    <3> QED BY <3>1, <3>3
  <2> QED BY <1>3, <2>2, <2>3, <2>4
<1>5. \/ pc' = pc \/ pc' = [pc EXCEPT ![R] = "result"] \/ pc' = [pc EXCEPT ![R] = "ok"]
      \/ StartFile(Front(R))
  BY DEF ReadingStep, RecvHeader, FileEnds, RecvChunk, FileResult, Goto
<1>6. \/ pc' = pc
      \/ \E l \in {"result", "ok", "recv"} : pc' = [pc EXCEPT ![R] = l]
      \/ pc' = [pc EXCEPT ![R] = "desync"] /\ Front(R) = Delimiter
  BY <1>4, <1>5
<1>7. /\ pc'[R] \in {"recv", "result", "ok", "desync"} /\ pc'[S] = pc[S]
      /\ pc'[R] = "desync" => Front(R) = Delimiter
  BY <1>a, <1>b, <1>1, <1>6
<1> QED BY <1>b, <1>1, <1>2, <1>3, <1>7

(* The conversation goes on as it should. *)
LEMMA TalkingStep ==
    ASSUME TypeOK, Talking, Receiving, [Next]_vars
    PROVE  Talking'
<1>a. S \in Roles /\ R \in Roles /\ S # R BY TwoRoles
<1>b. pc \in [Roles -> Places] /\ up \in {"new", "open", "down"} BY TypeParts DEF ControlOK
<1>1. CASE Quiet
  <2>1. Idle' <=> Idle BY <1>1 DEF Quiet, Idle, Empty
  <2>2. Conversation' <=> Conversation
    BY <1>1 DEF Quiet, Conversation, FirstChallenge, SecondChallenge, Failed, InFiles, At, Idle, Empty,
                Only, Comes, Guess
  <2> QED BY <1>1, <2>1, <2>2 DEF Quiet, Talking, At
<1>2. CASE Closing BY <1>2 DEF Closing, Talking
<1>3. CASE OpenChannel BY <1>3, OpenTalk DEF Talking
<1>4. CASE HandStep
  <2>1. up = "open" BY <1>4, HandOpen
  <2> QED BY <1>4, <2>1, HandTalk DEF Talking
<1>5. CASE AnswerStep
  <2>1. pc[R] = "select" /\ up' = up BY <1>5 DEF AnswerStep, Decline, Abandon, Select
  <2>2. up # "new" BY <2>1 DEF Talking, At
  <2> QED BY <1>b, <1>5, <2>1, <2>2, AnswerTalk DEF Talking, AnswerStep
<1>6. CASE SendingStep
  <2>1. /\ pc[S] \in {"send", "file", "flush", "drain"}
        /\ pc'[S] \in {"send", "file", "flush", "drain", "ok"} /\ pc'[R] = pc[R] /\ up' = up
    BY <1>6, SendingPlaces
  <2>2. up # "new" BY <2>1 DEF Talking, At
  <2>3. Conversation => InFiles
    BY <2>1 DEF Conversation, FirstChallenge, SecondChallenge, Failed, At
  <2>4. InFiles => InFiles' BY <2>1 DEF InFiles
  <2> QED BY <2>1, <2>2, <2>3, <2>4 DEF Talking, Conversation
<1>7. CASE ReadingStep
  <2>1. /\ pc[R] \in {"recv", "result"} /\ net[R] # <<>>
        /\ pc'[R] \in {"recv", "result", "ok", "desync"} /\ pc'[S] = pc[S] /\ up' = up
    BY <1>7, ReadingPlaces
  <2>2. up # "new" BY <2>1 DEF Talking, At
  <2>3. Conversation => InFiles
    BY <2>1 DEF Conversation, FirstChallenge, SecondChallenge, Failed, At, Empty
  <2>4. InFiles => InFiles' BY <2>1 DEF InFiles
  <2> QED BY <2>1, <2>2, <2>3, <2>4 DEF Talking, Conversation
<1>8. CASE RatingStep
  <2>1. pc' = pc /\ net' = net /\ up' = up /\ buf' = buf /\ picked' = picked /\ proved' = proved
    BY <1>8 DEF RatingStep, Rate, netVars, pinVars
  <2>2. Idle' <=> Idle BY <2>1 DEF Idle, Empty
  <2>3. Conversation' <=> Conversation
    BY <2>1 DEF Conversation, FirstChallenge, SecondChallenge, Failed, InFiles, At, Idle, Empty,
                Only, Comes, Guess
  <2> QED BY <2>1, <2>2, <2>3 DEF Talking, At
<1>9. ASSUME NEW p \in Roles, TaskFails(p) PROVE Talking'
  BY <1>9 DEF TaskFails, Talking
<1> QED BY <1>1, <1>2, <1>3, <1>4, <1>5, <1>6, <1>7, <1>8, <1>9, StepKinds

(* No message is parsed as what it is not, but the delimiter that ends everything. *)
LEMMA InSyncStep ==
    ASSUME TypeOK, Talking, Receiving, InSync, [Next]_vars
    PROVE  InSync'
<1>a. S \in Roles /\ R \in Roles /\ S # R /\ \A q \in Roles : q = S \/ q = R BY TwoRoles
<1>b. pc \in [Roles -> Places] /\ up \in {"new", "open", "down"} BY TypeParts DEF ControlOK
<1>1. CASE Quiet \/ Closing BY <1>1 DEF Quiet, Closing, InSync
<1>2. CASE OpenChannel BY <1>2, <1>a DEF OpenChannel, InSync
<1>3. CASE HandStep
  <2>1. up = "open" BY <1>3, HandOpen
  <2>2. Conversation' /\ up' = up /\ \A q \in Roles : pc'[q] # "desync" \/ pc[q] = "desync"
    BY <1>3, <2>1, HandTalk DEF Talking
  <2>3. pc'[S] # "desync" BY <1>a, <2>2 DEF InSync
  <2>4. pc'[R] = "desync" => pc'[S] \in {"drain", "ok", "err"}
    <3>1. SUFFICES ASSUME pc[R] = "desync" PROVE pc'[S] \in {"drain", "ok", "err"}
      BY <1>a, <2>2
    <3>2. InFiles BY <3>1, <2>1 DEF Talking, Conversation, FirstChallenge, SecondChallenge, Failed, At
    <3>3. pc[S] \in {"drain", "ok", "err"} BY <1>a, <3>1 DEF InSync
    <3>4. FALSE
      <4>1. ASSUME NEW p \in Roles, NonceStep(p) \/ SendPin(p) \/ Collect(p) \/ VerifyPin(p)
            PROVE  pc[p] \in {"nonce", "ask", "verify", "list", "pinres"}
        BY <4>1 DEF NonceStep, SendPin, Collect, VerifyPin, ReadsChunks
      <4>2. TokenRequest => pc[R] = "token" BY DEF TokenRequest
      <4>3. TokenResponse => pc[S] = "token" BY DEF TokenResponse
      <4>4. SenderPinResult => pc[S] = "pinres" BY DEF SenderPinResult
      <4>5. ReceiverList => pc[R] \in {"list", "pinres"} BY DEF ReceiverList, ChunksEnd, ReadsChunks
      <4>6. SenderList => pc[S] = "list" BY <1>a DEF SenderList, ChunksEnd, ReadsChunks
      <4> QED BY <1>a, <1>3, <3>1, <3>3, <4>1, <4>2, <4>3, <4>4, <4>5, <4>6 DEF HandStep
    <3> QED BY <3>4
  <2> QED BY <1>a, <2>3, <2>4 DEF InSync
<1>4. CASE AnswerStep
  <2>1. pc[R] = "select" /\ \E l \in {"ok", "recv"} : pc' = [pc EXCEPT ![R] = l]
    BY <1>4 DEF AnswerStep, Decline, Abandon, Select, Goto
  <2>2. pc'[R] \in {"ok", "recv"} /\ pc'[S] = pc[S] BY <1>a, <1>b, <2>1
  <2> QED BY <1>a, <2>2 DEF InSync
<1>5. CASE SendingStep
  <2>1. /\ pc[S] \in {"send", "file", "flush", "drain"} /\ pc'[R] = pc[R]
        /\ pc'[S] \in {"send", "file", "flush", "drain", "ok"} /\ (pc[S] = "drain" => pc'[S] = "ok")
    BY <1>5, SendingPlaces
  <2> QED BY <1>a, <2>1 DEF InSync
<1>6. CASE ReadingStep
  <2>1. /\ pc'[S] = pc[S] /\ pc[R] # "desync"
        /\ pc'[R] = "desync" => pc[S] \in {"drain", "ok", "err"}
    BY <1>6, ReadingPlaces
  <2> QED BY <1>a, <2>1 DEF InSync
<1>7. CASE RatingStep BY <1>7 DEF RatingStep, Rate, InSync
<1>8. ASSUME NEW p \in Roles, TaskFails(p) PROVE InSync'
  <2>1. pc' = [pc EXCEPT ![p] = "err"] BY <1>8 DEF TaskFails, Goto
  <2>2. pc'[p] = "err" /\ \A q \in Roles \ {p} : pc'[q] = pc[q] BY <1>b, <2>1
  <2> QED BY <1>a, <2>2 DEF InSync
<1> QED BY <1>1, <1>2, <1>3, <1>4, <1>5, <1>6, <1>7, <1>8, StepKinds

(* What the steps of the first half do to the place of the task that takes them. *)
LEMMA HandPlaces ==
    ASSUME TypeOK
    PROVE  /\ \A p \in Roles : NonceStep(p) => pc[p] = "nonce" /\ pc' = [pc EXCEPT ![p] = "token"]
           /\ \A p \in Roles : SendPin(p) => pc[p] = "ask" /\ pc' = [pc EXCEPT ![p] = "pinres"]
           /\ \A p \in Roles : Collect(p) => pc' = pc
           /\ TokenRequest => /\ pc[R] = "token"
                              /\ \/ pc' = [pc EXCEPT ![R] = "err"]
                                 \/ pc' = [pc EXCEPT ![R] = "verify"] /\ cfg.trust[R]
                                 \/ pc' = [pc EXCEPT ![R] = "list"] /\ cfg.trust[R] /\ ~cfg.pin[R]
           /\ TokenResponse => /\ pc[S] = "token"
                               /\ \/ pc' = [pc EXCEPT ![S] = "err"]
                                  \/ pc' = [pc EXCEPT ![S] = "ask"] /\ cfg.trust[S]
                                  \/ pc' = [pc EXCEPT ![S] = AfterReceiverPin.pc] /\ cfg.trust[S]
           /\ AfterReceiverPin.pc = IF cfg.pin[S] THEN "verify" ELSE "list"
           /\ (HandStep => cfg' = cfg /\ picked' = picked)
<1>1. HandStep => cfg' = cfg /\ picked' = picked
  BY DEF HandStep, TokenRequest, TokenResponse, ReceiverList, SenderPinResult, SenderList, NonceStep,
         SendPin, Collect, VerifyPin, fileVars, receiverVars
<1>2. AfterReceiverPin.pc = IF cfg.pin[S] THEN "verify" ELSE "list" BY AfterPinTypes, TypeParts
<1>3. ASSUME NEW p \in Roles
      PROVE  /\ NonceStep(p) => pc[p] = "nonce" /\ pc' = [pc EXCEPT ![p] = "token"]
             /\ SendPin(p) => pc[p] = "ask" /\ pc' = [pc EXCEPT ![p] = "pinres"]
             /\ Collect(p) => pc' = pc
  BY DEF NonceStep, SendPin, Collect, Goto
<1>4. TokenRequest => /\ pc[R] = "token"
                      /\ \/ pc' = [pc EXCEPT ![R] = "err"]
                         \/ pc' = [pc EXCEPT ![R] = "verify"] /\ cfg.trust[R]
                         \/ pc' = [pc EXCEPT ![R] = "list"] /\ cfg.trust[R] /\ ~cfg.pin[R]
  BY Zenon DEF TokenRequest, Goto
<1>5. TokenResponse => /\ pc[S] = "token"
                       /\ \/ pc' = [pc EXCEPT ![S] = "err"]
                          \/ pc' = [pc EXCEPT ![S] = "ask"] /\ cfg.trust[S]
                          \/ pc' = [pc EXCEPT ![S] = AfterReceiverPin.pc] /\ cfg.trust[S]
  BY Zenon DEF TokenResponse, Goto
<1> QED BY <1>1, <1>2, <1>3, <1>4, <1>5

(* A challenge begins with all its tries. *)
LEMMA TriesStep ==
    ASSUME TypeOK, Talking, Receiving, Tries, [Next]_vars
    PROVE  Tries'
<1>a. S \in Roles /\ R \in Roles /\ S # R /\ \A q \in Roles : q = S \/ q = R BY TwoRoles
<1>b. /\ pc \in [Roles -> Places] /\ tries \in [Roles -> 0..MaxTries]
      /\ MaxTries \in Nat /\ MaxTries > 0
  BY TypeParts, TransferAssumption DEF ControlOK, PinOK
<1>0. ASSUME tries' = tries, NEW p \in Roles, NEW l \in Places, pc' = [pc EXCEPT ![p] = l],
             pc[p] \notin {"err", "desync", "verify"} \/ l \in {"err", "desync"}
      PROVE  Tries'
  <2>1. pc'[p] = l /\ \A q \in Roles \ {p} : pc'[q] = pc[q] BY <1>b, <1>0
  <2>2. l \in {"err", "desync"} \/ tries[p] = 0 BY <1>0 DEF Tries
  <2>3. IF pc'[p] = "verify" THEN tries'[p] < MaxTries ELSE pc'[p] \in {"err", "desync"} \/ tries'[p] = 0
    BY <1>0, <1>b, <2>1, <2>2
  <2>4. ASSUME NEW q \in Roles, q # p
        PROVE  IF pc'[q] = "verify" THEN tries'[q] < MaxTries ELSE pc'[q] \in {"err", "desync"} \/ tries'[q] = 0
    BY <1>0, <2>1, <2>4 DEF Tries
  <2> QED BY <2>3, <2>4 DEF Tries
<1>1. CASE Quiet \/ Closing BY <1>1 DEF Quiet, Closing, Tries
<1>2. CASE OpenChannel
  <2>1. At("closed", "closed") /\ At("nonce", "nonce")' BY <1>2, OpenTalk
  <2>2. tries' = tries BY <1>2 DEF OpenChannel, pinVars
  <2> QED BY <1>a, <2>1, <2>2 DEF Tries, At
<1>3. CASE HandStep
  <2>1. up = "open" /\ Conversation BY <1>3, HandOpen DEF Talking
  <2>2. {"token", "pinres", "err", "verify", "list", "ask", "select", "send", "ok"} \subseteq Places
    BY DEF Places
  <2>3. ASSUME NEW p \in Roles, VerifyPin(p) PROVE Tries'
    <3>1. /\ pc'[p] \in {"list", "err", "verify"} /\ pc' = [pc EXCEPT ![p] = pc'[p]]
          /\ tries'[p] = IF pc'[p] = "list" THEN 0 ELSE tries[p] + 1
          /\ pc'[p] = "verify" => tries[p] + 1 < MaxTries
          /\ \A q \in Roles \ {p} : tries'[q] = tries[q]
      BY <2>1, <2>3, VerifyTalk
    <3>2. \A q \in Roles \ {p} : pc'[q] = pc[q] BY <1>b, <3>1
    <3>3. IF pc'[p] = "verify" THEN tries'[p] < MaxTries ELSE pc'[p] \in {"err", "desync"} \/ tries'[p] = 0
      BY <3>1
    <3>4. ASSUME NEW q \in Roles, q # p
          PROVE  IF pc'[q] = "verify" THEN tries'[q] < MaxTries ELSE pc'[q] \in {"err", "desync"} \/ tries'[q] = 0
      BY <3>1, <3>2, <3>4 DEF Tries
    <3> QED BY <3>3, <3>4 DEF Tries
  <2>4. ASSUME NEW p \in Roles, NonceStep(p) \/ SendPin(p) PROVE Tries'
    <3>1. tries' = tries BY <2>4 DEF NonceStep, SendPin, pinVars
    <3>2. pc[p] \in {"nonce", "ask"} /\ (pc' = [pc EXCEPT ![p] = "token"] \/ pc' = [pc EXCEPT ![p] = "pinres"])
      BY <2>4, HandPlaces
    <3> QED BY <3>1, <3>2, <2>2, <1>0
  <2>5. ASSUME NEW p \in Roles, Collect(p) PROVE Tries'
    BY <2>5, HandPlaces DEF Collect, pinVars, Tries
  <2>6. CASE TokenRequest
    <3>1. tries' = tries BY <2>6 DEF TokenRequest, pinVars
    <3>2. pc[R] = "token" /\ \E l \in {"err", "verify", "list"} : pc' = [pc EXCEPT ![R] = l]
      BY <2>6, HandPlaces
    <3> QED BY <3>1, <3>2, <2>2, <1>0, <1>a
  <2>7. CASE TokenResponse
    <3>1. tries' = tries BY <2>7 DEF TokenResponse, pinVars
    <3>2. pc[S] = "token" /\ \E l \in {"err", "ask", "verify", "list"} : pc' = [pc EXCEPT ![S] = l]
      BY <2>7, HandPlaces
    <3> QED BY <3>1, <3>2, <2>2, <1>0, <1>a
  <2>8. CASE ReceiverList
    <3>1. tries' = tries BY <2>8 DEF ReceiverList, pinVars
    <3>2. pc[R] \in {"list", "pinres"} /\ pc'[S] = pc[S] /\ pc'[R] \in {"select", "ask", "err"}
      BY <2>1, <2>8, ReceiverListTalk
    <3> QED BY <3>1, <3>2, <1>a DEF Tries
  <2>9. CASE SenderPinResult
    <3>1. tries' = tries BY <2>9 DEF SenderPinResult, pinVars
    <3>2. pc[S] = "pinres" /\ pc'[R] = pc[R] /\ pc'[S] \in {"ask", "err", "verify", "list"}
      BY <2>1, <2>9, SenderPinResultTalk, HandPlaces
    <3> QED BY <3>1, <3>2, <1>a, <1>b DEF Tries
  <2>10. CASE SenderList
    <3>1. tries' = tries BY <2>10 DEF SenderList, pinVars
    <3>2. pc[S] = "list" /\ pc'[R] = pc[R] /\ pc'[S] \in {"send", "ok"}
      BY <2>1, <2>10, SenderListTalk
    <3> QED BY <3>1, <3>2, <1>a DEF Tries
  <2> QED BY <1>3, <2>3, <2>4, <2>5, <2>6, <2>7, <2>8, <2>9, <2>10 DEF HandStep
<1>4. CASE AnswerStep
  <2>1. pc[R] = "select" /\ (\E l \in {"ok", "recv"} : pc' = [pc EXCEPT ![R] = l]) /\ tries' = tries
    BY <1>4 DEF AnswerStep, Decline, Abandon, Select, Goto, pinVars
  <2>2. {"ok", "recv"} \subseteq Places BY DEF Places
  <2> QED BY <2>1, <2>2, <1>0, <1>a
<1>5. CASE SendingStep
  <2>1. /\ pc[S] \in {"send", "file", "flush", "drain"} /\ pc'[R] = pc[R]
        /\ pc'[S] \in {"send", "file", "flush", "drain", "ok"}
    BY <1>5, SendingPlaces
  <2>2. tries' = tries BY <1>5 DEF SendingStep, SendChunk, CloseSending, Flush, Drain, SendFile, pinVars
  <2> QED BY <1>a, <2>1, <2>2 DEF Tries
<1>6. CASE ReadingStep
  <2>1. /\ pc[R] \in {"recv", "result"} /\ pc'[S] = pc[S]
        /\ pc'[R] \in {"recv", "result", "ok", "desync"}
    BY <1>6, ReadingPlaces
  <2>2. tries' = tries BY <1>6 DEF ReadingStep, RecvHeader, FileEnds, RecvChunk, FileResult, pinVars
  <2> QED BY <1>a, <2>1, <2>2 DEF Tries
<1>7. CASE RatingStep BY <1>7 DEF RatingStep, Rate, Tries, pinVars
<1>8. ASSUME NEW p \in Roles, TaskFails(p) PROVE Tries'
  <2>1. pc' = [pc EXCEPT ![p] = "err"] /\ tries' = tries BY <1>8 DEF TaskFails, Goto, pinVars
  <2>2. "err" \in Places BY DEF Places
  <2> QED BY <2>1, <2>2, <1>0
<1> QED BY <1>1, <1>2, <1>3, <1>4, <1>5, <1>6, <1>7, <1>8, StepKinds

(* No check is skipped on the way to a place. *)
LEMMA ProvedStep ==
    ASSUME TypeOK, Talking, Receiving, Proved, [Next]_vars
    PROVE  Proved'
<1>a. S \in Roles /\ R \in Roles /\ S # R /\ Other(S) = R /\ Other(R) = S /\ \A q \in Roles : q = S \/ q = R
  BY TwoRoles
<1>b. pc \in [Roles -> Places] /\ proved \in SUBSET Roles BY TypeParts DEF ControlOK, PinOK
<1> DEFINE Checked == {"ask", "pinres", "verify", "list"}
<1>0. ASSUME cfg' = cfg, proved \subseteq proved',
             \A p \in Roles : pc'[p] = pc[p] \/ pc'[p] \notin Checked
      PROVE  Proved'
  BY <1>0, <1>a DEF Proved
<1>1. CASE Quiet \/ Closing BY <1>0, <1>1 DEF Quiet, Closing
<1>2. CASE OpenChannel
  <2>1. At("nonce", "nonce")' /\ cfg' = cfg /\ proved' = proved
    BY <1>2, OpenTalk DEF OpenChannel, pinVars
  <2> QED BY <1>0, <1>a, <2>1 DEF At
<1>3. CASE HandStep
  <2>1. up = "open" /\ Conversation /\ cfg' = cfg BY <1>3, HandOpen, HandPlaces DEF Talking
  <2>2. ASSUME NEW p \in Roles, VerifyPin(p) PROVE Proved'
    <3>1. /\ pc'[p] \in {"list", "err", "verify"} /\ pc' = [pc EXCEPT ![p] = pc'[p]]
          /\ pc[p] = "verify" /\ (pc'[p] = "list" => Other(p) \in proved)
      BY <2>1, <2>2, VerifyTalk
    <3>2. proved' = proved BY <2>2 DEF VerifyPin
    <3>3. \A q \in Roles \ {p} : pc'[q] = pc[q] BY <1>b, <3>1
    <3> QED BY <2>1, <3>1, <3>2, <3>3, <1>a DEF Proved
  <2>3. ASSUME NEW p \in Roles, NonceStep(p) PROVE Proved'
    <3>1. pc' = [pc EXCEPT ![p] = "token"] /\ proved' = proved BY <2>3, HandPlaces DEF NonceStep, pinVars
    <3>2. \A q \in Roles : pc'[q] = pc[q] \/ pc'[q] = "token" BY <1>b, <3>1
    <3> QED BY <1>0, <2>1, <3>1, <3>2
  <2>4. ASSUME NEW p \in Roles, SendPin(p) PROVE Proved'
    <3>1. pc[p] = "ask" /\ pc' = [pc EXCEPT ![p] = "pinres"] BY <2>4, HandPlaces
    <3>2. proved \subseteq proved' BY <2>4, <1>b DEF SendPin
    <3>3. pc'[p] = "pinres" /\ \A q \in Roles \ {p} : pc'[q] = pc[q] BY <1>b, <3>1
    <3> QED BY <2>1, <3>1, <3>2, <3>3, <1>a DEF Proved
  <2>5. ASSUME NEW p \in Roles, Collect(p) PROVE Proved'
    BY <2>5, <2>1, <1>0, HandPlaces DEF Collect, pinVars
  <2>6. CASE TokenRequest
    <3>1. /\ proved' = proved
          /\ \/ pc' = [pc EXCEPT ![R] = "err"]
             \/ pc' = [pc EXCEPT ![R] = "verify"] /\ cfg.trust[R]
             \/ pc' = [pc EXCEPT ![R] = "list"] /\ cfg.trust[R] /\ ~cfg.pin[R]
      BY <2>6, HandPlaces DEF TokenRequest, pinVars
    <3>2. /\ pc'[S] = pc[S]
          /\ \/ pc'[R] = "err"
             \/ pc'[R] = "verify" /\ cfg.trust[R]
             \/ pc'[R] = "list" /\ cfg.trust[R] /\ ~cfg.pin[R]
      BY <1>a, <1>b, <3>1
    <3> QED BY <2>1, <3>1, <3>2 DEF Proved
  <2>7. CASE TokenResponse
    <3>1. /\ proved' = proved
          /\ \/ pc' = [pc EXCEPT ![S] = "err"]
             \/ pc' = [pc EXCEPT ![S] = "ask"] /\ cfg.trust[S]
             \/ pc' = [pc EXCEPT ![S] = "verify"] /\ cfg.trust[S]
             \/ pc' = [pc EXCEPT ![S] = "list"] /\ cfg.trust[S] /\ ~cfg.pin[S]
      BY <2>7, HandPlaces DEF TokenResponse, pinVars
    <3>2. /\ pc'[R] = pc[R]
          /\ \/ pc'[S] = "err"
             \/ pc'[S] = "ask" /\ cfg.trust[S]
             \/ pc'[S] = "verify" /\ cfg.trust[S]
             \/ pc'[S] = "list" /\ cfg.trust[S] /\ ~cfg.pin[S]
      BY <1>a, <1>b, <3>1
    <3> QED BY <2>1, <3>1, <3>2 DEF Proved
  <2>8. CASE ReceiverList
    <3>1. proved' = proved BY <2>8 DEF ReceiverList, pinVars
    <3>2. pc[R] \in {"list", "pinres"} /\ pc'[S] = pc[S] /\ pc'[R] \in {"select", "ask", "err"}
      BY <2>1, <2>8, ReceiverListTalk
    <3> QED BY <2>1, <3>1, <3>2 DEF Proved
  <2>9. CASE SenderPinResult
    <3>1. proved' = proved BY <2>9 DEF SenderPinResult, pinVars
    <3>2. pc[S] = "pinres" /\ pc'[R] = pc[R]
          /\ (pc'[S] \in {"ask", "err"} \/ pc'[S] = IF cfg.pin[S] THEN "verify" ELSE "list")
      BY <2>1, <2>9, SenderPinResultTalk, HandPlaces
    <3> QED BY <2>1, <3>1, <3>2 DEF Proved
  <2>10. CASE SenderList
    <3>1. proved' = proved BY <2>10 DEF SenderList, pinVars
    <3>2. pc'[R] = pc[R] /\ pc'[S] \in {"send", "ok"} BY <2>1, <2>10, SenderListTalk
    <3> QED BY <2>1, <3>1, <3>2 DEF Proved
  <2> QED BY <1>3, <2>2, <2>3, <2>4, <2>5, <2>6, <2>7, <2>8, <2>9, <2>10 DEF HandStep
<1>4. CASE AnswerStep
  <2>1. /\ \E l \in {"ok", "recv"} : pc' = [pc EXCEPT ![R] = l]
        /\ proved' = proved /\ cfg' = cfg
    BY <1>4 DEF AnswerStep, Decline, Abandon, Select, Goto, pinVars
  <2>2. pc'[S] = pc[S] /\ pc'[R] \in {"ok", "recv"} BY <1>a, <1>b, <2>1
  <2> QED BY <1>0, <1>a, <2>1, <2>2
<1>5. CASE SendingStep
  <2>1. pc'[R] = pc[R] /\ pc'[S] \in {"send", "file", "flush", "drain", "ok"} BY <1>5, SendingPlaces
  <2>2. proved' = proved /\ cfg' = cfg
    BY <1>5 DEF SendingStep, SendChunk, CloseSending, Flush, Drain, SendFile, pinVars
  <2> QED BY <1>0, <1>a, <2>1, <2>2
<1>6. CASE ReadingStep
  <2>1. pc'[S] = pc[S] /\ pc'[R] \in {"recv", "result", "ok", "desync"} BY <1>6, ReadingPlaces
  <2>2. proved' = proved /\ cfg' = cfg
    BY <1>6 DEF ReadingStep, RecvHeader, FileEnds, RecvChunk, FileResult, pinVars
  <2> QED BY <1>0, <1>a, <2>1, <2>2
<1>7. CASE RatingStep BY <1>0, <1>7 DEF RatingStep, Rate, pinVars
<1>8. ASSUME NEW p \in Roles, TaskFails(p) PROVE Proved'
  <2>1. pc' = [pc EXCEPT ![p] = "err"] /\ proved' = proved /\ cfg' = cfg
    BY <1>8 DEF TaskFails, Goto, pinVars
  <2>2. \A q \in Roles : pc'[q] = pc[q] \/ pc'[q] = "err" BY <1>b, <2>1
  <2> QED BY <1>0, <2>1, <2>2
<1> QED BY <1>1, <1>2, <1>3, <1>4, <1>5, <1>6, <1>7, <1>8, StepKinds

(* The list of files is shown when both challenges are over. *)
LEMMA ListedStep ==
    ASSUME TypeOK, Talking, Receiving, Proved, ListedAfterChallenges, [Next]_vars
    PROVE  ListedAfterChallenges'
<1>a. S \in Roles /\ R \in Roles /\ Other(S) = R /\ Other(R) = S /\ \A q \in Roles : q = S \/ q = R
  BY TwoRoles
<1>1. ASSUME cfg' = cfg, proved \subseteq proved', listed' = listed PROVE ListedAfterChallenges'
  BY <1>1 DEF ListedAfterChallenges
<1>2. CASE ReceiverList
  <2>1. up = "open" /\ Conversation BY <1>2, HandOpen DEF Talking, HandStep
  <2>2. pc[R] \in {"list", "pinres"} /\ (listed' => pc[S] = "list") BY <1>2, <2>1, ReceiverListTalk
  <2>3. cfg' = cfg /\ proved' = proved BY <1>2 DEF ReceiverList, pinVars
  <2> QED BY <1>a, <2>2, <2>3 DEF Proved, ListedAfterChallenges
<1>3. CASE HandStep /\ ~ReceiverList
  <2>1. cfg' = cfg BY <1>3, HandPlaces
  <2>2. ASSUME NEW p \in Roles, NonceStep(p) \/ SendPin(p) \/ Collect(p) \/ VerifyPin(p)
        PROVE  proved \subseteq proved' /\ listed' = listed
    BY <2>2, TypeParts DEF NonceStep, SendPin, Collect, VerifyPin, pinVars, fileVars, receiverVars, PinOK
  <2>3. TokenRequest \/ TokenResponse \/ SenderPinResult \/ SenderList => proved' = proved /\ listed' = listed
    BY DEF TokenRequest, TokenResponse, SenderPinResult, SenderList, pinVars, fileVars, receiverVars
  <2> QED BY <1>1, <1>3, <2>1, <2>2, <2>3 DEF HandStep
<1>4. CASE Quiet \/ Closing BY <1>1, <1>4 DEF Quiet, Closing
<1>5. CASE OpenChannel BY <1>1, <1>5 DEF OpenChannel, pinVars, fileVars, receiverVars
<1>6. CASE AnswerStep
  BY <1>1, <1>6 DEF AnswerStep, Decline, Abandon, Select, pinVars, fileVars, receiverVars
<1>7. CASE SendingStep
  BY <1>1, <1>7 DEF SendingStep, SendChunk, CloseSending, Flush, Drain, SendFile, pinVars, fileVars,
                    receiverVars
<1>8. CASE ReadingStep
  BY <1>1, <1>8 DEF ReadingStep, RecvHeader, FileEnds, RecvChunk, FileResult, pinVars, fileVars,
                    receiverVars
<1>9. CASE RatingStep BY <1>1, <1>9 DEF RatingStep, Rate, pinVars
<1>10. ASSUME NEW p \in Roles, TaskFails(p) PROVE ListedAfterChallenges'
  BY <1>1, <1>10 DEF TaskFails, pinVars, fileVars, receiverVars
<1> QED BY <1>2, <1>3, <1>4, <1>5, <1>6, <1>7, <1>8, <1>9, <1>10, StepKinds

-----------------------------------------------------------------------------
(* From the conversation to the files *)

\* No message of a file is among these.
Plain(msgs) == \A i \in DOMAIN msgs : msgs[i] \notin Stream

(* Nothing that is said before the files is a message of a file. *)
LEMMA PlainLists ==
    /\ \A k \in {"0", "nonce", "token", "ok", "pinRequired", "tooMany", "invalid", "right", "wrong"} :
            Plain(<<Text(k)>>) /\ \A p \in Roles : Plain(Verdict(p, k))
    /\ \A s : Plain(<<FileList(s), Delimiter>>)
    /\ Plain(<<>>) /\ Plain(<<Delimiter>>)
<1>1. ASSUME NEW m, NEW n, m \notin Stream, n \notin Stream
      PROVE  Plain(<<m>>) /\ Plain(<<m, n>>) /\ Plain(<<>>)
  <2>1. DOMAIN <<m>> = {1} /\ <<m>>[1] = m OBVIOUS
  <2>2. DOMAIN <<m, n>> = {1, 2} /\ <<m, n>>[1] = m /\ <<m, n>>[2] = n OBVIOUS
  <2>3. DOMAIN <<>> = {} OBVIOUS
  <2> QED BY <1>1, <2>1, <2>2, <2>3 DEF Plain
<1>2. ASSUME NEW k \in {"0", "nonce", "token", "ok", "pinRequired", "tooMany", "invalid", "right", "wrong"}
      PROVE  Text(k) \notin Stream /\ Bin(k) \notin Stream
  BY StreamFacts, MessageFields
<1>3. ASSUME NEW s PROVE FileList(s) \notin Stream BY StreamFacts, MessageFields
<1>4. Delimiter \notin Stream BY StreamFacts
<1>5. ASSUME NEW k \in {"0", "nonce", "token", "ok", "pinRequired", "tooMany", "invalid", "right", "wrong"},
             NEW p \in Roles
      PROVE  Plain(Verdict(p, k))
  BY <1>1, <1>2, <1>4 DEF Verdict
<1> QED BY <1>1, <1>2, <1>3, <1>4, <1>5

(* A step of the first half adds no message of a file. *)
LEMMA TakePlain ==
    ASSUME NetOK, Plain(net[R]), NEW p \in Roles, NEW m, NEW msgs \in Seq(Messages), Plain(msgs),
           Take(p, m, msgs)
    PROVE  Plain(net'[R])
<1>a. R \in Roles /\ S \in Roles /\ S # R /\ Other(S) = R /\ Other(R) = S /\ (p = S \/ p = R) BY TwoRoles
<1>b. net[R] \in Seq(Messages) BY <1>a DEF NetOK
<1>1. net[p] # <<>> /\ net'[p] = Tail(net[p]) /\ net'[Other(p)] = net[Other(p)] \o msgs BY TakeNet
<1>2. CASE p = R
  <2>1. DOMAIN net'[R] = 1..(Len(net[R]) - 1) /\ DOMAIN net[R] = 1..Len(net[R]) /\ Len(net[R]) \in Nat
        /\ \A i \in 1..(Len(net[R]) - 1) : net'[R][i] = net[R][i + 1]
    BY <1>b, <1>1, <1>2, TailFacts
  <2> QED BY <2>1 DEF Plain
<1>3. CASE p = S
  <2>1. net'[R] = net[R] \o msgs BY <1>a, <1>1, <1>3
  <2>2. /\ net'[R] \in Seq(Messages) /\ Len(net'[R]) = Len(net[R]) + Len(msgs)
        /\ \A i \in 1..Len(net[R]) + Len(msgs) :
              net'[R][i] = IF i <= Len(net[R]) THEN net[R][i] ELSE msgs[i - Len(net[R])]
    BY <2>1, <1>b, ConcatProperties
  <2>3. /\ Len(net[R]) \in Nat /\ DOMAIN net[R] = 1..Len(net[R])
        /\ Len(msgs) \in Nat /\ DOMAIN msgs = 1..Len(msgs) /\ DOMAIN net'[R] = 1..Len(net'[R])
    BY <1>b, <2>2, LenProperties
  <2>4. ASSUME NEW i \in DOMAIN net'[R] PROVE net'[R][i] \notin Stream
    <3>1. CASE i <= Len(net[R]) BY <2>2, <2>3, <3>1 DEF Plain
    <3>2. CASE i > Len(net[R])
      <4>1. net'[R][i] = msgs[i - Len(net[R])] /\ i - Len(net[R]) \in DOMAIN msgs BY <2>2, <2>3, <3>2
      <4> QED BY <4>1 DEF Plain
    <3> QED BY <2>3, <2>2, <3>1, <3>2
  <2> QED BY <2>4 DEF Plain
<1> QED BY <1>a, <1>2, <1>3

(* The steps of the first half leave the files alone and say nothing of them. *)
LEMMA HandPlain ==
    ASSUME TypeOK, Plain(net[R]), HandStep
    PROVE  /\ Plain(net'[R])
           /\ UNCHANGED <<asked, over, todo, results, answered, open, sent, got, picked>>
<1>a. R \in Roles /\ S \in Roles /\ S # R /\ Other(S) = R /\ Other(R) = S /\ \A q \in Roles : q = S \/ q = R
  BY TwoRoles
<1>b. NetOK /\ net \in [Roles -> Seq(Messages)] /\ ControlOK BY TypeParts DEF NetOK
<1>c. UNCHANGED <<asked, over, todo, results, answered, open, sent, got, picked>>
  BY DEF HandStep, TokenRequest, TokenResponse, ReceiverList, SenderPinResult, SenderList, NonceStep,
         SendPin, Collect, VerifyPin, fileVars, senderVars, receiverVars
<1>d. <<>> \in Seq(Messages) /\ Plain(<<>>) /\ Files \in SUBSET Ids BY MsgLists, PlainLists, MessageTypes
<1>e. AfterReceiverPin.msgs \in Seq(Messages) /\ Plain(AfterReceiverPin.msgs)
  <2>1. Plain(<<Bin("pinRequired"), Delimiter>>)
    <3>1. Verdict(S, "pinRequired") = <<Bin("pinRequired"), Delimiter>> BY DEF Verdict
    <3> QED BY <3>1, <1>a, PlainLists
  <2> QED BY <1>b, <2>1, AfterPinTypes, PlainLists
<1>f. ASSUME NEW k \in {"0", "nonce", "token", "ok", "pinRequired", "tooMany", "invalid", "right", "wrong"}
      PROVE  /\ <<Text(k)>> \in Seq(Messages) /\ Plain(<<Text(k)>>)
             /\ \A p \in Roles : Verdict(p, k) \in Seq(Messages) /\ Plain(Verdict(p, k))
  BY MsgLists, PlainLists
<1>g. ASSUME NEW p \in Roles, NEW m, NEW msgs \in Seq(Messages), Plain(msgs), Take(p, m, msgs)
      PROVE  Plain(net'[R])
  BY <1>b, <1>g, TakePlain
<1>i. ASSUME NEW m, NEW msgs \in Seq(Messages), Plain(msgs), Take(S, m, msgs) \/ Take(R, m, msgs)
      PROVE  Plain(net'[R])
  BY <1>a, <1>g, <1>i
<1>h. <<FileList(Files), Delimiter>> \in Seq(Messages) /\ Plain(<<FileList(Files), Delimiter>>)
  BY <1>d, MsgLists, PlainLists
<1>1. ASSUME NEW p \in Roles, NonceStep(p) PROVE Plain(net'[R])
  <2>1. \E k \in {"token", "nonce"} : Take(p, Text("nonce"), <<Text(k)>>) BY <1>1 DEF NonceStep
  <2> QED BY <2>1, <1>f, <1>g
<1>2. ASSUME NEW p \in Roles, SendPin(p) PROVE Plain(net'[R])
  <2>1. PICK k \in {"right", "wrong"} : Send(p, <<Text(k)>>) BY <1>2 DEF SendPin
  <2>2. net'[Other(p)] = net[Other(p)] \o <<Text(k)>> /\ net'[p] = net[p] BY <1>b, <1>f, <2>1, SendNet
  <2>3. CASE p = R BY <2>2, <2>3
  <2>4. CASE p = S
    <3>1. net'[R] = net[R] \o <<Text(k)>> /\ Text(k) \in Messages /\ net[R] \in Seq(Messages)
      BY <2>2, <2>4, <1>a, <1>b, MessageTypes, MsgLists
    <3>2. Text(k) \notin Stream BY StreamFacts, MessageFields
    <3>3. /\ DOMAIN net[R] = 1..Len(net[R]) /\ DOMAIN net'[R] = 1..(Len(net[R]) + 1) /\ Len(net[R]) \in Nat
          /\ \A i \in 1..Len(net[R]) : net'[R][i] = net[R][i]
          /\ net'[R][Len(net[R]) + 1] = Text(k)
      BY <3>1, AppendFacts
    <3> QED BY <3>2, <3>3 DEF Plain
  <2> QED BY <1>a, <2>3, <2>4
<1>3. ASSUME NEW p \in Roles, Collect(p) PROVE Plain(net'[R]) BY <1>3, <1>d, <1>g DEF Collect
<1>4. ASSUME NEW p \in Roles, VerifyPin(p) PROVE Plain(net'[R])
  <2>1. \/ Take(p, Front(p), <<>>)
        \/ Take(p, Front(p), IF p = R THEN <<Text("ok")>> ELSE <<FileList(Files), Delimiter>>)
        \/ Take(p, Front(p), Verdict(p, "tooMany"))
        \/ Take(p, Front(p), Verdict(p, "pinRequired"))
    BY <1>4, Zenon DEF VerifyPin
  <2>2. \/ Take(p, Front(p), <<Text("ok")>>) \/ Take(p, Front(p), <<FileList(Files), Delimiter>>)
        \/ Take(p, Front(p), <<>>) \/ \E k \in {"tooMany", "pinRequired"} : Take(p, Front(p), Verdict(p, k))
    BY <2>1
  <2>3. CASE Take(p, Front(p), <<Text("ok")>>) BY <2>3, <1>f, <1>g
  <2>4. CASE Take(p, Front(p), <<FileList(Files), Delimiter>>) BY <2>4, <1>h, <1>g
  <2>5. CASE Take(p, Front(p), <<>>) BY <2>5, <1>d, <1>g
  <2>6. ASSUME NEW k \in {"tooMany", "pinRequired"}, Take(p, Front(p), Verdict(p, k))
        PROVE  Plain(net'[R])
    BY <2>6, <1>f, <1>g
  <2> QED BY <2>2, <2>3, <2>4, <2>5, <2>6
<1>5. CASE TokenRequest
  <2>1. \E k \in {"invalid", "pinRequired", "ok"} : Take(R, Text("token"), <<Text(k)>>)
    BY <1>5 DEF TokenRequest
  <2>2. PICK k \in {"invalid", "pinRequired", "ok"} : Take(R, Text("token"), <<Text(k)>>) BY <2>1
  <2> QED BY <1>c, <2>2, <1>f, <1>i
<1>6. CASE TokenResponse
  <2>1. Take(S, Front(S), <<>>) \/ Take(S, Front(S), AfterReceiverPin.msgs) BY <1>6, Zenon DEF TokenResponse
  <2> QED BY <1>c, <2>1, <1>d, <1>e, <1>i
<1>7. CASE ReceiverList
  <2>1. Take(R, Front(R), <<>>) BY <1>7 DEF ReceiverList, ChunksEnd
  <2> QED BY <1>c, <2>1, <1>d, <1>i
<1>8. CASE SenderList
  <2>1. Take(S, Front(S), <<>>) BY <1>8 DEF SenderList, ChunksEnd
  <2> QED BY <1>c, <2>1, <1>d, <1>i
<1>9. CASE SenderPinResult
  <2>1. Take(S, Front(S), IF Front(S) = Text("ok") THEN AfterReceiverPin.msgs ELSE <<>>)
    BY <1>9, Zenon DEF SenderPinResult
  <2>2. Take(S, Front(S), <<>>) \/ Take(S, Front(S), AfterReceiverPin.msgs) BY <2>1
  <2> QED BY <1>c, <2>2, <1>d, <1>e, <1>i
<1> QED BY <1>c, <1>1, <1>2, <1>3, <1>4, <1>5, <1>6, <1>7, <1>8, <1>9 DEF HandStep

(* The steps of the first half are taken early. *)
LEMMA EarlySteps ==
    ASSUME TypeOK, Talking, HandStep \/ AnswerStep \/ OpenChannel
    PROVE  Early
<1>a. \A q \in Roles : q = S \/ q = R BY TwoRoles
<1>1. ASSUME NEW p \in Roles, NonceStep(p) \/ SendPin(p) \/ Collect(p) \/ VerifyPin(p)
      PROVE  Early
  <2>1. pc[p] \in {"nonce", "ask", "verify", "list", "pinres"}
    BY <1>1 DEF NonceStep, SendPin, Collect, VerifyPin, ReadsChunks
  <2> QED BY <1>a, <2>1 DEF Early
<1>2. TokenRequest => pc[R] = "token" BY DEF TokenRequest
<1>3. TokenResponse => pc[S] = "token" BY DEF TokenResponse
<1>4. SenderPinResult => pc[S] = "pinres" BY DEF SenderPinResult
<1>5. ReceiverList => pc[R] \in {"list", "pinres"} BY DEF ReceiverList, ChunksEnd, ReadsChunks
<1>6. SenderList => pc[S] \in {"list", "pinres"} BY DEF SenderList, ChunksEnd, ReadsChunks
<1>7. AnswerStep => pc[R] = "select" BY DEF AnswerStep, Decline, Abandon, Select
<1>8. OpenChannel => pc[S] = "closed" BY OpenTalk DEF At
<1> QED BY <1>1, <1>2, <1>3, <1>4, <1>5, <1>6, <1>7, <1>8 DEF HandStep, Early

(* The first messages of a plain sequence are plain. *)
LEMMA ClosingPrefix ==
    ASSUME TypeOK, Closing
    PROVE  /\ \E n \in acked..Len(net[R]) :
                /\ DOMAIN net'[R] = 1..n /\ \A i \in 1..n : net'[R][i] = net[R][i] /\ i \in DOMAIN net[R]
           /\ acked \in Nat /\ Len(net[R]) \in Nat /\ DOMAIN net[R] = 1..Len(net[R])
<1>1. NetOK /\ R \in Roles BY TypeParts, TwoRoles
<1>2. net[R] \in Seq(Messages) /\ acked \in 0..Len(net[R]) BY <1>1 DEF NetOK
<1>3. Len(net[R]) \in Nat /\ DOMAIN net[R] = 1..Len(net[R]) BY <1>2, LenProperties
<1>4. PICK n \in acked..Len(net[R]) : net'[R] = SubSeq(net[R], 1, n) BY <1>1, CutNet DEF Closing
<1>5. n \in 0..Len(net[R]) /\ acked \in Nat BY <1>2, <1>3
<1>6. DOMAIN net'[R] = 1..n /\ \A i \in 1..n : net'[R][i] = net[R][i] BY <1>2, <1>4, <1>5, PrefixFacts
<1> QED BY <1>3, <1>5, <1>6

(* Nothing is said of a file before the list was answered. *)
LEMMA CalmStep ==
    ASSUME TypeOK, Talking, Receiving, Early, Calm, [Next]_vars
    PROVE  Calm'
<1>a. R \in Roles /\ S \in Roles /\ S # R /\ Other(S) = R /\ Other(R) = S /\ \A q \in Roles : q = S \/ q = R
  BY TwoRoles
<1>b. NetOK /\ pc \in [Roles -> Places] /\ net \in [Roles -> Seq(Messages)] /\ up \in {"new", "open", "down"}
  BY TypeParts DEF NetOK, ControlOK
<1>c. Plain(net[R]) BY DEF Calm, Plain
<1>d. ASSUME pc'[S] # "file", UNCHANGED <<asked, over, todo, results, answered, open, sent, got>>,
             Plain(net'[R])
      PROVE  Calm'
  BY <1>d DEF Calm, Plain
<1>e. pc[S] # "file" BY DEF Calm
<1>f. up = "open" => Conversation BY DEF Talking
<1>g. ~(up = "open" /\ InFiles) BY DEF InFiles, Early
<1>1. CASE Quiet BY <1>1, <1>c, <1>d, <1>e DEF Quiet
<1>2. CASE Closing
  <2>1. PICK n \in acked..Len(net[R]) :
           DOMAIN net'[R] = 1..n /\ \A i \in 1..n : net'[R][i] = net[R][i] /\ i \in DOMAIN net[R]
    BY <1>2, ClosingPrefix
  <2>2. Plain(net'[R]) BY <1>c, <2>1 DEF Plain
  <2> QED BY <1>2, <1>d, <1>e, <2>2 DEF Closing
<1>3. CASE OpenChannel
  <2>1. At("nonce", "nonce")' /\ net'[R] = <<Text("nonce")>> BY <1>3, OpenTalk
  <2>2. Plain(net'[R]) BY <2>1, PlainLists
  <2>3. pc'[S] # "file" BY <2>1 DEF At
  <2> QED BY <1>3, <1>d, <2>2, <2>3 DEF OpenChannel, fileVars, senderVars, receiverVars
<1>4. CASE HandStep
  <2>1. Plain(net'[R]) /\ UNCHANGED <<asked, over, todo, results, answered, open, sent, got>>
    BY <1>4, <1>c, HandPlain
  <2>2. up = "open" BY <1>4, HandOpen
  <2>3. pc'[S] # "file"
    <3>1. ASSUME NEW p \in Roles, NonceStep(p) \/ SendPin(p) \/ Collect(p) PROVE pc'[S] # "file"
      <4>1. pc' = pc \/ pc' = [pc EXCEPT ![p] = "token"] \/ pc' = [pc EXCEPT ![p] = "pinres"]
        BY <3>1, HandPlaces
      <4> QED BY <1>a, <1>b, <1>e, <4>1
    <3>2. ASSUME NEW p \in Roles, VerifyPin(p) PROVE pc'[S] # "file"
      <4>1. pc'[p] \in {"list", "err", "verify"} /\ pc' = [pc EXCEPT ![p] = pc'[p]]
        BY <3>2, <2>2, <1>f, VerifyTalk
      <4> QED BY <1>a, <1>b, <1>e, <4>1
    <3>3. TokenRequest => pc'[S] # "file"
      <4>1. TokenRequest => \E l \in {"err", "verify", "list"} : pc' = [pc EXCEPT ![R] = l] BY HandPlaces
      <4> QED BY <1>a, <1>b, <1>e, <4>1
    <3>4. TokenResponse => pc'[S] # "file"
      <4>1. TokenResponse => \E l \in {"err", "ask", "verify", "list"} : pc' = [pc EXCEPT ![S] = l]
        BY HandPlaces
      <4> QED BY <1>a, <1>b, <1>e, <4>1
    <3>5. ReceiverList => pc'[S] # "file" BY <2>2, <1>f, <1>e, ReceiverListTalk
    <3>6. SenderPinResult => pc'[S] # "file"
      <4>1. SenderPinResult => pc'[S] \in {"ask", "err", "verify", "list"}
        BY <2>2, <1>f, SenderPinResultTalk, HandPlaces
      <4> QED BY <4>1
    <3>7. SenderList => pc'[S] # "file" BY <2>2, <1>f, SenderListTalk
    <3> QED BY <1>4, <3>1, <3>2, <3>3, <3>4, <3>5, <3>6, <3>7 DEF HandStep
  <2> QED BY <1>d, <2>1, <2>3
<1>5. CASE AnswerStep
  <2>1. /\ UNCHANGED <<asked, over, todo, results, answered, open, sent, got>>
        /\ \E l \in {"ok", "recv"} : pc' = [pc EXCEPT ![R] = l]
        /\ net' = net \/ up = "open"
    BY <1>5 DEF AnswerStep, Decline, Abandon, Select, Goto, netVars, fileVars, senderVars, receiverVars
  <2>2. pc'[S] # "file" BY <1>a, <1>b, <1>e, <2>1
  <2>3. Plain(net'[R])
    <3>1. CASE net' = net BY <3>1, <1>c
    <3>2. CASE up = "open"
      <4>1. net'[R] = <<>> BY <3>2, <1>5, <1>f, AnswerTalk DEF AnswerStep
      <4> QED BY <4>1, PlainLists
    <3> QED BY <2>1, <3>1, <3>2
  <2> QED BY <1>d, <2>1, <2>2, <2>3
<1>6. CASE SendingStep
  <2>1. pc[S] \in {"send", "file", "flush", "drain"} BY <1>6, SendingPlaces
  <2>2. up = "open" => InFiles
    BY <1>f, <2>1 DEF Conversation, FirstChallenge, SecondChallenge, Failed, At
  <2>3. up # "open" BY <1>g, <2>2
  <2>4. CloseSending
    BY <1>6, <2>3 DEF SendingStep, SendChunk, Flush, Drain, SendFile, Take
  <2>5. pc' = [pc EXCEPT ![S] = "flush"] /\ net' = net
        /\ UNCHANGED <<asked, over, todo, results, answered, open, sent, got>>
    BY <2>4 DEF CloseSending, Goto, netVars, fileVars, senderVars, receiverVars
  <2>6. pc'[S] # "file" BY <1>a, <1>b, <2>5
  <2> QED BY <1>c, <1>d, <2>5, <2>6
<1>7. CASE ReadingStep
  <2>1. /\ pc[R] \in {"recv", "result"} /\ Front(R) = net[R][1] /\ 1 \in DOMAIN net[R]
        /\ Front(R) \in Stream \cup {Delimiter}
        /\ Front(R) = Delimiter => pc[S] \in {"drain", "ok", "err"}
    BY <1>7, ReadingPlaces
  <2>2. Front(R) = Delimiter BY <1>c, <2>1 DEF Plain
  <2>3. FALSE BY <2>1, <2>2 DEF Early
  <2> QED BY <2>3
<1>8. CASE RatingStep BY <1>8 DEF RatingStep, Rate, Calm
<1>9. ASSUME NEW p \in Roles, TaskFails(p) PROVE Calm'
  <2>1. pc' = [pc EXCEPT ![p] = "err"] /\ net' = net
        /\ UNCHANGED <<asked, over, todo, results, answered, open, sent, got>>
    BY <1>9 DEF TaskFails, Goto, netVars, fileVars, senderVars, receiverVars
  <2>2. pc'[S] # "file" BY <1>a, <1>b, <1>e, <2>1
  <2> QED BY <1>c, <1>d, <2>1, <2>2
<1> QED BY <1>1, <1>2, <1>3, <1>4, <1>5, <1>6, <1>7, <1>8, <1>9, StepKinds

(* Once the files have begun, the conversation does not come back. *)
LEMMA LateStays ==
    ASSUME TypeOK, Talking, Receiving, ~Early, [Next]_vars
    PROVE  /\ ~Early'
           /\ \/ Quiet \/ Closing \/ SendingStep \/ ReadingStep \/ RatingStep
              \/ \E p \in Roles : TaskFails(p)
<1>a. R \in Roles /\ S \in Roles /\ S # R /\ \A q \in Roles : q = S \/ q = R BY TwoRoles
<1>b. pc \in [Roles -> Places] BY TypeParts DEF ControlOK
<1>0. \/ Quiet \/ Closing \/ SendingStep \/ ReadingStep \/ RatingStep
      \/ \E p \in Roles : TaskFails(p)
  BY EarlySteps, StepKinds
<1>1. Quiet \/ Closing \/ RatingStep => pc' = pc BY DEF Quiet, Closing, RatingStep, Rate
<1>2. SendingStep => pc'[S] \in {"send", "file", "flush", "drain", "ok"} /\ pc'[R] = pc[R] BY SendingPlaces
<1>3. ReadingStep => pc'[R] \in {"recv", "result", "ok", "desync"} /\ pc'[S] = pc[S] BY ReadingPlaces
<1>4. ASSUME NEW p \in Roles, TaskFails(p) PROVE \A q \in Roles : pc'[q] = pc[q] \/ pc'[q] = "err"
  BY <1>b, <1>4 DEF TaskFails, Goto
<1> QED BY <1>a, <1>0, <1>1, <1>2, <1>3, <1>4 DEF Early

(* What is on the way when nothing of a file was said. *)
Beginning ==
    /\ pc[S] = "send" => up = "down" \/ tokens = picked
    /\ pc[R] \in {"recv", "result"} => /\ pc[R] = "recv"
                                       /\ \A i \in DOMAIN net[R] : net[R][i] \in Stream \cup {Delimiter}
                                       /\ \A i \in DOMAIN net[R] : net[R][i] = Delimiter =>
                                            pc[S] \in {"drain", "ok", "err"}

(* The files begin with nothing said of them. *)
LEMMA CalmFlow == TypeOK /\ Calm /\ Beginning => Flow
<1> SUFFICES ASSUME TypeOK, Calm, Beginning PROVE Flow OBVIOUS
<1>1. /\ pc[S] # "file" /\ asked = {} /\ over = {} /\ todo = {} /\ results = <<>> /\ answered = {}
      /\ open.on = FALSE
      /\ \A f \in Ids : sent[f] = 0 /\ got[f] = 0
      /\ Plain(net[R])
  BY NoFileType DEF Calm, Plain
<1>2. HeadersFirst BY <1>1, StreamFacts DEF HeadersFirst, Fresh, Opened, Plain
<1>3. Regions BY <1>1, StreamFacts DEF Regions, Plain
<1>4. Sending BY <1>1 DEF Beginning, Sending
<1>5. Receiving BY <1>1 DEF Beginning, Receiving
<1>6. Kept
  <2>1. ASSUME NEW f \in Files PROVE got[f] + Coming(f) = sent[f]
    <3>1. f \in Ids BY MessageTypes
    <3>2. {i \in DOMAIN net[R] : net[R][i] = Chunk(f)} = {} BY <1>1, <3>1, StreamFacts DEF Plain
    <3>3. Coming(f) = 0 BY <3>2, FS_EmptySet DEF Coming
    <3> QED BY <1>1, <3>1, <3>3
  <2> QED BY <1>1, <2>1 DEF Kept, Plain
<1>7. Answered BY <1>1 DEF Answered
<1>8. Rated BY <1>1 DEF Rated
<1> QED BY <1>2, <1>3, <1>4, <1>5, <1>6, <1>7, <1>8 DEF Flow

(* The last step of the conversation begins the files. *)
LEMMA EarlyFlow ==
    ASSUME TypeOK, Talking, Flow, Early, Calm, [Next]_vars, TypeOK', Calm'
    PROVE  Flow'
<1>a. R \in Roles /\ S \in Roles /\ S # R /\ Other(S) = R /\ Other(R) = S /\ \A q \in Roles : q = S \/ q = R
  BY TwoRoles
<1>b. /\ NetOK /\ pc \in [Roles -> Places] /\ net \in [Roles -> Seq(Messages)]
      /\ up \in {"new", "open", "down"}
  BY TypeParts DEF NetOK, ControlOK
<1>c. Receiving /\ Sending BY DEF Flow
<1>d. up = "open" => Conversation BY DEF Talking
<1>e. ~(up = "open" /\ InFiles) BY DEF InFiles, Early
<1>f. open.on = FALSE /\ pc[S] # "file" BY NoFileType DEF Calm
<1>g. pc[R] # "result" BY <1>c, <1>f DEF Receiving
<1>h. <<>> \in Seq(Messages) /\ DOMAIN <<>> = {} BY MsgLists
<1>0. Beginning BY <1>c, <1>g DEF Receiving, Sending, Beginning
<1>1. SUFFICES Beginning'
  <2>1. TypeOK' /\ Calm' /\ Beginning' => Flow' BY CalmFlow, PTL
  <2> QED BY <1>1, <2>1
<1>2. CASE Quiet BY <1>0, <1>2 DEF Quiet, Beginning
<1>3. CASE Closing
  <2>1. PICK n \in acked..Len(net[R]) :
           DOMAIN net'[R] = 1..n /\ \A i \in 1..n : net'[R][i] = net[R][i] /\ i \in DOMAIN net[R]
    BY <1>3, ClosingPrefix
  <2> QED BY <1>0, <1>3, <2>1 DEF Closing, Beginning
<1>4. CASE OpenChannel
  <2>1. At("nonce", "nonce")' BY <1>4, OpenTalk
  <2> QED BY <2>1 DEF Beginning, At
<1>5. CASE HandStep
  <2>1. up = "open" /\ Conversation BY <1>5, <1>d, HandOpen
  <2>2. pc[S] # "send"
    BY <1>e, <2>1 DEF Conversation, FirstChallenge, SecondChallenge, Failed, At
  <2>3. pc[R] = "recv" => pc[S] = "list" /\ net[R] = <<>>
    BY <1>e, <2>1 DEF Conversation, FirstChallenge, SecondChallenge, Failed, At, Empty
  <2>4. CASE SenderList
    <3>1. pc'[R] = pc[R] /\ (pc'[S] = "send" => tokens' = picked') /\ net'[R] = <<>>
      BY <2>1, <2>4, SenderListTalk
    <3> QED BY <1>g, <1>h, <3>1 DEF Beginning
  <2>5. CASE \E p \in Roles : Collect(p)
    <3>1. PICK p \in Roles : Collect(p) BY <2>5
    <3>2. pc' = pc BY <3>1, HandPlaces
    <3>3. pc[R] = "recv" => net'[R] = <<>>
      <4>1. SUFFICES ASSUME pc[R] = "recv" PROVE net'[R] = <<>> OBVIOUS
      <4>2. p = S BY <1>a, <3>1, <4>1 DEF Collect, ReadsChunks
      <4>3. net'[R] = net[R] \o <<>> BY <1>a, <1>b, <1>h, <3>1, <4>2, TakeNet DEF Collect
      <4> QED BY <2>3, <4>1, <4>3
    <3> QED BY <2>2, <1>g, <1>h, <3>2, <3>3 DEF Beginning
  <2>6. ASSUME pc'[S] # "send", pc'[R] \notin {"recv", "result"} PROVE Beginning'
    BY <2>6 DEF Beginning
  <2>7. ASSUME NEW p \in Roles, NonceStep(p) \/ SendPin(p) PROVE Beginning'
    <3>1. pc[p] \in {"nonce", "ask"} /\ (pc' = [pc EXCEPT ![p] = "token"] \/ pc' = [pc EXCEPT ![p] = "pinres"])
      BY <2>7, HandPlaces
    <3>2. pc[R] # "recv" BY <1>a, <2>3, <3>1
    <3>3. pc'[S] # "send" /\ pc'[R] \notin {"recv", "result"} BY <1>a, <1>b, <1>g, <2>2, <3>1, <3>2
    <3> QED BY <3>3, <2>6
  <2>8. ASSUME NEW p \in Roles, VerifyPin(p) PROVE Beginning'
    <3>1. pc[p] = "verify" /\ pc'[p] \in {"list", "err", "verify"} /\ pc' = [pc EXCEPT ![p] = pc'[p]]
      BY <2>1, <2>8, VerifyTalk
    <3>2. pc[R] # "recv" BY <1>a, <2>3, <3>1
    <3>3. pc'[S] # "send" /\ pc'[R] \notin {"recv", "result"} BY <1>a, <1>b, <1>g, <2>2, <3>1, <3>2
    <3> QED BY <3>3, <2>6
  <2>9. CASE TokenRequest
    <3>1. pc[R] = "token" /\ \E l \in {"err", "verify", "list"} : pc' = [pc EXCEPT ![R] = l]
      BY <2>9, HandPlaces
    <3>2. pc'[S] # "send" /\ pc'[R] \notin {"recv", "result"} BY <1>a, <1>b, <2>2, <3>1
    <3> QED BY <3>2, <2>6
  <2>10. CASE TokenResponse
    <3>1. pc[S] = "token" /\ \E l \in {"err", "ask", "verify", "list"} : pc' = [pc EXCEPT ![S] = l]
      BY <2>10, HandPlaces
    <3>2. pc[R] # "recv" BY <2>3, <3>1
    <3>3. pc'[S] # "send" /\ pc'[R] \notin {"recv", "result"} BY <1>a, <1>b, <1>g, <3>1, <3>2
    <3> QED BY <3>3, <2>6
  <2>11. CASE ReceiverList
    <3>1. pc'[S] = pc[S] /\ pc'[R] \in {"select", "ask", "err"} BY <2>1, <2>11, ReceiverListTalk
    <3> QED BY <2>2, <3>1, <2>6
  <2>12. CASE SenderPinResult
    <3>1. pc[S] = "pinres" /\ pc'[R] = pc[R] /\ pc'[S] \in {"ask", "err", "verify", "list"}
      BY <2>1, <2>12, SenderPinResultTalk, HandPlaces
    <3> QED BY <1>g, <2>3, <3>1, <2>6
  <2> QED BY <1>5, <2>4, <2>5, <2>7, <2>8, <2>9, <2>10, <2>11, <2>12 DEF HandStep
<1>6. CASE AnswerStep
  <2>1. /\ \E l \in {"ok", "recv"} : pc' = [pc EXCEPT ![R] = l]
        /\ pc[R] = "select" /\ up' = up /\ tokens' = tokens
        /\ up = "open" \/ (net' = net /\ pc' = [pc EXCEPT ![R] = "ok"] /\ picked' = picked)
    BY <1>6 DEF AnswerStep, Decline, Abandon, Select, Goto, netVars, fileVars, senderVars, receiverVars
  <2>2. pc'[S] = pc[S] /\ pc'[R] \in {"ok", "recv"} BY <1>a, <1>b, <2>1
  <2>3. CASE up = "open"
    <3>1. net'[R] = <<>> /\ pc[S] = "list" BY <2>3, <1>6, <1>d, AnswerTalk DEF AnswerStep
    <3> QED BY <1>h, <2>2, <3>1 DEF Beginning
  <2>4. CASE net' = net /\ pc' = [pc EXCEPT ![R] = "ok"] /\ picked' = picked
    <3>1. pc'[R] = "ok" BY <1>a, <1>b, <2>4
    <3> QED BY <1>0, <2>1, <2>2, <2>4, <3>1 DEF Beginning
  <2> QED BY <2>1, <2>3, <2>4
<1>7. CASE SendingStep
  <2>1. pc[S] \in {"send", "file", "flush", "drain"} BY <1>7, SendingPlaces
  <2>2. up = "open" => InFiles
    BY <1>d, <2>1 DEF Conversation, FirstChallenge, SecondChallenge, Failed, At
  <2>3. up # "open" BY <1>e, <2>2
  <2>4. CloseSending
    BY <1>7, <2>3 DEF SendingStep, SendChunk, Flush, Drain, SendFile, Take
  <2>5. pc[S] = "send" /\ pc' = [pc EXCEPT ![S] = "flush"] /\ net' = net
    BY <2>4 DEF CloseSending, Goto, netVars
  <2>6. pc'[S] = "flush" /\ pc'[R] = pc[R] BY <1>a, <1>b, <2>5
  <2> QED BY <1>0, <2>5, <2>6 DEF Beginning
<1>8. CASE ReadingStep
  <2>1. /\ pc[R] \in {"recv", "result"} /\ Front(R) = net[R][1] /\ 1 \in DOMAIN net[R]
        /\ Front(R) \in Stream \cup {Delimiter}
        /\ Front(R) = Delimiter => pc[S] \in {"drain", "ok", "err"}
    BY <1>8, <1>c, ReadingPlaces
  <2>2. Front(R) = Delimiter BY <2>1 DEF Calm
  <2>3. FALSE BY <2>1, <2>2 DEF Early
  <2> QED BY <2>3
<1>9. CASE RatingStep BY <1>9, <1>0 DEF RatingStep, Rate, Beginning, senderVars, netVars
<1>10. ASSUME NEW p \in Roles, TaskFails(p) PROVE Beginning'
  <2>1. pc' = [pc EXCEPT ![p] = "err"] /\ net' = net /\ tokens' = tokens /\ picked' = picked /\ up' = up
    BY <1>10 DEF TaskFails, Goto, netVars, fileVars, senderVars, receiverVars
  <2>2. pc'[p] = "err" /\ \A q \in Roles \ {p} : pc'[q] = pc[q] BY <1>b, <2>1
  <2> QED BY <1>0, <1>a, <2>1, <2>2 DEF Beginning
<1> QED BY <1>2, <1>3, <1>4, <1>5, <1>6, <1>7, <1>8, <1>9, <1>10, StepKinds

-----------------------------------------------------------------------------
(* Counting messages *)

Count(s, m) == Cardinality({i \in DOMAIN s : s[i] = m})

(* The places of a message in a sequence can be counted. *)
LEMMA CountFinite ==
    ASSUME NEW X, NEW s \in Seq(X), NEW m
    PROVE  IsFiniteSet({i \in DOMAIN s : s[i] = m}) /\ Count(s, m) \in Nat
<1>1. Len(s) \in Nat /\ DOMAIN s = 1..Len(s) BY LenProperties
<1>2. IsFiniteSet(1..Len(s)) BY <1>1, FS_Interval
<1>3. {i \in DOMAIN s : s[i] = m} \in SUBSET (1..Len(s)) BY <1>1
<1>4. IsFiniteSet({i \in DOMAIN s : s[i] = m}) BY <1>2, <1>3, FS_Subset
<1> QED BY <1>4, FS_CardinalityType DEF Count

(* A message at the end counts once more. *)
LEMMA CountAppend ==
    ASSUME NEW X, NEW s \in Seq(X), NEW x \in X, NEW m
    PROVE  Count(s \o <<x>>, m) = Count(s, m) + IF x = m THEN 1 ELSE 0
<1> DEFINE t == s \o <<x>>
           A == {i \in DOMAIN s : s[i] = m}
           B == {i \in DOMAIN t : t[i] = m}
<1>1. /\ Len(s) \in Nat /\ DOMAIN s = 1..Len(s) /\ DOMAIN t = 1..(Len(s) + 1)
      /\ \A i \in 1..Len(s) : t[i] = s[i]
      /\ t[Len(s) + 1] = x
  BY AppendFacts
<1>2. IsFiniteSet(A) /\ Count(s, m) \in Nat BY CountFinite
<1>3. Count(s, m) = Cardinality(A) /\ Count(t, m) = Cardinality(B) BY DEF Count
<1> HIDE DEF t
<1>4. CASE x = m
  <2>1. B = A \cup {Len(s) + 1} BY <1>1, <1>4
  <2>2. Len(s) + 1 \notin A BY <1>1
  <2> HIDE DEF A, B
  <2>3. Cardinality(A \cup {Len(s) + 1}) = Cardinality(A) + 1 BY <1>2, <2>2, FS_AddElement
  <2> QED BY <1>3, <1>4, <2>1, <2>3 DEF t
<1>5. CASE x # m
  <2>1. \A i : i \in B <=> i \in A BY <1>1, <1>5
  <2> HIDE DEF A, B
  <2>2. B = A BY <2>1
  <2> QED BY <1>2, <1>3, <1>5, <2>2 DEF t
<1> QED BY <1>4, <1>5

(* The first message counts once less when it is taken. *)
LEMMA CountTail ==
    ASSUME NEW X, NEW s \in Seq(X), s # <<>>, NEW m
    PROVE  /\ Count(s, m) = Count(Tail(s), m) + (IF s[1] = m THEN 1 ELSE 0)
           /\ Count(Tail(s), m) \in Nat
<1> DEFINE t == Tail(s)
           A == {i \in DOMAIN s : s[i] = m}
           B == {i \in DOMAIN t : t[i] = m}
           C == A \ {1}
           g == [i \in B |-> i + 1]
<1>1. /\ t \in Seq(X) /\ Len(s) \in Nat /\ Len(s) > 0
      /\ DOMAIN s = 1..Len(s) /\ DOMAIN t = 1..(Len(s) - 1)
      /\ \A i \in 1..(Len(s) - 1) : t[i] = s[i + 1]
  BY TailFacts
<1>2. IsFiniteSet(A) /\ Count(s, m) \in Nat BY CountFinite
<1> HIDE DEF t
<1>3. IsFiniteSet(B) /\ Count(t, m) \in Nat BY <1>1, CountFinite
<1>4. Count(s, m) = Cardinality(A) /\ Count(t, m) = Cardinality(B) BY DEF Count
<1>5. ExistsBijection(B, C)
  <2>1. \A i \in B : i + 1 \in C BY <1>1
  <2>2. \A j \in C : j - 1 \in B /\ (j - 1) + 1 = j BY <1>1
  <2>3. B \subseteq Nat BY <1>1
  <2> HIDE DEF A, B, C
  <2>4. g \in [B -> C] BY <2>1
  <2>5. \A i, j \in B : g[i] = g[j] => i = j BY <2>3
  <2>6. \A j \in C : \E i \in B : g[i] = j BY <2>2
  <2> HIDE DEF g
  <2> QED BY <2>4, <2>5, <2>6 DEF ExistsBijection, Bijection, Injection, Surjection, IsInjective
<1>6. Cardinality(C) = Cardinality(B)
  <2> HIDE DEF A, B, C, g
  <2> QED BY <1>3, <1>5, FS_Bijection
<1>7. Cardinality(C) = IF 1 \in A THEN Cardinality(A) - 1 ELSE Cardinality(A)
  <2> HIDE DEF A, B, g
  <2> QED BY <1>2, FS_RemoveElement
<1>8. 1 \in A <=> s[1] = m BY <1>1
<1> HIDE DEF A, B, C, g
<1> QED BY <1>2, <1>3, <1>4, <1>6, <1>7, <1>8 DEF t

(* What is not there does not count. *)
LEMMA CountNone ==
    ASSUME NEW s, NEW m, \A i \in DOMAIN s : s[i] # m
    PROVE  Count(s, m) = 0
<1>1. {i \in DOMAIN s : s[i] = m} = {} OBVIOUS
<1> QED BY <1>1, FS_EmptySet DEF Count

(* What lies beyond the end of a prefix does not count if the message does not occur there. *)
LEMMA CountPrefix ==
    ASSUME NEW X, NEW s \in Seq(X), NEW t, NEW n \in Nat, n <= Len(s), DOMAIN t = 1..n,
           \A i \in 1..n : t[i] = s[i], NEW m, \A i \in DOMAIN s : s[i] = m => i <= n
    PROVE  Count(t, m) = Count(s, m)
<1>1. Len(s) \in Nat /\ DOMAIN s = 1..Len(s) BY LenProperties
<1>2. {i \in DOMAIN t : t[i] = m} = {i \in DOMAIN s : s[i] = m} BY <1>1
<1> QED BY <1>2 DEF Count

(* Coming in terms of Count. *)
LEMMA ComingCount ==
    \A f : Coming(f) = Count(net[R], Chunk(f)) /\ Coming(f)' = Count(net'[R], Chunk(f))
BY DEF Coming, Count

-----------------------------------------------------------------------------
(* The files: steps that leave the channel to the receiver alone *)

(* What the type invariant says of the files and of the channel to the receiver. *)
LEMMA FlowTypes ==
    ASSUME TypeOK
    PROVE  /\ S \in Roles /\ R \in Roles /\ S # R /\ NetOK
           /\ pc \in [Roles -> Places] /\ up \in {"new", "open", "down"}
           /\ net \in [Roles -> Seq(Messages)] /\ net[R] \in Seq(Messages)
           /\ Len(net[R]) \in Nat /\ DOMAIN net[R] = 1..Len(net[R])
           /\ acked \in Nat /\ acked <= Len(net[R])
           /\ cur.f \in Ids /\ open.f \in Ids /\ cur.n \in Nat /\ open.n \in Nat
           /\ open.on \in BOOLEAN /\ cur.on \in BOOLEAN
           /\ cur \in [f : Ids, n : Nat, on : BOOLEAN] /\ open \in [f : Ids, n : Nat, on : BOOLEAN]
           /\ sent \in [Ids -> Nat] /\ got \in [Ids -> Nat]
           /\ over \in SUBSET Ids /\ todo \in SUBSET Ids /\ picked \in SUBSET Ids /\ asked \in SUBSET Ids
           /\ results \in Seq(Ids)
           /\ answered \subseteq [f : Ids, of : Ids]
<1>1. S \in Roles /\ R \in Roles /\ S # R BY TwoRoles
<1>2. ControlOK /\ NetOK /\ FilesOK BY TypeParts
<1>3. net \in [Roles -> Seq(Messages)] /\ acked \in 0..Len(net[R]) BY <1>2 DEF NetOK
<1>4. net[R] \in Seq(Messages) BY <1>1, <1>3
<1>5. Len(net[R]) \in Nat /\ DOMAIN net[R] = 1..Len(net[R]) BY <1>4, LenProperties
<1>6. acked \in Nat /\ acked <= Len(net[R]) BY <1>3, <1>5
<1>7. cur \in [f : Ids, n : Nat, on : BOOLEAN] /\ open \in [f : Ids, n : Nat, on : BOOLEAN]
  BY <1>2 DEF FilesOK
<1>8. cur.f \in Ids /\ open.f \in Ids /\ cur.n \in Nat /\ open.n \in Nat
      /\ open.on \in BOOLEAN /\ cur.on \in BOOLEAN
  BY <1>7
<1> QED BY <1>1, <1>2, <1>3, <1>4, <1>5, <1>6, <1>7, <1>8 DEF ControlOK, FilesOK

(* Tasks that move on without a message keep what is said of the files. *)
LEMMA StaysFlow ==
    ASSUME TypeOK, Flow, net'[R] = net[R], acked' = acked, up' = up,
           UNCHANGED <<picked, tokens, open, sent, got, over, answered>>, asked \subseteq asked',
           pc'[S] = "file" => pc[S] = "file" /\ cur' = cur,
           pc'[S] = "send" => pc[S] \in {"send", "file"},
           pc'[S] \in {"drain", "ok"} => pc[S] \in {"drain", "ok"},
           pc[S] \in {"drain", "ok", "err"} => pc'[S] \in {"drain", "ok", "err"},
           pc'[R] \in {"recv", "result"} => pc[R] \in {"recv", "result"},
           pc'[R] = "result" => pc[R] = "result" \/ (open.on /\ net[R] # <<>> /\ ~net[R][1].bin)
    PROVE  HeadersFirst' /\ Regions' /\ Sending' /\ Receiving' /\ Kept' /\ Answered'
<1>1. HeadersFirst' BY DEF Flow, HeadersFirst, Fresh, Opened
<1>2. Regions' BY DEF Flow, Regions, Reading, Opened
<1>3. Sending'
  <2>1. Sending BY DEF Flow
  <2>2. (pc[S] \in {"send", "file"} => up = "down" \/ tokens = picked)' BY <2>1 DEF Sending
  <2>3. (pc[S] = "file" => cur.on /\ cur.f \in asked)' BY <2>1 DEF Sending
  <2>4. (pc[S] = "file" /\ up = "open" =>
           /\ cur.f \in picked
           /\ IF net[R] = <<>> THEN Reading(cur.f)
              ELSE net[R][Len(net[R])] \in {Header(cur.f), Chunk(cur.f)})'
    BY <2>1 DEF Sending, Reading, Opened
  <2> QED BY <2>2, <2>3, <2>4 DEF Sending
<1>4. Receiving'
  <2>1. Receiving BY DEF Flow
  <2>2. (pc[R] \in {"recv", "result"} => \A i \in DOMAIN net[R] : net[R][i] \in Stream \cup {Delimiter})'
    BY <2>1 DEF Receiving, Stream
  <2>3. (pc[R] \in {"recv", "result"} => \A i \in DOMAIN net[R] : net[R][i] = Delimiter =>
           pc[S] \in {"drain", "ok", "err"})'
    BY <2>1 DEF Receiving
  <2>4. (open.on => /\ open.f \in asked \cap picked \cap Files /\ open.f \notin over
                    /\ open.n = got[open.f] /\ open.n <= Size[open.f])'
    BY <2>1 DEF Receiving
  <2>5. (pc[R] = "result" => open.on)' BY <2>1 DEF Receiving
  <2>6. (pc[R] = "result" /\ up = "open" => net[R] # <<>> /\ ~net[R][1].bin)' BY <2>1 DEF Receiving
  <2> QED BY <2>2, <2>3, <2>4, <2>5, <2>6 DEF Receiving
<1>5. Kept' BY DEF Flow, Kept, Coming, Stream
<1>6. Answered' BY DEF Flow, Answered, Opened
<1> QED BY <1>1, <1>2, <1>3, <1>4, <1>5, <1>6

(* The result of the application only concerns what was rated. *)
LEMMA RatedStays ==
    ASSUME Flow, UNCHANGED <<over, todo, open, results, answered>>,
           pc[R] \in {"result", "err"} => pc'[R] \in {"result", "err"}
    PROVE  Rated'
BY DEF Flow, Rated

(* The calls and the tasks go on without a file. *)
LEMMA QuietFlow == TypeOK /\ Flow /\ Quiet => Flow'
<1> SUFFICES ASSUME TypeOK, Flow, Quiet PROVE Flow' OBVIOUS
<1>1. /\ net' = net /\ acked' = acked /\ up' = up /\ pc' = pc /\ cur' = cur /\ asked' = asked
      /\ UNCHANGED <<picked, tokens, open, sent, got, over, answered>>
      /\ UNCHANGED <<over, todo, open, results, answered>>
  BY DEF Quiet
<1>2. HeadersFirst' /\ Regions' /\ Sending' /\ Receiving' /\ Kept' /\ Answered' BY <1>1, StaysFlow
<1>3. Rated' BY <1>1, RatedStays
<1> QED BY <1>2, <1>3 DEF Flow

(* A rating is put in the channel of results. *)
LEMMA RateFlow ==
    ASSUME TypeOK, Flow, NEW f \in Ids, Rate(f)
    PROVE  Flow'
<1>1. /\ net' = net /\ acked' = acked /\ up' = up /\ pc' = pc /\ cur' = cur /\ asked' = asked
      /\ UNCHANGED <<picked, tokens, open, sent, got, over, answered>>
  BY DEF Rate, netVars, senderVars
<1>2. HeadersFirst' /\ Regions' /\ Sending' /\ Receiving' /\ Kept' /\ Answered' BY <1>1, StaysFlow
<1>3. /\ f \in todo /\ (open.f # f \/ pc[R] = "result") /\ results = <<>>
      /\ results' = <<f>> /\ todo' = todo \ {f}
  BY DEF Rate
<1>4. Rated'
  <2>1. SUFFICES ASSUME over' = {} 
                 PROVE  (/\ todo \subseteq (IF open.on THEN {open.f} ELSE {})
                         /\ results # <<>> => open.on /\ results = <<open.f>> /\ todo = {} /\ pc[R] \in {"result", "err"}
                         /\ \A a \in answered : a.f = a.of)'
    BY DEF Rated
  <2>2. /\ todo \subseteq (IF open.on THEN {open.f} ELSE {})
        /\ \A a \in answered : a.f = a.of
    BY <1>1, <2>1 DEF Flow, Rated
  <2>3. open.on /\ f = open.f /\ todo = {f} /\ pc[R] = "result" BY <1>3, <2>2
  <2> QED BY <1>1, <1>3, <2>2, <2>3
<1> QED BY <1>2, <1>4 DEF Flow

(* A task fails once the connection is gone. *)
LEMMA FailFlow ==
    ASSUME TypeOK, Flow, NEW p \in Roles, TaskFails(p)
    PROVE  Flow'
<1>a. S \in Roles /\ R \in Roles /\ S # R /\ pc \in [Roles -> Places] /\ (p = S \/ p = R)
  BY TwoRoles, FlowTypes
<1>1. /\ net' = net /\ acked' = acked /\ up' = up /\ cur' = cur /\ asked' = asked
      /\ UNCHANGED <<picked, tokens, open, sent, got, over, answered>>
      /\ UNCHANGED <<over, todo, open, results, answered>>
      /\ pc' = [pc EXCEPT ![p] = "err"] /\ up = "down" /\ pc[p] \notin {"ok", "err", "desync", "recv"}
  BY DEF TaskFails, Goto, netVars, fileVars, senderVars, receiverVars
<1>2. pc'[p] = "err" /\ \A q \in Roles \ {p} : pc'[q] = pc[q] BY <1>a, <1>1
<1>3. /\ pc'[S] = "file" => pc[S] = "file"
      /\ pc'[S] = "send" => pc[S] = "send"
      /\ pc'[S] \in {"drain", "ok"} => pc[S] \in {"drain", "ok"}
      /\ pc[S] \in {"drain", "ok", "err"} => pc'[S] \in {"drain", "ok", "err"}
      /\ pc'[R] \in {"recv", "result"} => pc'[R] = pc[R]
      /\ pc[R] \in {"result", "err"} => pc'[R] \in {"result", "err"}
  BY <1>a, <1>2
<1>4. HeadersFirst' /\ Regions' /\ Sending' /\ Receiving' /\ Kept' /\ Answered'
  BY <1>1, <1>3, StaysFlow
<1>5. Rated' BY <1>1, <1>3, RatedStays
<1> QED BY <1>4, <1>5 DEF Flow

(* What is lost when the connection is closed is the end of the stream, and nothing of it once the *)
(* sender has seen its buffer empty.                                                             *)
LEMMA ClosingFlow ==
    ASSUME TypeOK, Flow, Closing
    PROVE  Flow'
<1>a. PICK n \in acked..Len(net[R]) :
         DOMAIN net'[R] = 1..n /\ \A i \in 1..n : net'[R][i] = net[R][i] /\ i \in DOMAIN net[R]
  BY ClosingPrefix
<1>b. acked \in Nat /\ Len(net[R]) \in Nat /\ DOMAIN net[R] = 1..Len(net[R]) /\ net[R] \in Seq(Messages)
  BY FlowTypes
<1>c. n \in Nat /\ acked <= n /\ n <= Len(net[R]) BY <1>b
<1>d. /\ up' = "down" /\ pc' = pc /\ acked' = acked /\ cur' = cur /\ asked' = asked
      /\ UNCHANGED <<picked, tokens, open, sent, got, over, answered>>
      /\ UNCHANGED <<over, todo, open, results, answered>>
  BY DEF Closing
<1>1. HeadersFirst' BY <1>a, <1>d DEF Flow, HeadersFirst, Fresh, Opened
<1>2. Regions'
  <2>1. ASSUME NEW f \in Ids, NEW i \in DOMAIN net'[R], net'[R][i] = Chunk(f)
        PROVE  \/ \E j \in 1..(i - 1) : net'[R][j] = Header(f)
                                        /\ \A k \in (j + 1)..i : net'[R][k] = Chunk(f)
               \/ Reading(f) /\ \A k \in 1..i : net'[R][k] = Chunk(f)
    <3>1. i \in 1..n /\ net[R][i] = Chunk(f) /\ i \in DOMAIN net[R] /\ \A k \in 1..i : net'[R][k] = net[R][k]
      BY <1>a, <1>c, <2>1
    <3>2. \/ \E j \in 1..(i - 1) : net[R][j] = Header(f) /\ \A k \in (j + 1)..i : net[R][k] = Chunk(f)
          \/ Reading(f) /\ \A k \in 1..i : net[R][k] = Chunk(f)
      BY <3>1 DEF Flow, Regions
    <3>3. CASE \E j \in 1..(i - 1) : net[R][j] = Header(f) /\ \A k \in (j + 1)..i : net[R][k] = Chunk(f)
      <4>1. PICK j \in 1..(i - 1) : net[R][j] = Header(f) /\ \A k \in (j + 1)..i : net[R][k] = Chunk(f)
        BY <3>3
      <4>2. j \in 1..i /\ \A k \in (j + 1)..i : k \in 1..i BY <3>1, <1>c
      <4> QED BY <3>1, <4>1, <4>2
    <3> QED BY <3>1, <3>2, <3>3
  <2> QED BY <1>d, <2>1 DEF Regions, Reading, Opened
<1>3. Sending' BY <1>d DEF Flow, Sending
<1>4. Receiving'
  <2>1. Receiving BY DEF Flow
  <2>2. (pc[R] \in {"recv", "result"} => \A i \in DOMAIN net[R] : net[R][i] \in Stream \cup {Delimiter})'
    BY <1>a, <1>d, <2>1 DEF Receiving, Stream
  <2>3. (pc[R] \in {"recv", "result"} => \A i \in DOMAIN net[R] : net[R][i] = Delimiter =>
           pc[S] \in {"drain", "ok", "err"})'
    BY <1>a, <1>d, <2>1 DEF Receiving
  <2>4. (open.on => /\ open.f \in asked \cap picked \cap Files /\ open.f \notin over
                    /\ open.n = got[open.f] /\ open.n <= Size[open.f])'
    BY <1>d, <2>1 DEF Receiving
  <2>5. (pc[R] = "result" => open.on)' BY <1>d, <2>1 DEF Receiving
  <2>6. (pc[R] = "result" /\ up = "open" => net[R] # <<>> /\ ~net[R][1].bin)' BY <1>d
  <2> QED BY <2>2, <2>3, <2>4, <2>5, <2>6 DEF Receiving
<1>5. Kept'
  <2>1. Kept BY DEF Flow
  <2>2. ASSUME pc[S] \in {"drain", "ok"}, NEW f \in Files \ over PROVE got[f] + Coming(f)' = sent[f]
    <3>1. f \in Ids BY MessageTypes
    <3>2. \A i \in DOMAIN net[R] : net[R][i] = Chunk(f) => i <= n
      <4>1. \A i \in DOMAIN net[R] : net[R][i] = Chunk(f) => i <= acked
        BY <2>1, <2>2, <3>1, StreamFacts DEF Kept
      <4> QED BY <1>b, <1>c, <4>1
    <3>3. Count(net'[R], Chunk(f)) = Count(net[R], Chunk(f)) BY <1>a, <1>b, <1>c, <3>2, CountPrefix
    <3>4. got[f] + Coming(f) = sent[f] BY <2>1, <2>2 DEF Kept
    <3> QED BY <3>3, <3>4, ComingCount
  <2>3. (pc[S] \in {"drain", "ok"} => \A i \in DOMAIN net[R] : net[R][i] \in Stream => i <= acked)'
    BY <1>a, <1>d, <2>1 DEF Kept, Stream
  <2>4. (up # "down" \/ pc[S] \in {"drain", "ok"} => \A f \in Files \ over : got[f] + Coming(f) = sent[f])'
    BY <1>d, <2>2
  <2> QED BY <2>3, <2>4 DEF Kept
<1>6. Answered' BY <1>a, <1>d DEF Flow, Answered, Opened
<1>7. Rated' BY <1>d, RatedStays
<1> QED BY <1>1, <1>2, <1>3, <1>4, <1>5, <1>6, <1>7 DEF Flow

-----------------------------------------------------------------------------
(* The files: what the sender adds to the channel *)

(* A message at the end of the channel to the receiver. *)
Appends(m) ==
    /\ DOMAIN net'[R] = 1..(Len(net[R]) + 1)
    /\ \A i \in 1..Len(net[R]) : net'[R][i] = net[R][i]
    /\ net'[R][Len(net[R]) + 1] = m
    /\ Len(net'[R]) = Len(net[R]) + 1
    /\ net'[R] # <<>>

(* What the sender sends arrives behind everything else. *)
LEMMA SendAppends ==
    ASSUME TypeOK, NEW m \in Messages, Send(S, <<m>>)
    PROVE  /\ Appends(m) /\ net'[R] = net[R] \o <<m>>
           /\ \A x : Count(net'[R], x) = Count(net[R], x) + IF m = x THEN 1 ELSE 0
<1>a. NetOK /\ net[R] \in Seq(Messages) /\ S \in Roles /\ Other(S) = R BY FlowTypes, TwoRoles
<1>b. <<m>> \in Seq(Messages) OBVIOUS
<1>1. net'[R] = net[R] \o <<m>> BY <1>a, <1>b, SendNet
<1>2. Appends(m) BY <1>a, <1>1, AppendFacts DEF Appends
<1>3. \A x : Count(net[R] \o <<m>>, x) = Count(net[R], x) + IF m = x THEN 1 ELSE 0
  BY <1>a, CountAppend
<1> QED BY <1>1, <1>2, <1>3

(* A message at the end keeps what the receiver will make of those before it. *)
LEMMA AppendReceiving ==
    ASSUME TypeOK, Flow, NEW m \in Stream \cup {Delimiter}, Appends(m),
           pc'[R] = pc[R], pc[S] \notin {"drain", "ok", "err"}, up' = up, UNCHANGED <<picked, open, got, over>>,
           asked \subseteq asked', m = Delimiter => pc'[S] \in {"drain", "ok", "err"}
    PROVE  Receiving'
<1>1. Receiving BY DEF Flow
<1>a. Len(net[R]) \in Nat /\ DOMAIN net[R] = 1..Len(net[R]) /\ net[R] \in Seq(Messages) BY FlowTypes
<1>2. \A i \in DOMAIN net'[R] : (i \in DOMAIN net[R] /\ net'[R][i] = net[R][i]) \/ net'[R][i] = m
  BY <1>a DEF Appends
<1>3. (pc[R] \in {"recv", "result"} => \A i \in DOMAIN net[R] : net[R][i] \in Stream \cup {Delimiter})'
  BY <1>1, <1>2 DEF Receiving, Stream
<1>4. (pc[R] \in {"recv", "result"} => \A i \in DOMAIN net[R] : net[R][i] = Delimiter =>
         pc[S] \in {"drain", "ok", "err"})'
  BY <1>1, <1>2 DEF Receiving
<1>5. (open.on => /\ open.f \in asked \cap picked \cap Files /\ open.f \notin over
                  /\ open.n = got[open.f] /\ open.n <= Size[open.f])'
  BY <1>1 DEF Receiving
<1>6. (pc[R] = "result" => open.on)' BY <1>1 DEF Receiving
<1>7. (pc[R] = "result" /\ up = "open" => net[R] # <<>> /\ ~net[R][1].bin)'
  <2>1. SUFFICES ASSUME pc[R] = "result", up = "open" PROVE net'[R] # <<>> /\ ~net'[R][1].bin OBVIOUS
  <2>2. net[R] # <<>> /\ ~net[R][1].bin BY <1>1, <2>1 DEF Receiving
  <2>3. 1 \in 1..Len(net[R]) BY <1>a, <2>2, TailFacts
  <2> QED BY <2>2, <2>3 DEF Appends
<1> QED BY <1>3, <1>4, <1>5, <1>6, <1>7 DEF Receiving

(* The chunks before a new message stay where they are. *)
LEMMA AppendRegions ==
    ASSUME TypeOK, Flow, NEW m, Appends(m), UNCHANGED <<open, over>>,
           \A f \in Ids : m = Chunk(f) =>
             IF net[R] = <<>> THEN Reading(f) ELSE net[R][Len(net[R])] \in {Header(f), Chunk(f)}
    PROVE  Regions'
<1>a. Len(net[R]) \in Nat /\ DOMAIN net[R] = 1..Len(net[R]) /\ net[R] \in Seq(Messages) BY FlowTypes
<1> DEFINE L == Len(net[R])
<1>b. L \in Nat /\ DOMAIN net[R] = 1..L BY <1>a
<1>c. /\ DOMAIN net'[R] = 1..(L + 1) /\ \A i \in 1..L : net'[R][i] = net[R][i]
  BY DEF Appends
<1>d. net'[R][L + 1] = m BY DEF Appends
<1>e. net[R] # <<>> => L > 0 BY <1>a, TailFacts
<1>f. net[R] = <<>> => L = 0 BY EmptySeq
<1> HIDE DEF L
<1>1. ASSUME NEW f \in Ids, NEW i \in 1..L, net[R][i] = Chunk(f)
      PROVE  \/ \E j \in 1..(i - 1) : net'[R][j] = Header(f)
                                      /\ \A k \in (j + 1)..i : net'[R][k] = Chunk(f)
             \/ Reading(f) /\ \A k \in 1..i : net'[R][k] = Chunk(f)
  <2>1. \A k \in 1..i : net'[R][k] = net[R][k] BY <1>b, <1>c
  <2>2. \/ \E j \in 1..(i - 1) : net[R][j] = Header(f) /\ \A k \in (j + 1)..i : net[R][k] = Chunk(f)
        \/ Reading(f) /\ \A k \in 1..i : net[R][k] = Chunk(f)
    BY <1>1, <1>b DEF Flow, Regions
  <2>3. CASE \E j \in 1..(i - 1) : net[R][j] = Header(f) /\ \A k \in (j + 1)..i : net[R][k] = Chunk(f)
    <3>1. PICK j \in 1..(i - 1) : net[R][j] = Header(f) /\ \A k \in (j + 1)..i : net[R][k] = Chunk(f)
      BY <2>3
    <3>2. j \in 1..i /\ \A k \in (j + 1)..i : k \in 1..i BY <1>b
    <3> QED BY <2>1, <3>1, <3>2
  <2> QED BY <2>1, <2>2, <2>3
<1>2. ASSUME NEW f \in Ids, m = Chunk(f)
      PROVE  \/ \E j \in 1..L : net'[R][j] = Header(f)
                                /\ \A k \in (j + 1)..(L + 1) : net'[R][k] = Chunk(f)
             \/ Reading(f) /\ \A k \in 1..(L + 1) : net'[R][k] = Chunk(f)
  <2>1. CASE net[R] = <<>>
    <3>1. L = 0 /\ Reading(f) BY <2>1, <1>2, <1>f
    <3> QED BY <1>2, <1>d, <3>1
  <2>2. CASE net[R] # <<>>
    <3>1. L \in 1..L /\ net[R][L] \in {Header(f), Chunk(f)} BY <2>2, <1>2, <1>b, <1>e DEF L
    <3>2. CASE net[R][L] = Header(f)
      <4>1. \A k \in (L + 1)..(L + 1) : net'[R][k] = Chunk(f) BY <1>b, <1>2, <1>d
      <4> QED BY <3>1, <3>2, <4>1, <1>c
    <3>3. CASE net[R][L] = Chunk(f)
      <4>1. \/ \E j \in 1..(L - 1) : net'[R][j] = Header(f)
                                     /\ \A k \in (j + 1)..L : net'[R][k] = Chunk(f)
            \/ Reading(f) /\ \A k \in 1..L : net'[R][k] = Chunk(f)
        BY <3>1, <3>3, <1>1
      <4>2. ASSUME NEW j \in Nat, \A k \in (j + 1)..L : net'[R][k] = Chunk(f)
            PROVE  \A k \in (j + 1)..(L + 1) : net'[R][k] = Chunk(f)
        <5>1. \A k \in (j + 1)..(L + 1) : k \in (j + 1)..L \/ k = L + 1 BY <1>b
        <5> QED BY <5>1, <4>2, <1>2, <1>d
      <4>3. CASE \E j \in 1..(L - 1) : net'[R][j] = Header(f)
                                       /\ \A k \in (j + 1)..L : net'[R][k] = Chunk(f)
        <5>1. PICK j \in 1..(L - 1) : net'[R][j] = Header(f)
                                       /\ \A k \in (j + 1)..L : net'[R][k] = Chunk(f)
          BY <4>3
        <5>2. j \in Nat /\ j \in 1..L BY <1>b
        <5> QED BY <4>2, <5>1, <5>2
      <4>4. CASE Reading(f) /\ \A k \in 1..L : net'[R][k] = Chunk(f)
        <5>1. \A k \in 1..(L + 1) : k \in 1..L \/ k = L + 1 BY <1>b
        <5> QED BY <4>4, <5>1, <1>2, <1>d
      <4> QED BY <4>1, <4>3, <4>4
    <3> QED BY <3>1, <3>2, <3>3
  <2> QED BY <2>1, <2>2
<1>3. ASSUME NEW f \in Ids, NEW i \in DOMAIN net'[R], net'[R][i] = Chunk(f)
      PROVE  \/ \E j \in 1..(i - 1) : net'[R][j] = Header(f)
                                      /\ \A k \in (j + 1)..i : net'[R][k] = Chunk(f)
             \/ Reading(f) /\ \A k \in 1..i : net'[R][k] = Chunk(f)
  <2>1. i \in 1..L \/ i = L + 1 BY <1>b, <1>c
  <2>2. CASE i \in 1..L
    <3>1. net[R][i] = Chunk(f) BY <2>2, <1>c, <1>3
    <3> QED BY <2>2, <3>1, <1>1
  <2>3. CASE i = L + 1
    <3>1. m = Chunk(f) /\ i - 1 = L BY <1>b, <2>3, <1>d, <1>3
    <3> QED BY <1>2, <2>3, <3>1
  <2> QED BY <2>1, <2>2, <2>3
<1> QED BY <1>3 DEF Regions, Reading, Opened

(* A file is begun: its header goes out, or nothing if it was not picked. *)
LEMMA SendFileFlow ==
    ASSUME TypeOK, Flow, NEW f \in Ids, SendFile(f)
    PROVE  Flow'
<1>a. /\ Len(net[R]) \in Nat /\ DOMAIN net[R] = 1..Len(net[R]) /\ S \in Roles /\ R \in Roles /\ S # R
      /\ pc \in [Roles -> Places]
  BY FlowTypes
<1>b. /\ pc[S] = "send" /\ f \notin asked /\ up = "open" /\ asked' = asked \cup {f}
      /\ acked' = acked /\ up' = up /\ UNCHANGED <<picked, tokens, open, sent, got, over, answered>>
      /\ UNCHANGED <<over, todo, open, results, answered>>
  BY DEF SendFile, receiverVars
<1>c. /\ \A g \in Ids : \A i \in DOMAIN net[R] : net[R][i] \in {Header(g), Chunk(g)} => g \in asked \cap picked
      /\ \A g \in Ids : g \notin asked => Fresh(g) /\ sent[g] = 0
      /\ \A g \in Ids : \A i \in DOMAIN net[R] : net[R][i] = Header(g) =>
           Fresh(g) /\ \A j \in DOMAIN net[R] : net[R][j] = Header(g) => i = j
  BY DEF Flow, HeadersFirst
<1>1. CASE f \notin tokens /\ UNCHANGED <<pc, cur, net>>
  <2>1. HeadersFirst' /\ Regions' /\ Sending' /\ Receiving' /\ Kept' /\ Answered'
    BY <1>1, <1>b, StaysFlow
  <2>2. Rated' BY <1>1, <1>b, RatedStays
  <2> QED BY <2>1, <2>2 DEF Flow
<1>2. CASE f \in tokens /\ Send(S, <<Header(f)>>) /\ Goto(S, "file") /\ \E n \in IF f = Ghost THEN {1} ELSE 0..(Size[f] + 1) : cur' = [f |-> f, n |-> n, on |-> TRUE]
  <2>1. /\ Appends(Header(f))
        /\ \A x : Count(net'[R], x) = Count(net[R], x) + IF Header(f) = x THEN 1 ELSE 0
    BY <1>2, MessageTypes, SendAppends
  <2>2. pc'[S] = "file" /\ pc'[R] = pc[R] BY <1>a, <1>2 DEF Goto
  <2>3. cur'.f = f /\ cur'.on = TRUE BY <1>2
  <2>4. f \in picked BY <1>b, <1>2 DEF Flow, Sending
  <2>5. \A i \in DOMAIN net'[R] : \/ i \in DOMAIN net[R] /\ net'[R][i] = net[R][i]
                                  \/ i = Len(net[R]) + 1 /\ net'[R][i] = Header(f) /\ i \notin DOMAIN net[R]
    BY <1>a, <2>1 DEF Appends
  <2>6. HeadersFirst'
    <3>1. \A g \in Ids : \A i \in DOMAIN net'[R] : net'[R][i] = Header(g) =>
             Fresh(g) /\ \A j \in DOMAIN net'[R] : net'[R][j] = Header(g) => i = j
      BY <1>b, <1>c, <2>5, StreamFacts
    <3>2. \A g \in Ids : \A i \in DOMAIN net'[R] : net'[R][i] \in {Header(g), Chunk(g)} =>
             g \in asked' \cap picked
      BY <1>b, <1>c, <2>4, <2>5, StreamFacts
    <3> QED BY <3>1, <3>2, <1>b, <1>c DEF HeadersFirst, Fresh, Opened
  <2>7. Regions' BY <1>b, <2>1, StreamFacts, AppendRegions
  <2>8. Sending'
    <3>1. (pc[S] \in {"send", "file"} => up = "down" \/ tokens = picked)' BY <1>b DEF Flow, Sending
    <3>2. (pc[S] = "file" => cur.on /\ cur.f \in asked)' BY <1>b, <2>3
    <3>3. net'[R] # <<>> /\ net'[R][Len(net'[R])] = Header(f) BY <2>1 DEF Appends
    <3> QED BY <1>b, <2>3, <2>4, <3>1, <3>2, <3>3 DEF Sending
  <2>9. Receiving' BY <1>b, <2>1, <2>2, StreamFacts, AppendReceiving
  <2>10. Kept'
    <3>1. ASSUME NEW g \in Files \ over PROVE got[g] + Coming(g)' = sent[g]
      <4>1. g \in Ids /\ got[g] + Coming(g) = sent[g] BY <1>b, MessageTypes DEF Flow, Kept
      <4>2. Count(net'[R], Chunk(g)) = Count(net[R], Chunk(g)) + 0 BY <2>1, <4>1, StreamFacts
      <4>3. Count(net[R], Chunk(g)) \in Nat BY FlowTypes, CountFinite
      <4> QED BY <4>1, <4>2, <4>3, ComingCount
    <3> QED BY <1>b, <2>2, <3>1 DEF Kept
  <2>11. Answered'
    <3>1. SUFFICES ASSUME NEW a \in answered
                   PROVE  (/\ a.f \in asked \cap Files /\ got[a.f] = sent[a.f] /\ got[a.f] <= Size[a.f]
                           /\ ~Opened(a.f) /\ ~(pc[S] = "file" /\ cur.f = a.f)
                           /\ \A i \in DOMAIN net[R] : net[R][i] \notin {Header(a.f), Chunk(a.f)})'
      BY <1>b DEF Answered
    <3>2. /\ a.f \in asked \cap Files /\ got[a.f] = sent[a.f] /\ got[a.f] <= Size[a.f] /\ ~Opened(a.f)
          /\ \A i \in DOMAIN net[R] : net[R][i] \notin {Header(a.f), Chunk(a.f)}
      BY DEF Flow, Answered
    <3>3. a.f # f /\ a.f \in Ids BY <1>b, <3>2, MessageTypes
    <3> QED BY <1>b, <2>3, <2>5, <3>2, <3>3, StreamFacts DEF Opened
  <2>12. Rated' BY <1>b, <2>2, RatedStays
  <2> QED BY <2>6, <2>7, <2>8, <2>9, <2>10, <2>11, <2>12 DEF Flow
<1> QED BY <1>1, <1>2 DEF SendFile

(* A chunk of the file goes out. *)
LEMMA SendChunkFlow ==
    ASSUME TypeOK, Flow, cur.n > 0, pc[S] = "file", up = "open", pc' = pc,
           Send(S, <<Chunk(cur.f)>>), sent' = [sent EXCEPT ![cur.f] = @ + 1],
           cur' = [cur EXCEPT !.n = @ - 1], UNCHANGED <<acked, up, tokens, asked, receiverVars>>
    PROVE  Flow'
<1> DEFINE f == cur.f
<1>a. /\ Len(net[R]) \in Nat /\ DOMAIN net[R] = 1..Len(net[R]) /\ net[R] \in Seq(Messages)
      /\ cur \in [f : Ids, n : Nat, on : BOOLEAN] /\ f \in Ids
      /\ sent \in [Ids -> Nat] /\ got \in [Ids -> Nat]
  BY FlowTypes
<1>b. UNCHANGED <<picked, tokens, open, got, over, answered>>
      /\ UNCHANGED <<over, todo, open, results, answered>>
  BY DEF receiverVars
<1>c. cur.on /\ f \in asked /\ f \in picked
      /\ IF net[R] = <<>> THEN Reading(f) ELSE net[R][Len(net[R])] \in {Header(f), Chunk(f)}
  BY DEF Flow, Sending
<1>d. cur'.f = f /\ cur'.on = cur.on BY <1>a
<1>1. /\ Appends(Chunk(f))
      /\ \A x : Count(net'[R], x) = Count(net[R], x) + IF Chunk(f) = x THEN 1 ELSE 0
  BY <1>a, MessageTypes, SendAppends
<1>e. \A g \in Ids : sent'[g] = IF g = f THEN sent[g] + 1 ELSE sent[g] BY <1>a
<1> HIDE DEF f
<1>2. \A i \in DOMAIN net'[R] : \/ i \in DOMAIN net[R] /\ net'[R][i] = net[R][i]
                                \/ net'[R][i] = Chunk(f)
  BY <1>a, <1>1 DEF Appends
<1>3. HeadersFirst'
  <2>1. HeadersFirst BY DEF Flow
  <2>2. \A g \in Ids : \A i \in DOMAIN net'[R] : net'[R][i] = Header(g) =>
           Fresh(g) /\ \A j \in DOMAIN net'[R] : net'[R][j] = Header(g) => i = j
    BY <2>1, <1>a, <1>2, StreamFacts DEF HeadersFirst
  <2>3. \A g \in Ids : \A i \in DOMAIN net'[R] : net'[R][i] \in {Header(g), Chunk(g)} =>
           g \in asked \cap picked
    BY <2>1, <1>a, <1>c, <1>2, StreamFacts DEF HeadersFirst
  <2>4. \A g \in Ids : g \notin asked => Fresh(g) /\ sent'[g] = 0
    BY <2>1, <1>c, <1>e DEF HeadersFirst
  <2> QED BY <1>b, <2>2, <2>3, <2>4 DEF HeadersFirst, Fresh, Opened
<1>4. Regions' BY <1>a, <1>b, <1>c, <1>1, StreamFacts, AppendRegions
<1>5. Sending'
  <2>1. (pc[S] \in {"send", "file"} => up = "down" \/ tokens = picked)' BY <1>b DEF Flow, Sending
  <2>2. (pc[S] = "file" => cur.on /\ cur.f \in asked)' BY <1>c, <1>d
  <2>3. net'[R] # <<>> /\ net'[R][Len(net'[R])] = Chunk(f) BY <1>1 DEF Appends
  <2> QED BY <1>b, <1>c, <1>d, <2>1, <2>2, <2>3 DEF Sending
<1>6. Receiving' BY <1>a, <1>b, <1>1, StreamFacts, AppendReceiving
<1>7. Kept'
  <2>1. ASSUME NEW g \in Files \ over PROVE got[g] + Coming(g)' = sent'[g]
    <3>1. g \in Ids /\ got[g] + Coming(g) = sent[g] BY MessageTypes DEF Flow, Kept
    <3>2. Count(net'[R], Chunk(g)) = Count(net[R], Chunk(g)) + IF g = f THEN 1 ELSE 0
      BY <1>a, <1>1, <3>1, StreamFacts
    <3>3. Count(net[R], Chunk(g)) \in Nat /\ got[g] \in Nat /\ sent[g] \in Nat BY <1>a, <3>1, CountFinite
    <3>4. Coming(g) = Count(net[R], Chunk(g)) /\ Coming(g)' = Count(net'[R], Chunk(g)) BY ComingCount
    <3>5. sent'[g] = sent[g] + IF g = f THEN 1 ELSE 0 BY <1>e, <3>1, <3>3
    <3> QED BY <3>1, <3>2, <3>3, <3>4, <3>5
  <2> QED BY <1>b, <2>1 DEF Kept
<1>8. Answered'
  <2>1. SUFFICES ASSUME NEW a \in answered
                 PROVE  (/\ a.f \in asked \cap Files /\ got[a.f] = sent[a.f] /\ got[a.f] <= Size[a.f]
                         /\ ~Opened(a.f) /\ ~(pc[S] = "file" /\ cur.f = a.f)
                         /\ \A i \in DOMAIN net[R] : net[R][i] \notin {Header(a.f), Chunk(a.f)})'
    BY <1>b DEF Answered
  <2>2. /\ a.f \in asked \cap Files /\ got[a.f] = sent[a.f] /\ got[a.f] <= Size[a.f] /\ ~Opened(a.f)
        /\ a.f # f
        /\ \A i \in DOMAIN net[R] : net[R][i] \notin {Header(a.f), Chunk(a.f)}
    BY DEF Flow, Answered, f
  <2>3. a.f \in Ids BY <2>2, MessageTypes
  <2>4. \A i \in DOMAIN net'[R] : net'[R][i] \notin {Header(a.f), Chunk(a.f)}
    BY <1>a, <1>2, <2>2, <2>3, StreamFacts
  <2>5. sent'[a.f] = sent[a.f] /\ ~Opened(a.f)' BY <1>b, <1>e, <2>2, <2>3 DEF Opened
  <2>6. ~(pc'[S] = "file" /\ cur'.f = a.f) BY <1>d, <2>2
  <2> QED BY <1>b, <2>2, <2>4, <2>5, <2>6
<1>9. Rated' BY <1>b, RatedStays
<1> QED BY <1>3, <1>4, <1>5, <1>6, <1>7, <1>8, <1>9 DEF Flow

(* All that was sent has arrived when the delimiter goes out. *)
LEMMA FlushFlow ==
    ASSUME TypeOK, Flow, Flush
    PROVE  Flow'
<1>a. /\ Len(net[R]) \in Nat /\ DOMAIN net[R] = 1..Len(net[R]) /\ net[R] \in Seq(Messages)
      /\ S \in Roles /\ R \in Roles /\ S # R /\ pc \in [Roles -> Places]
  BY FlowTypes
<1>b. /\ pc[S] = "flush" /\ up = "open" /\ acked' = Len(net[R]) /\ up' = up
      /\ UNCHANGED <<picked, tokens, open, sent, got, over, answered>>
      /\ UNCHANGED <<over, todo, open, results, answered>> /\ cur' = cur /\ asked' = asked
  BY DEF Flush, BufferEmpty, fileVars, senderVars, receiverVars
<1>c. pc'[S] = "drain" /\ pc'[R] = pc[R] BY <1>a DEF Flush, Goto
<1>1. /\ Appends(Delimiter)
      /\ \A x : Count(net'[R], x) = Count(net[R], x) + IF Delimiter = x THEN 1 ELSE 0
  BY MessageTypes, SendAppends DEF Flush
<1>2. \A i \in DOMAIN net'[R] : \/ i \in DOMAIN net[R] /\ net'[R][i] = net[R][i] /\ i <= Len(net[R])
                                \/ net'[R][i] = Delimiter
  BY <1>a, <1>1 DEF Appends
<1>3. HeadersFirst'
  <2>1. HeadersFirst BY DEF Flow
  <2>2. \A g \in Ids : \A i \in DOMAIN net'[R] : net'[R][i] = Header(g) =>
           Fresh(g) /\ \A j \in DOMAIN net'[R] : net'[R][j] = Header(g) => i = j
    BY <2>1, <1>2, StreamFacts DEF HeadersFirst
  <2>3. \A g \in Ids : \A i \in DOMAIN net'[R] : net'[R][i] \in {Header(g), Chunk(g)} =>
           g \in asked \cap picked
    BY <2>1, <1>2, StreamFacts DEF HeadersFirst
  <2> QED BY <1>b, <2>1, <2>2, <2>3 DEF HeadersFirst, Fresh, Opened
<1>4. Regions' BY <1>b, <1>1, StreamFacts, AppendRegions
<1>5. Sending' BY <1>c DEF Sending
<1>6. Receiving' BY <1>b, <1>c, <1>1, AppendReceiving
<1>7. Kept'
  <2>1. ASSUME NEW g \in Files \ over PROVE got[g] + Coming(g)' = sent[g]
    <3>1. g \in Ids /\ got[g] + Coming(g) = sent[g] BY <1>b, MessageTypes DEF Flow, Kept
    <3>2. Count(net'[R], Chunk(g)) = Count(net[R], Chunk(g)) + 0 BY <1>1, <3>1, StreamFacts
    <3>3. Count(net[R], Chunk(g)) \in Nat BY <1>a, CountFinite
    <3> QED BY <3>1, <3>2, <3>3, ComingCount
  <2>2. \A i \in DOMAIN net'[R] : net'[R][i] \in Stream => i <= acked' BY <1>b, <1>2, StreamFacts
  <2> QED BY <1>b, <2>1, <2>2 DEF Kept, Stream
<1>8. Answered'
  <2>1. \A a \in answered : /\ a.f \in Ids
                            /\ \A i \in DOMAIN net'[R] : net'[R][i] \notin {Header(a.f), Chunk(a.f)}
    <3>1. SUFFICES ASSUME NEW a \in answered
                   PROVE  a.f \in Ids /\ \A i \in DOMAIN net'[R] : net'[R][i] \notin {Header(a.f), Chunk(a.f)}
      OBVIOUS
    <3>2. a.f \in Ids BY MessageTypes DEF Flow, Answered
    <3> QED BY <1>2, <3>2, StreamFacts DEF Flow, Answered
  <2> QED BY <1>b, <1>c, <2>1 DEF Flow, Answered, Opened
<1>9. Rated' BY <1>b, <1>c, RatedStays
<1> QED BY <1>3, <1>4, <1>5, <1>6, <1>7, <1>8, <1>9 DEF Flow

(* The sender's task goes on without a message to the receiver. *)
LEMMA SenderMovesFlow ==
    ASSUME TypeOK, Flow, net'[R] = net[R], acked' = acked, up' = up, pc'[R] = pc[R],
           UNCHANGED <<tokens, asked, sent, receiverVars>>,
           \/ pc[S] = "file" /\ pc'[S] = "send"
           \/ pc[S] = "send" /\ pc'[S] = "flush"
           \/ pc[S] = "drain" /\ pc'[S] = "ok"
    PROVE  Flow'
<1>1. UNCHANGED <<picked, tokens, open, sent, got, over, answered>>
      /\ UNCHANGED <<over, todo, open, results, answered>>
  BY DEF receiverVars
<1>2. HeadersFirst' /\ Regions' /\ Sending' /\ Receiving' /\ Kept' /\ Answered'
  <2>1. Flow /\ (pc'[R] = "result" => pc[R] = "result") OBVIOUS
  <2> QED BY <1>1, <2>1, StaysFlow
<1>3. Rated' BY <1>1, RatedStays
<1> QED BY <1>2, <1>3 DEF Flow

(* Every step of sending. *)
LEMMA SendingFlow ==
    ASSUME TypeOK, Flow, SendingStep
    PROVE  Flow'
<1>a. S \in Roles /\ R \in Roles /\ S # R /\ pc \in [Roles -> Places] /\ net \in [Roles -> Seq(Messages)]
      /\ NetOK /\ Other(S) = R
  BY FlowTypes, TwoRoles
<1>1. CASE SendChunk
  <2>1. CASE cur.n > 0 /\ Send(S, <<Chunk(cur.f)>>) /\ sent' = [sent EXCEPT ![cur.f] = @ + 1]
             /\ cur' = [cur EXCEPT !.n = @ - 1] /\ pc' = pc
    BY <1>1, <2>1, SendChunkFlow DEF SendChunk
  <2>2. CASE Goto(S, "send") /\ UNCHANGED <<net, sent>>
    <3>1. pc[S] = "file" /\ pc'[S] = "send" /\ pc'[R] = pc[R] BY <1>a, <1>1, <2>2 DEF SendChunk, Goto
    <3> QED BY <1>1, <2>2, <3>1, SenderMovesFlow DEF SendChunk
  <2> QED BY <1>1, <2>1, <2>2 DEF SendChunk
<1>2. CASE CloseSending
  <2>1. pc[S] = "send" /\ pc'[S] = "flush" /\ pc'[R] = pc[R] BY <1>a, <1>2 DEF CloseSending, Goto
  <2> QED BY <1>2, <2>1, SenderMovesFlow DEF CloseSending, netVars, fileVars, senderVars
<1>3. CASE Drain
  <2>1. pc[S] = "drain" /\ pc'[S] = "ok" /\ pc'[R] = pc[R] BY <1>a, <1>3 DEF Drain, Goto
  <2>2. <<>> \in Seq(Messages) BY MsgLists
  <2>3. net'[R] = net[R] \o <<>> BY <1>a, <1>3, <2>2, TakeNet DEF Drain
  <2>4. net[R] \o <<>> = net[R] BY <1>a, ConcatEmptySeq
  <2>5. acked' = acked BY <1>a, <1>3 DEF Drain, Take
  <2> QED BY <1>3, <2>1, <2>3, <2>4, <2>5, SenderMovesFlow DEF Drain, fileVars, senderVars
<1> QED BY <1>1, <1>2, <1>3, FlushFlow, SendFileFlow DEF SendingStep

-----------------------------------------------------------------------------
(* The files: what the receiver takes from the channel *)

(* The first message is gone and the others move up. *)
Shifts ==
    /\ Len(net[R]) \in Nat /\ Len(net[R]) > 0 /\ DOMAIN net[R] = 1..Len(net[R])
    /\ DOMAIN net'[R] = 1..(Len(net[R]) - 1)
    /\ \A i \in 1..(Len(net[R]) - 1) : net'[R][i] = net[R][i + 1] /\ i + 1 \in DOMAIN net[R]
    /\ Len(net'[R]) = Len(net[R]) - 1 /\ (net'[R] = <<>> <=> Len(net[R]) = 1)

(* Taking the first message is such a shift, and counts it out. *)
LEMMA TailShifts ==
    ASSUME TypeOK, net[R] # <<>>, net'[R] = Tail(net[R])
    PROVE  /\ Shifts /\ Front(R) = net[R][1] /\ 1 \in DOMAIN net[R]
           /\ \A x : /\ Count(net[R], x) = Count(net'[R], x) + IF Front(R) = x THEN 1 ELSE 0
                     /\ Count(net'[R], x) \in Nat
<1>a. net[R] \in Seq(Messages) BY FlowTypes
<1>1. /\ Head(net[R]) = net[R][1] /\ Tail(net[R]) \in Seq(Messages)
      /\ Len(net[R]) \in Nat /\ Len(net[R]) > 0 /\ Len(Tail(net[R])) = Len(net[R]) - 1
      /\ DOMAIN net[R] = 1..Len(net[R]) /\ DOMAIN Tail(net[R]) = 1..(Len(net[R]) - 1)
      /\ \A i \in 1..(Len(net[R]) - 1) : Tail(net[R])[i] = net[R][i + 1]
  BY <1>a, TailFacts
<1>2. Tail(net[R]) = <<>> <=> Len(Tail(net[R])) = 0 BY <1>1, EmptySeq
<1>3. Shifts BY <1>1, <1>2 DEF Shifts
<1>4. Front(R) = net[R][1] /\ 1 \in DOMAIN net[R] BY <1>1 DEF Front
<1>5. \A x : /\ Count(net[R], x) = Count(Tail(net[R]), x) + (IF net[R][1] = x THEN 1 ELSE 0)
             /\ Count(Tail(net[R]), x) \in Nat
  BY <1>a, CountTail
<1> QED BY <1>3, <1>4, <1>5

(* A file nothing was said of stays so until its header is read. *)
LEMMA ShiftHeaders ==
    ASSUME Flow, Shifts, UNCHANGED <<asked, picked, sent>>,
           \A f \in Ids : Fresh(f) /\ net[R][1] # Header(f) => Fresh(f)'
    PROVE  HeadersFirst'
<1>a. HeadersFirst BY DEF Flow
<1>b. \A i \in DOMAIN net'[R] : i \in Nat /\ i + 1 \in DOMAIN net[R] /\ i + 1 # 1 /\ net'[R][i] = net[R][i + 1]
  BY DEF Shifts
<1>c. 1 \in DOMAIN net[R] BY DEF Shifts
<1>1. ASSUME NEW f \in Ids, NEW i \in DOMAIN net'[R], net'[R][i] = Header(f)
      PROVE  Fresh(f)' /\ \A j \in DOMAIN net'[R] : net'[R][j] = Header(f) => i = j
  <2>1. net[R][i + 1] = Header(f) /\ Fresh(f)
        /\ \A j \in DOMAIN net[R] : net[R][j] = Header(f) => i + 1 = j
    BY <1>a, <1>b, <1>1 DEF HeadersFirst
  <2>2. net[R][1] # Header(f) BY <1>b, <1>c, <2>1
  <2>3. ASSUME NEW j \in DOMAIN net'[R], net'[R][j] = Header(f) PROVE i = j
    <3>1. i + 1 = j + 1 BY <1>b, <2>1, <2>3
    <3> QED BY <1>b, <3>1
  <2> QED BY <2>1, <2>2, <2>3
<1>2. \A f \in Ids : \A i \in DOMAIN net'[R] : net'[R][i] \in {Header(f), Chunk(f)} =>
         f \in asked \cap picked
  BY <1>a, <1>b DEF HeadersFirst
<1>3. ASSUME NEW f \in Ids, f \notin asked PROVE Fresh(f)' /\ sent[f] = 0
  <2>1. Fresh(f) /\ sent[f] = 0 /\ net[R][1] # Header(f) BY <1>a, <1>c, <1>3 DEF HeadersFirst
  <2> QED BY <2>1
<1> QED BY <1>1, <1>2, <1>3 DEF HeadersFirst

(* The chunks at the front belong to the file whose header was read last. *)
LEMMA ShiftRegions ==
    ASSUME Flow, Shifts, 
           \A f \in Ids : net[R][1] = Header(f) => Reading(f)',
           \A f \in Ids : net[R][1] = Chunk(f) /\ Reading(f) => Reading(f)'
    PROVE  Regions'
<1> DEFINE L == Len(net[R])
<1>a. L \in Nat /\ L > 0 /\ DOMAIN net'[R] = 1..(L - 1) /\ DOMAIN net[R] = 1..L
      /\ \A i \in 1..(L - 1) : net'[R][i] = net[R][i + 1]
  BY DEF Shifts
<1> HIDE DEF L
<1>1. ASSUME NEW f \in Ids, NEW i \in DOMAIN net'[R], net'[R][i] = Chunk(f)
      PROVE  \/ \E j \in 1..(i - 1) : net'[R][j] = Header(f)
                                      /\ \A k \in (j + 1)..i : net'[R][k] = Chunk(f)
             \/ Reading(f)' /\ \A k \in 1..i : net'[R][k] = Chunk(f)
  <2>1. i \in Nat /\ i > 0 /\ i + 1 \in DOMAIN net[R] /\ net[R][i + 1] = Chunk(f) BY <1>a, <1>1
  <2>2. \/ \E j \in 1..((i + 1) - 1) : net[R][j] = Header(f)
                                       /\ \A k \in (j + 1)..(i + 1) : net[R][k] = Chunk(f)
        \/ Reading(f) /\ \A k \in 1..(i + 1) : net[R][k] = Chunk(f)
    BY <2>1 DEF Flow, Regions
  <2>3. ASSUME NEW j \in Nat, \A k \in (j + 1)..(i + 1) : net[R][k] = Chunk(f)
        PROVE  \A k \in 1..i : k >= j => net'[R][k] = Chunk(f)
    <3>1. \A k \in 1..i : k \in 1..(L - 1) /\ (k >= j => k + 1 \in (j + 1)..(i + 1)) BY <1>a, <2>1
    <3> QED BY <1>a, <2>3, <3>1
  <2>4. CASE \E j \in 1..((i + 1) - 1) : net[R][j] = Header(f)
                                         /\ \A k \in (j + 1)..(i + 1) : net[R][k] = Chunk(f)
    <3>1. PICK j \in 1..((i + 1) - 1) : net[R][j] = Header(f)
                                        /\ \A k \in (j + 1)..(i + 1) : net[R][k] = Chunk(f)
      BY <2>4
    <3>2. j \in Nat /\ j >= 1 /\ j <= i BY <2>1
    <3>3. \A k \in 1..i : k >= j => net'[R][k] = Chunk(f) BY <2>3, <3>1, <3>2
    <3>4. CASE j = 1
      <4>1. Reading(f)' BY <3>1, <3>4
      <4>2. \A k \in 1..i : net'[R][k] = Chunk(f) BY <2>1, <3>3, <3>4
      <4> QED BY <4>1, <4>2
    <3>5. CASE j # 1
      <4>1. j - 1 \in 1..(i - 1) /\ j - 1 \in 1..(L - 1) /\ (j - 1) + 1 = j BY <1>a, <2>1, <3>2, <3>5
      <4>2. net'[R][j - 1] = Header(f) BY <1>a, <3>1, <4>1
      <4>3. \A k \in ((j - 1) + 1)..i : net'[R][k] = Chunk(f) BY <2>1, <3>2, <3>3, <4>1
      <4> QED BY <4>1, <4>2, <4>3
    <3> QED BY <3>4, <3>5
  <2>5. CASE Reading(f) /\ \A k \in 1..(i + 1) : net[R][k] = Chunk(f)
    <3>1. net[R][1] = Chunk(f) BY <2>1, <2>5
    <3>2. \A k \in (0 + 1)..(i + 1) : net[R][k] = Chunk(f) BY <2>5
    <3>3. \A k \in 1..i : net'[R][k] = Chunk(f) BY <2>1, <2>3, <3>2
    <3> QED BY <2>5, <3>1, <3>3
  <2> QED BY <2>2, <2>4, <2>5
<1> QED BY <1>1 DEF Regions

(* The place of the last message moves down by one. *)
LEMMA OneLess == \A n \in Nat : n > 0 /\ n # 1 => n - 1 \in 1..(n - 1) /\ (n - 1) + 1 = n
OBVIOUS

(* The file being sent is still the last one in the channel, or the one being read. *)
LEMMA ShiftSending ==
    ASSUME Flow, Shifts, UNCHANGED <<up, tokens, picked, cur, asked>>, pc'[S] = pc[S], cur.f \in Ids,
           \A f \in Ids : net[R][1] = Header(f) => Reading(f)',
           \A f \in Ids : net[R][1] = Chunk(f) /\ Reading(f) => Reading(f)'
    PROVE  Sending'
<1>a. Sending /\ Regions BY DEF Flow
<1>1. (pc[S] \in {"send", "file"} => up = "down" \/ tokens = picked)' BY <1>a DEF Sending
<1>2. (pc[S] = "file" => cur.on /\ cur.f \in asked)' BY <1>a DEF Sending
<1>3. ASSUME pc[S] = "file", up = "open"
      PROVE  /\ cur.f \in picked
             /\ IF net'[R] = <<>> THEN Reading(cur.f)'
                ELSE net'[R][Len(net'[R])] \in {Header(cur.f), Chunk(cur.f)}
  <2>1. Len(net[R]) > 0 /\ Len(net[R]) \in Nat /\ DOMAIN net[R] = 1..Len(net[R]) BY DEF Shifts
  <2>2. net[R] # <<>> BY <2>1
  <2>3. cur.f \in picked /\ net[R][Len(net[R])] \in {Header(cur.f), Chunk(cur.f)}
    BY <1>a, <1>3, <2>2 DEF Sending
  <2>4. CASE net'[R] = <<>>
    <3>1. Len(net[R]) = 1 BY <2>4 DEF Shifts
    <3>2. net[R][1] = Chunk(cur.f) => Reading(cur.f)
      <4>1. 1 \in DOMAIN net[R] /\ ~\E j \in 1..(1 - 1) : TRUE BY <2>1
      <4> QED BY <1>a, <4>1 DEF Regions
    <3> QED BY <2>3, <2>4, <3>1, <3>2
  <2>5. CASE net'[R] # <<>>
    <3>1. Len(net[R]) # 1 /\ Len(net'[R]) = Len(net[R]) - 1 BY <2>5 DEF Shifts
    <3>2. PICK n \in Nat : n = Len(net[R]) BY <2>1
    <3>a. n > 0 /\ n # 1 BY <2>1, <3>1, <3>2
    <3>3. n - 1 \in 1..(n - 1) /\ (n - 1) + 1 = n BY <3>a, <3>2, OneLess
    <3>4. \A i \in 1..(n - 1) : net'[R][i] = net[R][i + 1] BY <3>2 DEF Shifts
    <3>5. net'[R][n - 1] = net[R][n] BY <3>3, <3>4
    <3> QED BY <2>3, <2>5, <3>1, <3>2, <3>5
  <2> QED BY <2>3, <2>4, <2>5
<1> QED BY <1>1, <1>2, <1>3 DEF Sending

(* What follows in the channel is what the receiver will take for a stream. *)
LEMMA ShiftReceiving ==
    ASSUME Flow, Shifts, pc[R] \in {"recv", "result"}, pc'[S] = pc[S], pc'[R] # "result",
           (open.on => /\ open.f \in asked \cap picked \cap Files /\ open.f \notin over
                       /\ open.n = got[open.f] /\ open.n <= Size[open.f])'
    PROVE  Receiving'
<1>a. Receiving BY DEF Flow
<1>b. \A i \in DOMAIN net'[R] : i + 1 \in DOMAIN net[R] /\ net'[R][i] = net[R][i + 1] BY DEF Shifts
<1>1. (pc[R] \in {"recv", "result"} => \A i \in DOMAIN net[R] : net[R][i] \in Stream \cup {Delimiter})'
  BY <1>a, <1>b DEF Receiving, Stream
<1>2. (pc[R] \in {"recv", "result"} => \A i \in DOMAIN net[R] : net[R][i] = Delimiter =>
         pc[S] \in {"drain", "ok", "err"})'
  BY <1>a, <1>b DEF Receiving
<1> QED BY <1>1, <1>2 DEF Receiving

(* What was known to have arrived is still known to. *)
LEMMA ShiftKept ==
    ASSUME TypeOK, Flow, Shifts, acked' = Drop(acked), up' = up, pc'[S] = pc[S],
           \A f \in Files \ over' : f \notin over /\ got'[f] + Coming(f)' = got[f] + Coming(f),
           sent' = sent
    PROVE  Kept'
<1>a. Kept BY DEF Flow
<1>1. (up # "down" \/ pc[S] \in {"drain", "ok"} => \A f \in Files \ over : got[f] + Coming(f) = sent[f])'
  BY <1>a DEF Kept
<1>2. pc[S] \in {"drain", "ok"} => \A i \in DOMAIN net'[R] : net'[R][i] \in Stream => i <= acked'
  <2>1. SUFFICES ASSUME pc[S] \in {"drain", "ok"}, NEW i \in DOMAIN net'[R], net'[R][i] \in Stream
                 PROVE  i <= acked'
    OBVIOUS
  <2>2. i \in Nat /\ i > 0 /\ i + 1 \in DOMAIN net[R] /\ net'[R][i] = net[R][i + 1] BY DEF Shifts
  <2>3. i + 1 <= acked BY <1>a, <2>1, <2>2 DEF Kept
  <2>4. acked \in Nat BY FlowTypes
  <2> QED BY <2>2, <2>3, <2>4
<1> QED BY <1>1, <1>2 DEF Kept, Stream

(* Nothing of a file comes after its result. *)
LEMMA ShiftAnswered ==
    ASSUME Flow, Shifts, UNCHANGED <<asked, sent, cur>>, pc'[S] = pc[S],
           \A a \in answered : got'[a.f] = got[a.f] /\ ~Opened(a.f)'
    PROVE  \A a \in answered :
             (/\ a.f \in asked \cap Files /\ got[a.f] = sent[a.f] /\ got[a.f] <= Size[a.f]
              /\ ~Opened(a.f) /\ ~(pc[S] = "file" /\ cur.f = a.f)
              /\ \A i \in DOMAIN net[R] : net[R][i] \notin {Header(a.f), Chunk(a.f)})'
<1>a. Answered BY DEF Flow
<1>b. \A i \in DOMAIN net'[R] : i + 1 \in DOMAIN net[R] /\ net'[R][i] = net[R][i + 1] BY DEF Shifts
<1> QED BY <1>a, <1>b DEF Answered

(* A text is read where a header may stand: a file is opened, or the last one closed. *)
Starts ==
    \/ StartFile(Front(R))
    \/ Front(R) = Delimiter /\ Goto(R, "ok") /\ open' = NoFile /\ UNCHANGED todo

(* The only file that is open then is the one whose header was read. *)
LEMMA TextFlow ==
    ASSUME TypeOK, Flow, net[R] # <<>>, net'[R] = Tail(net[R]), acked' = Drop(acked),
           pc[R] \in {"recv", "result"}, ~Front(R).bin, Starts,
           UNCHANGED <<up, senderVars, picked, got, over>>,
           \A a \in answered' : a \in answered \/ (open.on /\ a.f = open.f)
    PROVE  /\ HeadersFirst' /\ Regions' /\ Sending' /\ Receiving' /\ Kept' /\ Shifts
           /\ \A f \in Ids : Opened(f)' => Front(R) = Header(f) /\ Fresh(f)
           /\ \A a \in answered :
                (/\ a.f \in asked \cap Files /\ got[a.f] = sent[a.f] /\ got[a.f] <= Size[a.f]
                 /\ ~Opened(a.f) /\ ~(pc[S] = "file" /\ cur.f = a.f)
                 /\ \A i \in DOMAIN net[R] : net[R][i] \notin {Header(a.f), Chunk(a.f)})'
           /\ todo = {} => todo' \subseteq (IF open'.on THEN {open'.f} ELSE {})
<1>a. /\ S \in Roles /\ R \in Roles /\ S # R /\ pc \in [Roles -> Places]
      /\ cur.f \in Ids /\ got \in [Ids -> Nat] /\ net[R] \in Seq(Messages)
  BY FlowTypes
<1>b. /\ Shifts /\ Front(R) = net[R][1] /\ 1 \in DOMAIN net[R]
      /\ \A x : /\ Count(net[R], x) = Count(net'[R], x) + IF Front(R) = x THEN 1 ELSE 0
                /\ Count(net'[R], x) \in Nat
  BY TailShifts
<1>c. UNCHANGED <<asked, sent, cur, tokens>> BY DEF senderVars
<1>d. Front(R) \in Stream \cup {Delimiter} /\ Front(R) \in Messages
  BY <1>a, <1>b, TailFacts DEF Flow, Receiving
<1>e. (\E f \in Ids : Front(R) = Header(f)) \/ Front(R) = Delimiter
  BY <1>d, StreamFacts, MessageFields
<1>f. \A f \in Ids : Front(R) # Chunk(f) BY MessageFields
<1>g. \A f \in Ids : Front(R) = Header(f) => f \in asked \cap picked /\ Fresh(f)
  BY <1>b DEF Flow, HeadersFirst
<1>h. /\ \/ \E f \in Ids : /\ Front(R) = Header(f) /\ f \in Files
                           /\ open'.f = f /\ open'.n = 0 /\ open'.on = TRUE /\ todo' = todo \cup {f}
         \/ /\ \A f \in Ids : Front(R) = Header(f) => f = Ghost
            /\ open'.on = FALSE /\ todo' = todo
      /\ pc'[S] = pc[S] /\ pc'[R] # "result"
  <2>1. CASE StartFile(Front(R))
    <3>1. /\ \/ /\ Front(R).k = "header" /\ Front(R).f \in picked \cap Files
                /\ open' = [f |-> Front(R).f, n |-> 0, on |-> TRUE] /\ todo' = todo \cup {Front(R).f}
             \/ /\ ~(Front(R).k = "header" /\ Front(R).f \in picked \cap Files)
                /\ open' = NoFile /\ todo' = todo
          /\ pc' = [pc EXCEPT ![R] = IF Front(R).k = "header" THEN "recv" ELSE "desync"]
      BY <1>d, <2>1, StartFileCases
    <3>2. pc'[S] = pc[S] /\ pc'[R] # "result" BY <1>a, <3>1
    <3>3. CASE \E f \in Ids : Front(R) = Header(f)
      <4>1. PICK f \in Ids : Front(R) = Header(f) BY <3>3
      <4>2. Front(R).k = "header" /\ Front(R).f = f /\ f \in picked BY <4>1, <1>g, MessageFields
      <4>3. CASE f \in Files
        <5>1. open' = [f |-> f, n |-> 0, on |-> TRUE] /\ todo' = todo \cup {f} BY <3>1, <4>2, <4>3
        <5>2. open'.f = f /\ open'.n = 0 /\ open'.on = TRUE BY <5>1
        <5> QED BY <3>2, <4>1, <4>3, <5>1, <5>2
      <4>4. CASE f \notin Files
        <5>1. open' = NoFile /\ todo' = todo /\ f = Ghost BY <3>1, <4>2, <4>4 DEF Ids
        <5>2. \A g \in Ids : Front(R) = Header(g) => g = Ghost BY <4>1, <5>1, StreamFacts
        <5> QED BY <3>2, <5>1, <5>2, NoFileType
      <4> QED BY <4>3, <4>4
    <3>4. CASE Front(R) = Delimiter
      <4>1. Front(R).k # "header" /\ \A f \in Ids : Front(R) # Header(f)
        BY <3>4, MessageFields, StreamFacts
      <4> QED BY <3>1, <3>2, <4>1, NoFileType
    <3> QED BY <1>e, <3>3, <3>4
  <2>2. CASE Front(R) = Delimiter /\ Goto(R, "ok") /\ open' = NoFile /\ UNCHANGED todo
    <3>1. pc'[S] = pc[S] /\ pc'[R] # "result" BY <1>a, <2>2 DEF Goto
    <3> QED BY <2>2, <3>1, NoFileType, StreamFacts
  <2> QED BY <2>1, <2>2 DEF Starts
<1>1. \A f \in Ids : Opened(f)' => Front(R) = Header(f) /\ Fresh(f)
  BY <1>g, <1>h DEF Opened
<1>2. \A f \in Ids : Fresh(f) /\ net[R][1] # Header(f) => Fresh(f)'
  <2>1. SUFFICES ASSUME NEW f \in Ids, Fresh(f), net[R][1] # Header(f) PROVE Fresh(f)' OBVIOUS
  <2>2. ~Opened(f)' BY <1>1, <1>b, <2>1
  <2>3. \A a \in answered' : a.f # f BY <2>1 DEF Fresh, Opened
  <2> QED BY <2>1, <2>2, <2>3 DEF Fresh
<1>3. HeadersFirst' BY <1>b, <1>c, <1>2, ShiftHeaders
<1>4. \A f \in Ids : net[R][1] = Header(f) => Reading(f)'
  BY <1>b, <1>h, StreamFacts DEF Reading, Opened
<1>5. \A f \in Ids : net[R][1] = Chunk(f) /\ Reading(f) => Reading(f)' BY <1>b, <1>f
<1>6. Regions' BY <1>b, <1>4, <1>5, ShiftRegions
<1>7. Sending' BY <1>a, <1>b, <1>c, <1>h, <1>4, <1>5, ShiftSending
<1>8. Receiving'
  <2>1. (open.on => /\ open.f \in asked \cap picked \cap Files /\ open.f \notin over
                    /\ open.n = got[open.f] /\ open.n <= Size[open.f])'
    <3>1. SUFFICES ASSUME open'.on
                   PROVE  (/\ open.f \in asked \cap picked \cap Files /\ open.f \notin over
                           /\ open.n = got[open.f] /\ open.n <= Size[open.f])'
      OBVIOUS
    <3>2. PICK f \in Ids : Front(R) = Header(f) /\ f \in Files /\ open'.f = f /\ open'.n = 0
      BY <1>h, <3>1
    <3>3. f \in asked \cap picked /\ got[f] = 0 /\ f \notin over BY <1>g, <3>2 DEF Fresh
    <3>4. Size[f] \in Nat BY <3>2, TransferAssumption
    <3> QED BY <1>c, <3>2, <3>3, <3>4
  <2> QED BY <1>b, <1>h, <2>1, ShiftReceiving
<1>9. Kept'
  <2>1. ASSUME NEW f \in Files \ over PROVE got'[f] + Coming(f)' = got[f] + Coming(f)
    <3>1. f \in Ids BY MessageTypes
    <3>2. Count(net[R], Chunk(f)) = Count(net'[R], Chunk(f)) BY <1>b, <1>f, <3>1
    <3> QED BY <3>2, ComingCount
  <2> QED BY <1>b, <1>c, <1>h, <2>1, ShiftKept
<1>10. \A a \in answered : got'[a.f] = got[a.f] /\ ~Opened(a.f)'
  <2>1. \A a \in answered : a.f \in Ids BY MessageTypes DEF Flow, Answered
  <2> QED BY <1>1, <2>1 DEF Fresh
<1>11. \A a \in answered :
         (/\ a.f \in asked \cap Files /\ got[a.f] = sent[a.f] /\ got[a.f] <= Size[a.f]
          /\ ~Opened(a.f) /\ ~(pc[S] = "file" /\ cur.f = a.f)
          /\ \A i \in DOMAIN net[R] : net[R][i] \notin {Header(a.f), Chunk(a.f)})'
  BY <1>b, <1>c, <1>h, <1>10, ShiftAnswered
<1>12. todo = {} => todo' \subseteq (IF open'.on THEN {open'.f} ELSE {}) BY <1>h
<1> QED BY <1>b, <1>1, <1>3, <1>6, <1>7, <1>8, <1>9, <1>11, <1>12

(* A text message while no file is open. *)
LEMMA RecvHeaderFlow ==
    ASSUME TypeOK, Flow, RecvHeader
    PROVE  Flow'
<1>a. NetOK /\ R \in Roles BY FlowTypes
<1>b. /\ pc[R] = "recv" /\ ~open.on /\ net[R] # <<>> /\ ~Front(R).bin /\ Starts
      /\ UNCHANGED <<up, senderVars, picked, got, over>> /\ UNCHANGED <<results, answered>>
  BY DEF RecvHeader, Starts
<1>c. net'[R] = Tail(net[R]) /\ acked' = Drop(acked) BY <1>a, <1>b, ReadNet DEF RecvHeader
<1>1. /\ HeadersFirst' /\ Regions' /\ Sending' /\ Receiving' /\ Kept'
      /\ \A a \in answered :
           (/\ a.f \in asked \cap Files /\ got[a.f] = sent[a.f] /\ got[a.f] <= Size[a.f]
            /\ ~Opened(a.f) /\ ~(pc[S] = "file" /\ cur.f = a.f)
            /\ \A i \in DOMAIN net[R] : net[R][i] \notin {Header(a.f), Chunk(a.f)})'
      /\ todo = {} => todo' \subseteq (IF open'.on THEN {open'.f} ELSE {})
  BY <1>b, <1>c, TextFlow
<1>2. Answered' BY <1>1, <1>b DEF Answered
<1>3. Rated'
  <2>1. over = {} => todo = {} /\ results = <<>> /\ \A a \in answered : a.f = a.of
    BY <1>b DEF Flow, Rated
  <2> QED BY <1>1, <1>b, <2>1 DEF Rated
<1> QED BY <1>1, <1>2, <1>3 DEF Flow

(* The application's result is sent when nothing of the file is on the way any more. *)
LEMMA FileResultFlow ==
    ASSUME TypeOK, Flow, FileResult
    PROVE  Flow'
<1>a. /\ S \in Roles /\ R \in Roles /\ S # R /\ net \in [Roles -> Seq(Messages)] /\ net[R] \in Seq(Messages)
      /\ Len(net[R]) \in Nat /\ DOMAIN net[R] = 1..Len(net[R])
      /\ open.f \in Ids /\ got \in [Ids -> Nat]
  BY FlowTypes
<1>b. /\ pc[R] = "result" /\ results # <<>> /\ up = "open" /\ results' = <<>>
      /\ answered' = answered \cup {[f |-> open.f, of |-> Head(results)]}
      /\ acked' = Drop(acked) /\ Starts
      /\ UNCHANGED <<up, senderVars, picked, got, over>>
  BY DEF FileResult, Starts
<1>c. open.on /\ net[R] # <<>> /\ ~net[R][1].bin BY <1>b DEF Flow, Receiving
<1>d. net'[R] = Tail(net[R])
  <2>1. net' = [net EXCEPT ![R] = Tail(@), ![S] = Append(@, Text("response"))]
    BY Zenon DEF FileResult
  <2> QED BY <1>a, <2>1
<1>e. Front(R) = net[R][1] /\ 1 \in DOMAIN net[R] BY <1>c, <1>d, TailShifts
<1>f. \A a \in answered' : a \in answered \/ (open.on /\ a.f = open.f) BY <1>b, <1>c
<1>1. /\ HeadersFirst' /\ Regions' /\ Sending' /\ Receiving' /\ Kept' /\ Shifts
      /\ \A f \in Ids : Opened(f)' => Front(R) = Header(f) /\ Fresh(f)
      /\ \A a \in answered :
           (/\ a.f \in asked \cap Files /\ got[a.f] = sent[a.f] /\ got[a.f] <= Size[a.f]
            /\ ~Opened(a.f) /\ ~(pc[S] = "file" /\ cur.f = a.f)
            /\ \A i \in DOMAIN net[R] : net[R][i] \notin {Header(a.f), Chunk(a.f)})'
      /\ todo = {} => todo' \subseteq (IF open'.on THEN {open'.f} ELSE {})
  BY <1>b, <1>c, <1>d, <1>e, <1>f, TextFlow
<1>p. PICK f \in Ids : f = open.f BY <1>a
<1>2. /\ f \in asked \cap picked \cap Files /\ f \notin over /\ open.n = got[f] /\ open.n <= Size[f]
      /\ ~Fresh(f) /\ f \in Ids
  BY <1>c, <1>p DEF Flow, Receiving, Fresh, Opened
<1>3. \A i \in DOMAIN net[R] : net[R][i] # Header(f) BY <1>2 DEF Flow, HeadersFirst
<1>4. \A i \in DOMAIN net[R] : net[R][i] # Chunk(f)
  <2>1. SUFFICES ASSUME NEW i \in DOMAIN net[R], net[R][i] = Chunk(f) PROVE FALSE OBVIOUS
  <2>2. \/ \E j \in 1..(i - 1) : net[R][j] = Header(f)
        \/ \A k \in 1..i : net[R][k] = Chunk(f)
    BY <1>2, <2>1 DEF Flow, Regions
  <2>a. i \in Nat /\ i > 0 /\ 1 \in 1..i /\ \A j \in 1..(i - 1) : j \in DOMAIN net[R] BY <1>a
  <2>3. ~\E j \in 1..(i - 1) : net[R][j] = Header(f) BY <2>a, <1>3
  <2>4. net[R][1] = Chunk(f) BY <2>a, <2>2, <2>3
  <2> QED BY <1>c, <2>4, MessageFields
<1>5. got[f] = sent[f]
  <2>1. got[f] + Coming(f) = sent[f] BY <1>b, <1>2 DEF Flow, Kept
  <2>2. Coming(f) = 0 BY <1>4, CountNone, ComingCount
  <2> QED BY <1>a, <1>2, <2>1, <2>2
<1>6. ~(pc[S] = "file" /\ cur.f = f)
  <2>1. SUFFICES ASSUME pc[S] = "file", cur.f = f PROVE FALSE OBVIOUS
  <2>2. net[R][Len(net[R])] \in {Header(f), Chunk(f)} BY <2>1, <1>b, <1>c DEF Flow, Sending
  <2>3. Len(net[R]) \in DOMAIN net[R] BY <1>a, <1>e
  <2> QED BY <1>3, <1>4, <2>2, <2>3
<1>7. /\ f \in asked' \cap Files /\ got'[f] = sent'[f] /\ got'[f] <= Size[f]
      /\ ~Opened(f)' /\ ~(pc'[S] = "file" /\ cur'.f = f)
      /\ \A i \in DOMAIN net'[R] : net'[R][i] \notin {Header(f), Chunk(f)}
  <2>1. UNCHANGED <<asked, sent, cur>> BY <1>b DEF senderVars
  <2>2. ~Opened(f)' BY <1>1, <1>2
  <2>3. \A i \in DOMAIN net'[R] : net'[R][i] \notin {Header(f), Chunk(f)}
    BY <1>1, <1>3, <1>4 DEF Shifts
  <2>4. pc'[S] = pc[S] \/ pc'[S] # "file"
    BY <1>a, FlowTypes DEF FileResult, StartFile, Goto
  <2> QED BY <1>b, <1>2, <1>5, <1>6, <2>1, <2>2, <2>3, <2>4
<1>8. \A a \in answered' : a \in answered \/ (a.f = f /\ a.of = Head(results)) BY <1>b, <1>p
<1>9. Answered'
  <2>1. ASSUME NEW a \in answered'
        PROVE  (/\ a.f \in asked \cap Files /\ got[a.f] = sent[a.f] /\ got[a.f] <= Size[a.f]
                /\ ~Opened(a.f) /\ ~(pc[S] = "file" /\ cur.f = a.f)
                /\ \A i \in DOMAIN net[R] : net[R][i] \notin {Header(a.f), Chunk(a.f)})'
    <3>1. CASE a \in answered BY <1>1, <3>1
    <3>2. CASE a.f = f BY <1>7, <3>2 DEF Opened
    <3> QED BY <1>8, <2>1, <3>1, <3>2
  <2> QED BY <2>1 DEF Answered
<1>10. Rated'
  <2>1. over = {} => todo = {} /\ results = <<f>> /\ \A a \in answered : a.f = a.of
    BY <1>b, <1>p DEF Flow, Rated
  <2>2. over = {} => \A a \in answered' : a.f = a.of BY <1>8, <2>1
  <2> QED BY <1>1, <1>b, <2>1, <2>2 DEF Rated
<1> QED BY <1>1, <1>9, <1>10 DEF Flow

(* A text ends the open file, and stays in the channel until the result is there. *)
LEMMA FileEndsFlow ==
    ASSUME TypeOK, Flow, FileEnds
    PROVE  Flow'
<1>a. S \in Roles /\ R \in Roles /\ S # R /\ pc \in [Roles -> Places] /\ net[R] \in Seq(Messages)
  BY FlowTypes
<1>b. /\ pc[R] = "recv" /\ open.on /\ net[R] # <<>> /\ ~net[R][1].bin
      /\ net' = net /\ acked' = acked /\ up' = up /\ cur' = cur /\ asked' = asked
      /\ UNCHANGED <<picked, tokens, open, sent, got, over, answered>>
      /\ UNCHANGED <<over, todo, open, results, answered>>
  BY <1>a, TailFacts DEF FileEnds, Front, netVars, fileVars, senderVars, receiverVars
<1>c. pc'[R] = "result" /\ pc'[S] = pc[S] BY <1>a DEF FileEnds, Goto
<1>1. HeadersFirst' /\ Regions' /\ Sending' /\ Receiving' /\ Kept' /\ Answered'
  BY <1>b, <1>c, StaysFlow
<1>2. Rated' BY <1>b, <1>c, RatedStays
<1> QED BY <1>1, <1>2 DEF Flow

(* A binary message: part of the open file, too much of it, or of a file already given up. *)
LEMMA RecvChunkFlow ==
    ASSUME TypeOK, Flow, RecvChunk
    PROVE  Flow'
<1>a. /\ S \in Roles /\ R \in Roles /\ S # R /\ NetOK /\ net[R] \in Seq(Messages)
      /\ open \in [f : Ids, n : Nat, on : BOOLEAN] /\ open.n \in Nat /\ cur.f \in Ids
      /\ got \in [Ids -> Nat]
  BY FlowTypes
<1>p. PICK o \in Ids : o = open.f BY FlowTypes
<1>b. /\ pc[R] = "recv" /\ net[R] # <<>> /\ Front(R).bin /\ pc' = pc
      /\ UNCHANGED <<up, tokens, asked, cur, sent, picked, todo, results, answered>>
  BY DEF RecvChunk, senderVars
<1>c. net'[R] = Tail(net[R]) /\ acked' = Drop(acked) BY <1>a, <1>b, ReadNet DEF RecvChunk
<1>d. /\ Shifts /\ Front(R) = net[R][1] /\ 1 \in DOMAIN net[R]
      /\ \A x : /\ Count(net[R], x) = Count(net'[R], x) + IF Front(R) = x THEN 1 ELSE 0
                /\ Count(net'[R], x) \in Nat
  BY <1>b, <1>c, TailShifts
<1>e. \E f \in Ids : Front(R) = Chunk(f)
  <2>1. Front(R) \in Stream \cup {Delimiter} BY <1>b, <1>d DEF Flow, Receiving
  <2> QED BY <1>b, <2>1, StreamFacts, MessageFields
<1>1. PICK g \in Ids : Front(R) = Chunk(g) BY <1>e
<1>2. Reading(g)
  <2>1. ~\E j \in 1..(1 - 1) : TRUE OBVIOUS
  <2> QED BY <1>1, <1>d, <2>1 DEF Flow, Regions
<1>3. \A f \in Ids : (net[R][1] = Chunk(f) <=> f = g) /\ net[R][1] # Header(f)
  BY <1>1, <1>d, StreamFacts
<1>4. open.on => open.n = got[o] /\ o \in Files /\ o \notin over /\ o \in asked \cap picked
                 /\ open.n <= Size[o]
  BY <1>p DEF Flow, Receiving
<1>5. /\ open.on => g = o
      /\ ~open.on => g \in over \/ g = Ghost
  BY <1>2, <1>p DEF Reading, Opened
<1>6. \/ /\ open.on /\ open.n + 1 <= Size[o]
         /\ open' = [open EXCEPT !.n = open.n + 1] /\ got' = [got EXCEPT ![o] = got[o] + 1]
         /\ over' = over
      \/ /\ open.on /\ open' = NoFile /\ over' = over \cup {o} /\ got' = got
      \/ ~open.on /\ open' = open /\ got' = got /\ over' = over
  <2>1. \/ /\ open.on /\ open.n + 1 <= Size[o]
           /\ open' = [open EXCEPT !.n = open.n + 1] /\ got' = [got EXCEPT ![o] = @ + 1]
           /\ over' = over
        \/ /\ open.on /\ open' = NoFile /\ over' = over \cup {o} /\ got' = got
        \/ ~open.on /\ open' = open /\ got' = got /\ over' = over
    BY <1>p, Zenon DEF RecvChunk, Fits
  <2> QED BY <2>1, <1>a
<1>7. \/ /\ open.on /\ open.n + 1 <= Size[o] /\ over' = over
         /\ open'.on = TRUE /\ open'.f = o /\ open'.n = open.n + 1
         /\ got'[o] = got[o] + 1 /\ \A f \in Ids \ {o} : got'[f] = got[f]
      \/ open.on /\ open'.on = FALSE /\ over' = over \cup {o} /\ got' = got
      \/ ~open.on /\ open' = open /\ got' = got /\ over' = over
  BY <1>6, <1>a, <1>p, NoFileType
<1>8. HeadersFirst'
  <2>1. \A f \in Ids : Fresh(f) => Fresh(f)'
    <3>1. SUFFICES ASSUME NEW f \in Ids, Fresh(f) PROVE Fresh(f)' OBVIOUS
    <3>2. open.on => f # o BY <1>p, <3>1 DEF Fresh, Opened
    <3>3. got'[f] = got[f] BY <1>7, <3>2
    <3>4. f \notin over' BY <1>7, <3>1, <3>2 DEF Fresh
    <3>5. ~Opened(f)' BY <1>7, <1>p, <3>1, <3>2 DEF Fresh, Opened
    <3> QED BY <1>b, <3>1, <3>3, <3>4, <3>5 DEF Fresh
  <2> QED BY <1>b, <1>d, <2>1, ShiftHeaders
<1>9. Reading(g)' BY <1>5, <1>7 DEF Reading, Opened
<1>10. /\ \A f \in Ids : net[R][1] = Header(f) => Reading(f)'
       /\ \A f \in Ids : net[R][1] = Chunk(f) /\ Reading(f) => Reading(f)'
  BY <1>3, <1>9
<1>11. Regions' BY <1>d, <1>10, ShiftRegions
<1>12. Sending' BY <1>a, <1>b, <1>d, <1>10, ShiftSending
<1>13. Receiving'
  <2>1. (open.on => /\ open.f \in asked \cap picked \cap Files /\ open.f \notin over
                    /\ open.n = got[open.f] /\ open.n <= Size[open.f])'
    BY <1>b, <1>4, <1>7
  <2> QED BY <1>b, <1>d, <2>1, ShiftReceiving
<1>14. Kept'
  <2>1. ASSUME NEW f \in Files \ over' PROVE f \notin over /\ got'[f] + Coming(f)' = got[f] + Coming(f)
    <3>1. f \in Ids /\ f # Ghost /\ f \notin over BY <1>7, MessageTypes, TransferAssumption
    <3>2. Count(net[R], Chunk(f)) = Count(net'[R], Chunk(f)) + (IF f = g THEN 1 ELSE 0)
          /\ Count(net'[R], Chunk(f)) \in Nat
      BY <1>d, <1>3, <3>1
    <3>3. Coming(f) = Count(net[R], Chunk(f)) /\ Coming(f)' = Count(net'[R], Chunk(f)) BY ComingCount
    <3>4. got'[f] = got[f] + (IF f = g THEN 1 ELSE 0) /\ got[f] \in Nat
      <4>1. got[f] \in Nat BY <1>a, <3>1
      <4>2. CASE open.on /\ open.n + 1 <= Size[o] /\ got'[o] = got[o] + 1
                 /\ \A h \in Ids \ {o} : got'[h] = got[h]
        BY <1>5, <3>1, <4>1, <4>2
      <4>3. CASE open.on /\ over' = over \cup {o} /\ got' = got
        <5>1. f # g BY <1>5, <4>3
        <5> QED BY <4>1, <4>3, <5>1
      <4>4. CASE ~open.on /\ got' = got
        <5>1. f # g BY <1>5, <3>1, <4>4
        <5> QED BY <4>1, <4>4, <5>1
      <4> QED BY <1>7, <4>2, <4>3, <4>4
    <3> QED BY <3>1, <3>2, <3>3, <3>4
  <2> QED BY <1>b, <1>c, <1>d, <2>1, ShiftKept
<1>15. Answered'
  <2>1. \A a \in answered : got'[a.f] = got[a.f] /\ ~Opened(a.f)'
    <3>1. SUFFICES ASSUME NEW a \in answered PROVE got'[a.f] = got[a.f] /\ ~Opened(a.f)' OBVIOUS
    <3>2. a.f \in Ids /\ ~Opened(a.f) BY MessageTypes DEF Flow, Answered
    <3>3. open.on => a.f # o BY <1>p, <3>2 DEF Opened
    <3>4. got'[a.f] = got[a.f] BY <1>7, <3>2, <3>3
    <3>5. ~Opened(a.f)' BY <1>7, <1>p, <3>2, <3>3 DEF Opened
    <3> QED BY <3>4, <3>5
  <2> QED BY <1>b, <1>d, <2>1, ShiftAnswered DEF Answered
<1>16. Rated'
  <2>1. over = {} => /\ todo \subseteq (IF open.on THEN {o} ELSE {})
                     /\ results = <<>> /\ \A a \in answered : a.f = a.of
    BY <1>b, <1>p DEF Flow, Rated
  <2> QED BY <1>b, <1>p, <1>7, <2>1 DEF Rated
<1> QED BY <1>8, <1>11, <1>12, <1>13, <1>14, <1>15, <1>16 DEF Flow

(* Every step keeps what is said of the files once they have begun. *)
LEMMA LateFlow ==
    ASSUME TypeOK, Talking, Flow, ~Early, [Next]_vars
    PROVE  Flow'
<1>1. \/ Quiet \/ Closing \/ SendingStep \/ ReadingStep \/ RatingStep
      \/ \E p \in Roles : TaskFails(p)
  BY LateStays DEF Flow
<1>2. ReadingStep => Flow'
  BY RecvHeaderFlow, FileEndsFlow, RecvChunkFlow, FileResultFlow DEF ReadingStep
<1>3. RatingStep => Flow' BY RateFlow DEF RatingStep
<1> QED BY <1>1, <1>2, <1>3, QuietFlow, ClosingFlow, SendingFlow, FailFlow

-----------------------------------------------------------------------------
(* The invariant and the theorems *)

(* The invariant holds at first: nothing has been said. *)
LEMMA InitIInv == Init => IInv
<1> SUFFICES ASSUME Init PROVE IInv OBVIOUS
<1>a. S \in Roles /\ R \in Roles BY TwoRoles
<1>1. TypeOK BY InitTypes
<1>2. pc = [p \in Roles |-> "closed"] /\ tries = [p \in Roles |-> 0] /\ up = "new" BY DEF Init
<1>3. Tries BY <1>2 DEF Tries
<1>4. Talking
  <2>1. Idle BY <1>a DEF Init, Idle, Empty
  <2> QED BY <1>a, <1>2, <2>1 DEF Talking, At
<1>5. Proved BY <1>a, <1>2 DEF Proved
<1>6. ListedAfterChallenges BY DEF Init, ListedAfterChallenges
<1>7. InSync BY <1>2 DEF InSync
<1>8. Calm
  <2>1. net[R] = <<>> /\ DOMAIN <<>> = {} BY <1>a, MsgLists DEF Init
  <2>2. \A f \in Ids : sent[f] = 0 /\ got[f] = 0 BY DEF Init
  <2>3. pc[S] # "file" BY <1>a, <1>2
  <2> QED BY <2>1, <2>2, <2>3 DEF Init, Calm
<1>9. Beginning BY <1>a, <1>2 DEF Beginning
<1>10. Flow BY <1>1, <1>8, <1>9, CalmFlow
<1> QED BY <1>1, <1>3, <1>4, <1>5, <1>6, <1>7, <1>8, <1>10 DEF IInv

(* Every step keeps the invariant. *)
LEMMA NextIInv == IInv /\ [Next]_vars => IInv'
<1> SUFFICES ASSUME IInv, [Next]_vars PROVE IInv' OBVIOUS
<1>1. /\ TypeOK /\ Tries /\ Talking /\ Proved /\ ListedAfterChallenges /\ InSync
      /\ Early => Calm
      /\ Flow
  BY DEF IInv
<1>2. Receiving BY <1>1 DEF Flow
<1>3. TypeOK' BY <1>1, <1>2, StepTypes
<1>4. Tries' BY <1>1, <1>2, TriesStep
<1>5. Talking' BY <1>1, <1>2, TalkingStep
<1>6. Proved' BY <1>1, <1>2, ProvedStep
<1>7. ListedAfterChallenges' BY <1>1, <1>2, ListedStep
<1>8. InSync' BY <1>1, <1>2, InSyncStep
<1>9. CASE Early
  <2>1. Calm' BY <1>1, <1>2, <1>9, CalmStep
  <2>2. Flow' BY <1>1, <1>3, <1>9, <2>1, EarlyFlow
  <2> QED BY <1>3, <1>4, <1>5, <1>6, <1>7, <1>8, <2>1, <2>2 DEF IInv
<1>10. CASE ~Early
  <2>1. ~Early' BY <1>1, <1>2, <1>10, LateStays
  <2>2. Flow' BY <1>1, <1>10, LateFlow
  <2> QED BY <1>3, <1>4, <1>5, <1>6, <1>7, <1>8, <2>1, <2>2 DEF IInv
<1> QED BY <1>9, <1>10

(* Where the tasks stand, what is on the way and what was received fit together, for every list of *)
(* files, every choice of PINs and keys, and a connection that may break at any moment.            *)
THEOREM TransferInvariant == Spec => []IInv
BY InitIInv, NextIInv, PTL DEF Spec

(* verify_pin never tries more often than max_tries, and the receiving application sees no list of *)
(* files before both PINs were right and both tokens verified.                                     *)
THEOREM ChallengesAlwaysHold == Spec => []ChallengesHold
<1>1. IInv => ChallengesHold BY DEF IInv, ChallengesHold
<1> QED BY <1>1, TransferInvariant, PTL

(* No message of the data channel is parsed as what it is not, but the last delimiter. *)
THEOREM AlwaysInSync == Spec => []InSync
<1>1. IInv => InSync BY DEF IInv
<1> QED BY <1>1, TransferInvariant, PTL

(* A file whose result was sent is whole, what was sent when the sender ends reaches the           *)
(* application, and a result is the rating of the file it names unless a file was too long.        *)
THEOREM FilesAlwaysArrive == Spec => []FilesArrive
<1>1. IInv => FilesArrive
  <2>1. SUFFICES ASSUME IInv PROVE FilesArrive OBVIOUS
  <2>2. Answered /\ Kept /\ Rated BY <2>1 DEF IInv, Flow
  <2>3. AnsweredWhole BY <2>2 DEF Answered, AnsweredWhole
  <2>4. SentArrives BY <2>2 DEF Kept, SentArrives
  <2>5. RatingOfFile BY <2>2 DEF Rated, RatingOfFile
  <2> QED BY <2>3, <2>4, <2>5 DEF FilesArrive
<1> QED BY <1>1, TransferInvariant, PTL
=============================================================================
