-------------------------- MODULE LspServer_proofs --------------------------
(***************************************************************************)
(* Every request is answered once; once nothing travels, server and client *)
(* hold one text, and the diagnostics the client shows are those of that   *)
(* text; token deltas rebuild the tokens they were answered for.  For any  *)
(* texts, edits, requests and analyses, as far as the hypotheses of each   *)
(* theorem say.                                                            *)
(***************************************************************************)
EXTENDS LspServer, FiniteSetTheorems, WellFoundedInduction, SequenceTheorems, TLAPS

-----------------------------------------------------------------------------
(* Channels.                                                               *)

LEMMA SeqIsSeq == ASSUME NEW S, NEW q \in Seq(S) PROVE IsSeq(q)
<1>1. Len(q) \in Nat /\ q \in [1..Len(q) -> S]
  BY LenProperties
<1>2. q \in [1..Len(q) -> {q[i] : i \in 1..Len(q)}]
  BY <1>1
<1> QED BY <1>1, <1>2, SeqDef, SMTT(40) DEF IsSeq

LEMMA TailIsSeq ==
    ASSUME NEW q, IsSeq(q), q # <<>>
    PROVE  /\ IsSeq(Tail(q)) /\ Len(q) \in Nat \ {0} /\ Len(Tail(q)) = Len(q) - 1 /\ Head(q) = q[1]
           /\ \A i \in 1..Len(Tail(q)) : Tail(q)[i] = q[i + 1]
<1>1. /\ Tail(q) \in Seq({q[i] : i \in 1..Len(q)}) /\ Len(Tail(q)) = Len(q) - 1
      /\ \A i \in 1..Len(Tail(q)) : Tail(q)[i] = q[i + 1]
  BY HeadTailProperties DEF IsSeq
<1>2. Len(q) \in Nat \ {0}
  BY EmptySeq DEF IsSeq
<1>3. Head(q) = q[1]
  BY <1>2 DEF IsSeq
<1> QED BY <1>1, <1>2, <1>3, SeqIsSeq

LEMMA AppendIsSeq ==
    ASSUME NEW q, IsSeq(q), NEW x
    PROVE  /\ IsSeq(Append(q, x)) /\ Len(Append(q, x)) = Len(q) + 1 /\ Len(q) \in Nat
           /\ Append(q, x)[Len(q) + 1] = x
           /\ \A i \in 1..Len(q) : Append(q, x)[i] = q[i]
<1> DEFINE S == {q[i] : i \in 1..Len(q)} \cup {x}
<1>1. q \in Seq(S) /\ x \in S
  BY SeqMonotonic DEF IsSeq
<1> HIDE DEF S
<1> QED BY <1>1, AppendProperties, SeqIsSeq DEF IsSeq

LEMMA SendIsAppend == ASSUME NEW q, IsSeq(q), NEW x PROVE q \o <<x>> = Append(q, x)
<1> DEFINE S == {q[i] : i \in 1..Len(q)} \cup {x}
<1>1. q \in Seq(S) /\ x \in S
  BY SeqMonotonic DEF IsSeq
<1> HIDE DEF S
<1> QED BY <1>1, AppendIsConcat

\* The ids of the messages of some kinds in a channel, each once.
Ids(q, K) == {q[i].id : i \in {j \in 1..Len(q) : q[j].kind \in K}}
OnceIn(q, K) == \A i, j \in 1..Len(q) : q[i].kind \in K /\ q[j].kind \in K /\ q[i].id = q[j].id => i = j

LEMMA TakeIds ==
    ASSUME NEW q, NEW K, IsSeq(q), q # <<>>, OnceIn(q, K)
    PROVE  /\ OnceIn(Tail(q), K)
           /\ IF Head(q).kind \in K THEN Ids(Tail(q), K) = Ids(q, K) \ {Head(q).id} /\ Head(q).id \in Ids(q, K)
              ELSE Ids(Tail(q), K) = Ids(q, K)
<1> DEFINE n == Len(q)
           u == Tail(q)
<1>1. /\ n \in Nat \ {0} /\ Len(u) = n - 1 /\ Head(q) = q[1]
      /\ \A i \in 1..(n - 1) : u[i] = q[i + 1]
  BY TailIsSeq
<1> HIDE DEF n, u
<1>2. \A i \in 1..(n - 1) : i + 1 \in 1..n /\ i + 1 # 1 /\ u[i] = q[i + 1]
  BY <1>1
<1>3. ASSUME NEW i \in 1..n, i # 1 PROVE i - 1 \in 1..(n - 1) /\ u[i - 1] = q[i]
  <2>1. i - 1 \in 1..(n - 1) /\ (i - 1) + 1 = i
    BY <1>1, <1>3
  <2> QED BY <1>1, <2>1
<1>4. OnceIn(u, K)
  <2> SUFFICES ASSUME NEW i \in 1..(n - 1), NEW j \in 1..(n - 1), u[i].kind \in K, u[j].kind \in K, u[i].id = u[j].id
               PROVE  i = j
    BY <1>1 DEF OnceIn
  <2>1. i + 1 = j + 1
    BY <1>2 DEF OnceIn, n
  <2> QED BY <1>1, <2>1
<1>5. 1 \in 1..n
  BY <1>1
<1>6. ASSUME q[1].kind \in K PROVE Ids(u, K) = Ids(q, K) \ {q[1].id} /\ q[1].id \in Ids(q, K)
  <2>1. q[1].id \in Ids(q, K)
    BY <1>5, <1>6 DEF Ids, n
  <2>2. Ids(u, K) \subseteq Ids(q, K) \ {q[1].id}
    BY <1>1, <1>2, <1>5, <1>6, SMTT(40) DEF Ids, OnceIn, n
  <2>3. Ids(q, K) \ {q[1].id} \subseteq Ids(u, K)
    BY <1>1, <1>3 DEF Ids, n
  <2> QED BY <2>1, <2>2, <2>3
<1>7. ASSUME q[1].kind \notin K PROVE Ids(u, K) = Ids(q, K)
  <2>1. Ids(u, K) \subseteq Ids(q, K)
    BY <1>1, <1>2, SMTT(40) DEF Ids, n
  <2>2. Ids(q, K) \subseteq Ids(u, K)
    BY <1>1, <1>3, <1>7, SMTT(40) DEF Ids, n
  <2> QED BY <2>1, <2>2
<1> QED BY <1>1, <1>4, <1>6, <1>7 DEF u

LEMMA PutIds ==
    ASSUME NEW q, NEW K, IsSeq(q), OnceIn(q, K), NEW x
    PROVE  /\ x.kind \notin K => OnceIn(Append(q, x), K) /\ Ids(Append(q, x), K) = Ids(q, K)
           /\ x.kind \in K /\ x.id \notin Ids(q, K) =>
                OnceIn(Append(q, x), K) /\ Ids(Append(q, x), K) = Ids(q, K) \cup {x.id}
<1> DEFINE n == Len(q)
           u == Append(q, x)
<1>1. n \in Nat /\ Len(u) = n + 1 /\ u[n + 1] = x /\ \A i \in 1..n : u[i] = q[i]
  BY AppendIsSeq
<1> HIDE DEF n, u
<1>2. \A i \in 1..(n + 1) : i \in 1..n \/ i = n + 1
  BY <1>1
<1>3. \A i \in 1..n : i \in 1..(n + 1)
  BY <1>1
<1>4. n + 1 \in 1..(n + 1)
  BY <1>1
<1>5. ASSUME x.kind \notin K PROVE OnceIn(u, K) /\ Ids(u, K) = Ids(q, K)
  <2>1. OnceIn(u, K)
    BY <1>1, <1>2, <1>5 DEF OnceIn, n
  <2>2. Ids(u, K) = Ids(q, K)
    BY <1>1, <1>2, <1>3, <1>5 DEF Ids, n
  <2> QED BY <2>1, <2>2
<1>6. ASSUME x.kind \in K, x.id \notin Ids(q, K) PROVE OnceIn(u, K) /\ Ids(u, K) = Ids(q, K) \cup {x.id}
  <2>1. \A i \in 1..n : q[i].kind \in K => q[i].id # x.id
    BY <1>6 DEF Ids, n
  <2>2. OnceIn(u, K)
    BY <1>1, <1>2, <2>1 DEF OnceIn, n
  <2>3. Ids(u, K) = Ids(q, K) \cup {x.id}
    BY <1>1, <1>2, <1>3, <1>4, <1>6 DEF Ids, n
  <2> QED BY <2>2, <2>3
<1> QED BY <1>5, <1>6 DEF u

-----------------------------------------------------------------------------
(* Requests.                                                               *)

Questions == {"request", "shutdown"}
Answers == {"tokens", "delta", "read", "edits", "actions", "null", "error"}
Asking == Ids(c2s, Questions)
Answering == Ids(s2c, Answers)
Unanswered == {k \in 1..Len(asked) : asked[k].got = 0}

\* A request without an answer is in one channel or the other.
AnswerInv ==
    /\ IsSeq(asked) /\ IsSeq(c2s) /\ IsSeq(s2c)
    /\ OnceIn(c2s, Questions) /\ OnceIn(s2c, Answers)
    /\ \A j \in 1..Len(s2c) : s2c[j].kind \in Answers \cup {"diagnostics"}
    /\ \A k \in 1..Len(asked) : "got" \in DOMAIN asked[k] /\ asked[k].got \in {0, 1}
    /\ Asking \cap Answering = {}
    /\ Asking \cup Answering = Unanswered

\* A request is answered by one message.
AnswerTo(id, out) == \E x : out = <<x>> /\ x.kind \in Answers /\ x.id = id

LEMMA ResponseAnswers == ASSUME NEW id, NEW kind \in Answers, NEW body PROVE AnswerTo(id, respond(id, kind, body))
<1> DEFINE x == [kind |-> kind, id |-> id, body |-> body]
<1>1. respond(id, kind, body) = <<x>> /\ x.kind \in Answers /\ x.id = id
  BY DEF respond
<1> HIDE DEF x
<1> QED BY <1>1 DEF AnswerTo

LEMMA NotOpenAnswers == ASSUME NEW id PROVE AnswerTo(id, NotOpen(id))
<1>1. "null" \in Answers
  BY DEF Answers
<1> QED BY <1>1, ResponseAnswers DEF NotOpen

LEMMA RequestAnswered ==
    ASSUME NEW msg, handle_request(msg) \/ ShutDown(msg)
    PROVE  \E out : s2c' = s2c \o out /\ AnswerTo(msg.id, out)
<1>1. Answers = {"tokens", "delta", "read", "edits", "actions", "null", "error"}
  BY DEF Answers
<1>2. \A kind \in Answers : \A body : AnswerTo(msg.id, respond(msg.id, kind, body))
  BY ResponseAnswers
<1>3. AnswerTo(msg.id, NotOpen(msg.id))
  BY NotOpenAnswers
<1>4. AnswerTo(msg.id, FullTokens(msg))
  BY <1>1, <1>2 DEF FullTokens
<1>5. ASSUME NEW answer, AnswerTo(msg.id, answer), HandOut(msg, answer)
      PROVE  \E out : s2c' = s2c \o out /\ AnswerTo(msg.id, out)
  BY <1>3, <1>5 DEF HandOut, Send
<1>6. CASE InvalidParams(msg)
  BY <1>1, <1>2, <1>6 DEF InvalidParams, Send
<1>7. CASE SemanticTokensFull(msg)
  BY <1>4, <1>5, <1>7 DEF SemanticTokensFull
<1>8. CASE SemanticTokensFullDelta(msg)
  <2> DEFINE body == [id |-> Tokens(msg).id,
                      edits |-> IF tokens[msg.uri].data = Tokens(msg).data THEN <<>>
                                ELSE <<token_edit(tokens[msg.uri].data, Tokens(msg).data)>>]
             full == tokens[msg.uri].id = 0 \/ tokens[msg.uri].id # msg.previous
             answer == IF full THEN FullTokens(msg) ELSE respond(msg.id, "delta", body)
  <2>1. HandOut(msg, answer)
    BY <1>8 DEF SemanticTokensFullDelta
  <2>2. AnswerTo(msg.id, answer)
    <3> HIDE DEF body, full
    <3> QED BY <1>1, <1>2, <1>4, SMTT(40)
  <2> HIDE DEF answer
  <2> QED BY <1>5, <2>1, <2>2
<1>9. CASE Read(msg)
  BY <1>1, <1>2, <1>3, <1>9 DEF Read, Send
<1>10. CASE Formatting(msg)
  <2> DEFINE doc == docs[msg.uri]
             new == Pretty(doc.text)
             body == IF new[1] = doc.text THEN <<>> ELSE <<whole_doc_edit(doc.text, new[1])>>
  <2>1. s2c' = s2c \o (IF ~doc.open \/ doc.lang # "turtle" \/ new = <<>> THEN NotOpen(msg.id)
                       ELSE respond(msg.id, "edits", body))
    BY <1>10, Zenon DEF Formatting, Send
  <2> HIDE DEF doc, new, body
  <2> QED BY <1>1, <1>2, <1>3, <2>1, SMTT(40)
<1>11. CASE CodeAction(msg)
  <2> DEFINE doc == docs[msg.uri]
             body == actions(doc, msg.range, msg.only)
  <2>1. s2c' = s2c \o (IF doc.open THEN respond(msg.id, "actions", body) ELSE NotOpen(msg.id))
    BY <1>11 DEF CodeAction, Send
  <2> HIDE DEF doc, body
  <2> QED BY <1>1, <1>2, <1>3, <2>1
<1>12. CASE Send(respond(msg.id, "error", <<"MethodNotFound">>))
  BY <1>1, <1>2, <1>12 DEF Send
<1>13. CASE ShutDown(msg)
  BY <1>1, <1>2, <1>13 DEF ShutDown, Send
<1> QED BY <1>6, <1>7, <1>8, <1>9, <1>10, <1>11, <1>12, <1>13 DEF handle_request

\* A notification is answered by diagnostics or by nothing.
Publishes(out) == \E x : out = <<x>> /\ x.kind = "diagnostics"

LEMMA DiagnosticsPublish == ASSUME NEW uri, NEW version, NEW diags PROVE Publishes(send_diagnostics(uri, version, diags))
<1> DEFINE x == [kind |-> "diagnostics", uri |-> uri, version |-> version, diags |-> diags]
<1>1. send_diagnostics(uri, version, diags) = <<x>> /\ x.kind = "diagnostics"
  BY DEF send_diagnostics
<1> HIDE DEF x
<1> QED BY <1>1 DEF Publishes

LEMMA NotificationPublishes ==
    ASSUME NEW msg, DidOpen(msg) \/ DidChange(msg) \/ DidClose(msg)
    PROVE  s2c' = s2c \/ \E out : s2c' = s2c \o out /\ Publishes(out)
<1>1. \A uri, doc : Publishes(publish_diagnostics(uri, doc))
  BY DiagnosticsPublish DEF publish_diagnostics
<1>2. CASE DidOpen(msg)
  BY <1>1, <1>2 DEF DidOpen, Send
<1>3. CASE DidChange(msg)
  <2>1. \/ s2c' = s2c
        \/ Send(publish_diagnostics(msg.uri,
                    [docs[msg.uri] EXCEPT !.text = applied(@, msg.changes), !.version = msg.version]))
    BY <1>3, Zenon DEF DidChange
  <2> QED BY <1>1, <2>1, Zenon DEF Send
<1>4. CASE DidClose(msg)
  BY <1>4, DiagnosticsPublish DEF DidClose, Send
<1> QED BY <1>2, <1>3, <1>4

\* What a channel holds after a message is taken, or put.
LEMMA SentKinds ==
    ASSUME NEW q, NEW K, IsSeq(q), \A j \in 1..Len(q) : q[j].kind \in K
    PROVE  /\ q # <<>> => Head(q).kind \in K /\ \A j \in 1..Len(Tail(q)) : Tail(q)[j].kind \in K
           /\ \A x : x.kind \in K => \A j \in 1..Len(Append(q, x)) : Append(q, x)[j].kind \in K
<1>1. ASSUME q # <<>> PROVE Head(q).kind \in K /\ \A j \in 1..Len(Tail(q)) : Tail(q)[j].kind \in K
  <2>1. /\ Len(q) \in Nat \ {0} /\ Len(Tail(q)) = Len(q) - 1 /\ Head(q) = q[1]
        /\ \A j \in 1..Len(Tail(q)) : Tail(q)[j] = q[j + 1]
    BY <1>1, TailIsSeq
  <2>2. 1 \in 1..Len(q) /\ \A j \in 1..Len(Tail(q)) : j + 1 \in 1..Len(q)
    BY <2>1
  <2> QED BY <2>1, <2>2
<1>2. ASSUME NEW x, x.kind \in K PROVE \A j \in 1..Len(Append(q, x)) : Append(q, x)[j].kind \in K
  <2>1. /\ Len(Append(q, x)) = Len(q) + 1 /\ Len(q) \in Nat /\ Append(q, x)[Len(q) + 1] = x
        /\ \A j \in 1..Len(q) : Append(q, x)[j] = q[j]
    BY AppendIsSeq
  <2>2. \A j \in 1..Len(Append(q, x)) : j \in 1..Len(q) \/ j = Len(q) + 1
    BY <2>1
  <2> QED BY <1>2, <2>1, <2>2
<1> QED BY <1>1, <1>2

\* A message the server sends at the end of its channel.
LEMMA Sends ==
    ASSUME AnswerInv, NEW x, s2c' = s2c \o <<x>>, x.kind \in Answers \cup {"diagnostics"}
    PROVE  /\ IsSeq(s2c') /\ \A j \in 1..Len(s2c') : s2c'[j].kind \in Answers \cup {"diagnostics"}
           /\ x.kind = "diagnostics" => OnceIn(s2c', Answers) /\ Ids(s2c', Answers) = Answering
           /\ x.kind \in Answers /\ x.id \notin Answering
              => OnceIn(s2c', Answers) /\ Ids(s2c', Answers) = Answering \cup {x.id}
<1>1. s2c' = Append(s2c, x)
  BY SendIsAppend DEF AnswerInv
<1>2. x.kind = "diagnostics" => x.kind \notin Answers
  BY DEF Answers
<1>3. \A j \in 1..Len(s2c') : s2c'[j].kind \in Answers \cup {"diagnostics"}
  <2> DEFINE K == Answers \cup {"diagnostics"}
  <2>1. \A j \in 1..Len(Append(s2c, x)) : Append(s2c, x)[j].kind \in K
    <3>1. IsSeq(s2c) /\ x.kind \in K /\ \A j \in 1..Len(s2c) : s2c[j].kind \in K
      BY DEF AnswerInv
    <3> HIDE DEF K
    <3> QED BY <3>1, SentKinds
  <2> QED BY <1>1, <2>1
<1>4. IsSeq(s2c) /\ OnceIn(s2c, Answers)
  BY DEF AnswerInv
<1>5. IsSeq(Append(s2c, x))
  BY <1>4, AppendIsSeq
<1>6. /\ x.kind \notin Answers => OnceIn(Append(s2c, x), Answers) /\ Ids(Append(s2c, x), Answers) = Answering
      /\ x.kind \in Answers /\ x.id \notin Answering =>
           OnceIn(Append(s2c, x), Answers) /\ Ids(Append(s2c, x), Answers) = Answering \cup {x.id}
  BY <1>4, PutIds DEF Answering
<1> QED BY <1>1, <1>2, <1>3, <1>5, <1>6

\* A notification of the client changes nothing about requests.
LEMMA Notifies ==
    ASSUME AnswerInv, NEW m, m.kind \notin Questions, c2s' = Append(c2s, m) \/ c2s' = c2s
    PROVE  IsSeq(c2s') /\ OnceIn(c2s', Questions) /\ Ids(c2s', Questions) = Asking
<1>1. IsSeq(c2s) /\ OnceIn(c2s, Questions)
  BY DEF AnswerInv
<1>2. IsSeq(Append(c2s, m))
  BY <1>1, AppendIsSeq
<1>3. OnceIn(Append(c2s, m), Questions) /\ Ids(Append(c2s, m), Questions) = Asking
  BY <1>1, PutIds DEF Asking
<1> QED BY <1>1, <1>2, <1>3 DEF Asking

LEMMA ServeAnswers == ASSUME AnswerInv, Serve PROVE AnswerInv'
<1>1. PICK msg : msg = Head(c2s)
  OBVIOUS
<1>2. /\ c2s # <<>> /\ c2s' = Tail(c2s) /\ asked' = asked
      /\ \/ msg.kind \notin Questions /\ (DidOpen(msg) \/ DidChange(msg) \/ DidClose(msg))
         \/ msg.kind \in Questions /\ (handle_request(msg) \/ ShutDown(msg))
  <2>1. asked' = asked
    BY Zenon DEF Serve, cvars
  <2>2. \/ msg.kind = "open" /\ DidOpen(msg)
        \/ msg.kind = "change" /\ DidChange(msg)
        \/ msg.kind = "close" /\ DidClose(msg)
        \/ msg.kind = "request" /\ handle_request(msg)
        \/ msg.kind = "shutdown" /\ ShutDown(msg)
    BY <1>1, Zenon DEF Serve
  <2>3. c2s # <<>> /\ c2s' = Tail(c2s)
    BY Zenon DEF Serve
  <2> QED BY <2>1, <2>2, <2>3 DEF Questions
<1>3. /\ IsSeq(c2s') /\ OnceIn(c2s', Questions)
      /\ IF msg.kind \in Questions THEN Asking' = Asking \ {msg.id} /\ msg.id \in Asking
         ELSE Asking' = Asking
  BY <1>1, <1>2, TailIsSeq, TakeIds DEF AnswerInv, Asking
<1>4. CASE msg.kind \notin Questions /\ (DidOpen(msg) \/ DidChange(msg) \/ DidClose(msg))
  <2>1. CASE s2c' = s2c
    BY <1>2, <1>3, <1>4, <2>1 DEF AnswerInv, Answering, Unanswered
  <2>2. CASE \E x : s2c' = s2c \o <<x>> /\ x.kind = "diagnostics"
    <3>1. /\ IsSeq(s2c') /\ \A j \in 1..Len(s2c') : s2c'[j].kind \in Answers \cup {"diagnostics"}
          /\ OnceIn(s2c', Answers) /\ Answering' = Answering
      BY <2>2, Sends DEF Answering
    <3> QED BY <1>2, <1>3, <1>4, <3>1 DEF AnswerInv, Unanswered
  <2> QED BY <1>4, <2>1, <2>2, NotificationPublishes DEF Publishes
<1>5. CASE msg.kind \in Questions /\ (handle_request(msg) \/ ShutDown(msg))
  <2>1. PICK x : s2c' = s2c \o <<x>> /\ x.kind \in Answers /\ x.id = msg.id
    BY <1>5, RequestAnswered DEF AnswerTo
  <2>2. x.id \in Asking /\ x.id \notin Answering
    BY <1>3, <1>5, <2>1 DEF AnswerInv
  <2>3. /\ IsSeq(s2c') /\ \A j \in 1..Len(s2c') : s2c'[j].kind \in Answers \cup {"diagnostics"}
        /\ OnceIn(s2c', Answers) /\ Answering' = Answering \cup {x.id}
    BY <2>1, <2>2, Sends DEF Answering
  <2>4. Unanswered' = Unanswered
    BY <1>2 DEF Unanswered
  <2> QED BY <1>2, <1>3, <1>5, <2>1, <2>2, <2>3, <2>4 DEF AnswerInv
<1> QED BY <1>2, <1>4, <1>5

\* Receiving takes a message from the server; the client may answer it with a
\* notification.
LEMMA ReceiveAnswers == ASSUME AnswerInv, Receive PROVE AnswerInv'
<1>1. PICK msg : msg = Head(s2c)
  OBVIOUS
<1>2. s2c # <<>> /\ s2c' = Tail(s2c) /\ (ReceiveDiagnostics(msg) \/ ReceiveResponse(msg))
  BY <1>1, Zenon DEF Receive
<1>3. /\ IsSeq(s2c') /\ OnceIn(s2c', Answers)
      /\ IF msg.kind \in Answers THEN Answering' = Answering \ {msg.id} /\ msg.id \in Answering
         ELSE Answering' = Answering
  BY <1>1, <1>2, TailIsSeq, TakeIds DEF AnswerInv, Answering
<1>4. msg.kind \in Answers \cup {"diagnostics"} /\ \A j \in 1..Len(s2c') : s2c'[j].kind \in Answers \cup {"diagnostics"}
  <2> DEFINE K == Answers \cup {"diagnostics"}
  <2>1. IsSeq(s2c) /\ \A j \in 1..Len(s2c) : s2c[j].kind \in K
    BY DEF AnswerInv
  <2> HIDE DEF K
  <2>2. msg.kind \in K /\ \A j \in 1..Len(Tail(s2c)) : Tail(s2c)[j].kind \in K
    BY <1>1, <1>2, <2>1, SentKinds
  <2>3. \A j \in 1..Len(s2c') : s2c'[j].kind \in K
    BY <1>2, <2>2
  <2> QED BY <2>2, <2>3 DEF K
<1>5. CASE ReceiveDiagnostics(msg)
  <2>1. msg.kind \notin Answers /\ UNCHANGED <<c2s, asked>>
    BY <1>5 DEF ReceiveDiagnostics, Answers
  <2> QED BY <1>3, <1>4, <2>1 DEF AnswerInv, Asking, Unanswered
<1>6. CASE ReceiveResponse(msg)
  <2>1. msg.kind \in Answers /\ asked' = [asked EXCEPT ![msg.id].got = @ + 1]
    BY <1>4, <1>6, Zenon DEF ReceiveResponse
  <2>2. \E m : m.kind \notin Questions /\ (c2s' = Append(c2s, m) \/ c2s' = c2s)
    <3>1. ASSUME NEW u, NEW edits, NEW all, ApplyEdits(u, edits, all)
          PROVE  \E changes : c2s' = Append(c2s, [kind |-> "change", uri |-> u, version |-> ops, changes |-> changes])
      BY <3>1, Zenon DEF ApplyEdits
    <3>2. \/ c2s' = c2s
          \/ \E u, edits, all : ApplyEdits(u, edits, all)
      BY <1>6, Zenon DEF ReceiveResponse
    <3>3. CASE c2s' = c2s
      <4>1. [kind |-> "none"].kind \notin Questions
        BY DEF Questions
      <4> QED BY <3>3, <4>1
    <3>4. CASE \E u, edits, all : ApplyEdits(u, edits, all)
      <4>1. PICK u, changes : c2s' = Append(c2s, [kind |-> "change", uri |-> u, version |-> ops, changes |-> changes])
        BY <3>1, <3>4
      <4>2. [kind |-> "change", uri |-> u, version |-> ops, changes |-> changes].kind \notin Questions
        BY DEF Questions
      <4> QED BY <4>1, <4>2
    <3> QED BY <3>2, <3>3, <3>4
  <2>3. IsSeq(c2s') /\ OnceIn(c2s', Questions) /\ Asking' = Asking
    BY <2>2, Notifies DEF Asking
  <2>4. msg.id \in 1..Len(asked) /\ asked[msg.id].got = 0 /\ "got" \in DOMAIN asked[msg.id] /\ msg.id \in Answering
    BY <1>3, <2>1 DEF AnswerInv, Unanswered
  <2>5. DOMAIN asked = 1..Len(asked) /\ Len(asked) \in Nat
    BY LenProperties DEF AnswerInv, IsSeq
  <2>6. PICK a : a = [asked[msg.id] EXCEPT !.got = @ + 1]
    OBVIOUS
  <2>7. "got" \in DOMAIN a /\ a.got = 1
    BY <2>4, <2>6
  <2>8. /\ DOMAIN asked' = 1..Len(asked) /\ asked'[msg.id] = a
        /\ \A k \in 1..Len(asked) : k # msg.id => asked'[k] = asked[k]
    BY <2>1, <2>4, <2>5, <2>6
  <2>9. IsSeq(asked') /\ Len(asked') = Len(asked)
    <3> DEFINE S == {asked[i] : i \in 1..Len(asked)} \cup {a}
    <3>1. asked \in Seq(S) /\ a \in S
      BY SeqMonotonic DEF AnswerInv, IsSeq
    <3>2. asked' = [asked EXCEPT ![msg.id] = a]
      BY <2>1, <2>6
    <3> HIDE DEF S
    <3>3. asked' \in Seq(S) /\ Len(asked') = Len(asked)
      BY <2>4, <3>1, <3>2, ExceptSeq
    <3> QED BY <3>3, SeqIsSeq
  <2>10. Unanswered' = Unanswered \ {msg.id}
    BY <2>7, <2>8, <2>9 DEF Unanswered
  <2>11. \A k \in 1..Len(asked') : "got" \in DOMAIN asked'[k] /\ asked'[k].got \in {0, 1}
    BY <2>7, <2>8, <2>9 DEF AnswerInv
  <2> QED BY <1>3, <1>4, <2>1, <2>3, <2>4, <2>9, <2>10, <2>11 DEF AnswerInv
<1> QED BY <1>2, <1>5, <1>6

\* The client asks: a request of its own, not yet answered.
LEMMA AskAnswers ==
    ASSUME AnswerInv, NEW a, NEW m, asked' = Append(asked, a), c2s' = Append(c2s, m), s2c' = s2c,
           "got" \in DOMAIN a, a.got = 0, m.kind \in Questions, m.id = Len(asked) + 1
    PROVE  AnswerInv'
<1>1. /\ IsSeq(asked') /\ Len(asked') = Len(asked) + 1 /\ Len(asked) \in Nat
      /\ asked'[Len(asked) + 1] = a /\ \A k \in 1..Len(asked) : asked'[k] = asked[k]
  BY AppendIsSeq DEF AnswerInv
<1>2. \A k \in 1..Len(asked') : k \in 1..Len(asked) \/ k = Len(asked) + 1
  BY <1>1
<1>3. \A k \in 1..Len(asked) : k \in 1..Len(asked')
  BY <1>1
<1>4. Len(asked) + 1 \in 1..Len(asked') /\ Len(asked) + 1 \notin 1..Len(asked)
  BY <1>1
<1>5. Unanswered' = Unanswered \cup {m.id}
  BY <1>1, <1>2, <1>3, <1>4 DEF Unanswered
<1>6. m.id \notin Asking /\ m.id \notin Answering
  BY <1>4 DEF AnswerInv, Unanswered
<1>7. IsSeq(c2s') /\ OnceIn(c2s', Questions) /\ Asking' = Asking \cup {m.id}
  <2>1. IsSeq(c2s) /\ OnceIn(c2s, Questions)
    BY DEF AnswerInv
  <2>2. IsSeq(Append(c2s, m))
    BY <2>1, AppendIsSeq
  <2>3. OnceIn(Append(c2s, m), Questions) /\ Ids(Append(c2s, m), Questions) = Asking \cup {m.id}
    BY <1>6, <2>1, PutIds DEF Asking
  <2> QED BY <2>2, <2>3 DEF Asking
<1>8. \A k \in 1..Len(asked') : "got" \in DOMAIN asked'[k] /\ asked'[k].got \in {0, 1}
  BY <1>1, <1>2 DEF AnswerInv
<1>9. Answering' = Answering
  BY DEF Answering
<1> QED BY <1>1, <1>5, <1>6, <1>7, <1>8, <1>9 DEF AnswerInv

\* The client edits: a notification.
LEMMA EditAnswers ==
    ASSUME AnswerInv, NEW m, asked' = asked, c2s' = Append(c2s, m), s2c' = s2c, m.kind \notin Questions
    PROVE  AnswerInv'
<1>1. IsSeq(c2s') /\ OnceIn(c2s', Questions) /\ Asking' = Asking
  BY Notifies DEF Asking
<1> QED BY <1>1 DEF AnswerInv, Answering, Unanswered

LEMMA ClientAnswers ==
    ASSUME AnswerInv, NEW u, OpenDocument(u) \/ CloseDocument(u) \/ ReplaceText(u) \/ Request(u) \/ Shutdown
    PROVE  AnswerInv'
<1>1. CASE OpenDocument(u)
  <2>1. PICK lang, text :
            c2s' = Append(c2s, [kind |-> "open", uri |-> u, lang |-> lang, text |-> text, version |-> ops])
    BY <1>1, Zenon DEF OpenDocument, Post
  <2>2. s2c' = s2c /\ asked' = asked
    BY <1>1, Zenon DEF OpenDocument, Post
  <2>3. [kind |-> "open", uri |-> u, lang |-> lang, text |-> text, version |-> ops].kind \notin Questions
    BY DEF Questions
  <2> QED BY <2>1, <2>2, <2>3, EditAnswers
<1>2. CASE CloseDocument(u)
  <2>1. c2s' = Append(c2s, [kind |-> "close", uri |-> u]) /\ s2c' = s2c /\ asked' = asked
    BY <1>2, Zenon DEF CloseDocument, Post
  <2>2. [kind |-> "close", uri |-> u].kind \notin Questions
    BY DEF Questions
  <2> QED BY <2>1, <2>2, EditAnswers
<1>3. CASE ReplaceText(u)
  <2>1. PICK changes : c2s' = Append(c2s, [kind |-> "change", uri |-> u, version |-> ops, changes |-> changes])
    BY <1>3, Zenon DEF ReplaceText, Post
  <2>2. s2c' = s2c /\ asked' = asked
    BY <1>3, Zenon DEF ReplaceText, Post
  <2>3. [kind |-> "change", uri |-> u, version |-> ops, changes |-> changes].kind \notin Questions
    BY DEF Questions
  <2> QED BY <2>1, <2>2, <2>3, EditAnswers
<1>4. CASE Request(u)
  <2>1. PICK a, m :
          /\ asked' = Append(asked, a) /\ c2s' = Append(c2s, m) /\ s2c' = s2c
          /\ "got" \in DOMAIN a /\ a.got = 0 /\ m.kind = "request" /\ m.id = Len(asked) + 1
    <3>1. PICK ask \in Asks(ops) :
            /\ asked' = Append(asked, [method |-> ask.method, uri |-> u, doc |-> copy[u],
                                       quoted |-> baseline[u].data, got |-> 0])
            /\ Post([kind |-> "request", id |-> Len(asked) + 1, uri |-> u, method |-> ask.method,
                     malformed |-> ask.malformed, only |-> ask.only, previous |-> baseline[u].id,
                     range |-> byte_range(copy[u].text, 0, Len(copy[u].text))])
      BY <1>4, Zenon DEF Request
    <3> DEFINE a == [method |-> ask.method, uri |-> u, doc |-> copy[u], quoted |-> baseline[u].data, got |-> 0]
               m == [kind |-> "request", id |-> Len(asked) + 1, uri |-> u, method |-> ask.method,
                     malformed |-> ask.malformed, only |-> ask.only, previous |-> baseline[u].id,
                     range |-> byte_range(copy[u].text, 0, Len(copy[u].text))]
    <3>2. "got" \in DOMAIN a /\ a.got = 0 /\ m.kind = "request" /\ m.id = Len(asked) + 1
      OBVIOUS
    <3>3. asked' = Append(asked, a) /\ c2s' = Append(c2s, m) /\ s2c' = s2c
      BY <3>1, Zenon DEF Post
    <3> HIDE DEF a, m
    <3> QED BY <3>2, <3>3
  <2> QED BY <2>1, AskAnswers DEF Questions
<1>5. CASE Shutdown
  <2> DEFINE a == [method |-> "shutdown", uri |-> CHOOSE v \in Uri : TRUE, doc |-> Closed, quoted |-> <<>>, got |-> 0]
             m == [kind |-> "shutdown", id |-> Len(asked) + 1]
  <2>1. asked' = Append(asked, a) /\ c2s' = Append(c2s, m) /\ s2c' = s2c
    BY <1>5, Zenon DEF Shutdown
  <2>2. "got" \in DOMAIN a /\ a.got = 0 /\ m.kind = "shutdown" /\ m.id = Len(asked) + 1
    OBVIOUS
  <2> HIDE DEF a, m
  <2> QED BY <2>1, <2>2, AskAnswers DEF Questions
<1> QED BY <1>1, <1>2, <1>3, <1>4, <1>5

LEMMA EmptyIds == \A K : IsSeq(<<>>) /\ OnceIn(<<>>, K) /\ Ids(<<>>, K) = {}
<1>1. <<>> \in Seq({}) /\ Len(<<>>) = 0 /\ 1..0 = {}
  BY EmptySeq
<1>2. IsSeq(<<>>)
  BY <1>1, SeqIsSeq
<1> QED BY <1>1, <1>2 DEF OnceIn, Ids

LEMMA AnswerInit == Init => AnswerInv
BY EmptyIds, EmptySeq DEF Init, AnswerInv, Asking, Answering, Unanswered

LEMMA AnswerStep == ASSUME AnswerInv, [Next]_vars PROVE AnswerInv'
<1>1. CASE UNCHANGED vars
  <2>1. c2s' = c2s /\ s2c' = s2c /\ asked' = asked
    BY <1>1 DEF vars, cvars
  <2> QED BY <2>1 DEF AnswerInv, Asking, Answering, Unanswered
<1> QED BY <1>1, ServeAnswers, ReceiveAnswers, ClientAnswers DEF Next

LEMMA AnswerAlways == Spec => []AnswerInv
BY AnswerInit, AnswerStep, PTL DEF Spec

\* Every request, malformed, unknown or about a closed document, is answered
\* by exactly one response (handle_request, handle_shutdown).
THEOREM RepliesOnce == Spec => []AnsweredOnce
<1>1. ASSUME AnswerInv PROVE AnsweredOnce
  <2>1. \A k \in 1..Len(asked) : asked[k].got <= 1
    BY <1>1 DEF AnswerInv
  <2>2. ASSUME c2s = <<>>, s2c = <<>>, NEW k \in 1..Len(asked) PROVE asked[k].got = 1
    <3>1. Asking = {} /\ Answering = {}
      BY <2>2, EmptyIds DEF Asking, Answering
    <3>2. k \notin Unanswered
      BY <1>1, <3>1 DEF AnswerInv
    <3> QED BY <1>1, <3>2 DEF AnswerInv, Unanswered
  <2> QED BY <2>1, <2>2 DEF AnsweredOnce
<1>2. AnswerInv => AnsweredOnce
  BY <1>1
<1> QED BY <1>2, AnswerAlways, PTL

-----------------------------------------------------------------------------
(* Diagnostics.                                                            *)

\* What a document's diagnostics read, and what a message carries.
Of(doc) ==
    LET diags == Diagnose(doc.lang, doc.text)
    IN IF ~doc.open THEN NoDiagnostics
       ELSE [version |-> doc.version,
             diags |-> [i \in 1..Len(diags) |-> byte_range(doc.text, diags[i].from, diags[i].to)]]
Carried(m) == [version |-> m.version, diags |-> m.diags]
About(m, u) == m.kind = "diagnostics" /\ m.uri = u

\* The last diagnostics under way to a document, or else those shown, are of
\* the text the server has.
InFlight(u) ==
    \E i \in 1..Len(s2c) :
        /\ About(s2c[i], u) /\ Carried(s2c[i]) = Of(docs[u])
        /\ \A j \in 1..Len(s2c) : j > i => ~About(s2c[j], u)
Arrived(u) == shown[u] = Of(docs[u]) /\ \A j \in 1..Len(s2c) : ~About(s2c[j], u)
DiagInv ==
    /\ IsSeq(s2c)
    /\ DOMAIN docs = Uri /\ DOMAIN shown = Uri
    /\ \A u \in Uri : "open" \in DOMAIN docs[u] /\ (InFlight(u) \/ Arrived(u))

\* A message put behind the others is the last; one about something else
\* leaves the last where it is.
LEMMA PutLast ==
    ASSUME DiagInv, NEW m, s2c' = s2c \o <<m>>, shown' = shown, NEW u \in Uri
    PROVE  /\ About(m, u) /\ Carried(m) = Of(docs'[u]) => InFlight(u)'
           /\ ~About(m, u) /\ docs'[u] = docs[u] => InFlight(u)' \/ Arrived(u)'
<1>1. /\ Len(s2c') = Len(s2c) + 1 /\ Len(s2c) \in Nat
      /\ s2c'[Len(s2c) + 1] = m /\ \A i \in 1..Len(s2c) : s2c'[i] = s2c[i]
  BY SendIsAppend, AppendIsSeq DEF DiagInv
<1>2. \A i \in 1..Len(s2c') : i \in 1..Len(s2c) \/ i = Len(s2c) + 1
  BY <1>1
<1>3. \A i \in 1..Len(s2c) : i \in 1..Len(s2c')
  BY <1>1
<1>4. ASSUME About(m, u), Carried(m) = Of(docs'[u]) PROVE InFlight(u)'
  <2>1. Len(s2c) + 1 \in 1..Len(s2c') /\ \A j \in 1..Len(s2c') : ~(j > Len(s2c) + 1)
    BY <1>1
  <2> QED BY <1>1, <1>4, <2>1 DEF InFlight
<1>5. ASSUME ~About(m, u), docs'[u] = docs[u] PROVE InFlight(u)' \/ Arrived(u)'
  <2>1. CASE InFlight(u)
    <3>1. PICK i \in 1..Len(s2c) :
            /\ About(s2c[i], u) /\ Carried(s2c[i]) = Of(docs[u])
            /\ \A j \in 1..Len(s2c) : j > i => ~About(s2c[j], u)
      BY <2>1 DEF InFlight
    <3>2. \A j \in 1..Len(s2c') : j > i => ~About(s2c'[j], u)
      BY <1>1, <1>2, <1>5, <3>1
    <3>3. i \in 1..Len(s2c') /\ About(s2c'[i], u) /\ Carried(s2c'[i]) = Of(docs'[u])
      BY <1>1, <1>3, <1>5, <3>1
    <3> QED BY <3>2, <3>3 DEF InFlight
  <2>2. CASE Arrived(u)
    <3>1. \A j \in 1..Len(s2c') : ~About(s2c'[j], u)
      BY <1>1, <1>2, <1>5, <2>2 DEF Arrived
    <3>2. shown'[u] = Of(docs'[u])
      BY <1>5, <2>2 DEF Arrived
    <3> QED BY <3>1, <3>2 DEF Arrived
  <2> QED BY <2>1, <2>2 DEF DiagInv
<1> QED BY <1>4, <1>5

\* Taking the first message: one about u is shown.
LEMMA TakeFirst ==
    ASSUME DiagInv, s2c # <<>>, s2c' = Tail(s2c), docs' = docs, NEW u \in Uri,
           IF About(Head(s2c), u) THEN shown'[u] = Carried(Head(s2c)) ELSE shown'[u] = shown[u]
    PROVE  InFlight(u)' \/ Arrived(u)'
<1>1. /\ Len(s2c) \in Nat \ {0} /\ Len(s2c') = Len(s2c) - 1 /\ Head(s2c) = s2c[1]
      /\ \A i \in 1..Len(s2c') : s2c'[i] = s2c[i + 1]
  BY TailIsSeq DEF DiagInv
<1>2. \A i \in 1..Len(s2c') : i + 1 \in 1..Len(s2c) /\ i + 1 > 1
  BY <1>1
<1>3. CASE InFlight(u)
  <2>1. PICK i \in 1..Len(s2c) :
          /\ About(s2c[i], u) /\ Carried(s2c[i]) = Of(docs[u])
          /\ \A j \in 1..Len(s2c) : j > i => ~About(s2c[j], u)
    BY <1>3 DEF InFlight
  <2>2. CASE i = 1
    <3>1. shown'[u] = Of(docs'[u])
      BY <1>1, <2>1, <2>2
    <3>2. \A j \in 1..Len(s2c') : ~About(s2c'[j], u)
      BY <1>1, <1>2, <2>1, <2>2
    <3> QED BY <3>1, <3>2 DEF Arrived
  <2>3. CASE i # 1
    <3>1. i - 1 \in 1..Len(s2c') /\ (i - 1) + 1 = i
      BY <1>1, <2>3
    <3>2. About(s2c'[i - 1], u) /\ Carried(s2c'[i - 1]) = Of(docs'[u])
      BY <1>1, <2>1, <3>1
    <3>3. \A j \in 1..Len(s2c') : j > i - 1 => ~About(s2c'[j], u)
      <4>1. \A j \in 1..Len(s2c') : j > i - 1 => j + 1 > i
        BY <1>1
      <4> QED BY <1>1, <1>2, <2>1, <4>1
    <3> QED BY <3>1, <3>2, <3>3 DEF InFlight
  <2> QED BY <2>2, <2>3
<1>4. CASE Arrived(u)
  <2>1. ~About(Head(s2c), u)
    <3>1. 1 \in 1..Len(s2c)
      BY <1>1
    <3> QED BY <1>1, <1>4, <3>1 DEF Arrived
  <2>2. shown'[u] = Of(docs'[u])
    BY <1>4, <2>1 DEF Arrived
  <2>3. \A j \in 1..Len(s2c') : ~About(s2c'[j], u)
    BY <1>1, <1>2, <1>4 DEF Arrived
  <2> QED BY <2>2, <2>3 DEF Arrived
<1> QED BY <1>3, <1>4 DEF DiagInv

\* The server publishes the document it just stored.
LEMMA Publishing ==
    ASSUME DiagInv, NEW uri, NEW doc, NEW m,
           docs' = [docs EXCEPT ![uri] = doc], s2c' = s2c \o <<m>>, shown' = shown,
           m.kind = "diagnostics", m.uri = uri, uri \in Uri => Carried(m) = Of(doc) /\ "open" \in DOMAIN doc
    PROVE  DiagInv'
<1>1. IsSeq(s2c')
  <2>1. IsSeq(s2c)
    BY DEF DiagInv
  <2>2. s2c' = Append(s2c, m)
    BY <2>1, SendIsAppend
  <2>3. IsSeq(Append(s2c, m))
    BY <2>1, AppendIsSeq
  <2> QED BY <2>2, <2>3
<1>2. DOMAIN docs' = Uri /\ DOMAIN shown' = Uri
  BY DEF DiagInv
<1>3. ASSUME NEW u \in Uri PROVE "open" \in DOMAIN docs'[u] /\ (InFlight(u)' \/ Arrived(u)')
  <2>1. CASE u = uri
    <3>1. docs'[u] = doc
      BY <2>1 DEF DiagInv
    <3> QED BY <2>1, <3>1, PutLast DEF About
  <2>2. CASE u # uri
    <3>1. docs'[u] = docs[u]
      BY <2>2 DEF DiagInv
    <3>2. "open" \in DOMAIN docs[u]
      BY DEF DiagInv
    <3> QED BY <2>2, <3>1, <3>2, PutLast DEF About
  <2> QED BY <2>1, <2>2
<1> QED BY <1>1, <1>2, <1>3 DEF DiagInv

LEMMA Responding ==
    ASSUME DiagInv, NEW m, docs' = docs, s2c' = s2c \o <<m>>, shown' = shown, m.kind # "diagnostics"
    PROVE  DiagInv'
<1>1. IsSeq(s2c')
  <2>1. IsSeq(s2c)
    BY DEF DiagInv
  <2>2. s2c' = Append(s2c, m)
    BY <2>1, SendIsAppend
  <2>3. IsSeq(Append(s2c, m))
    BY <2>1, AppendIsSeq
  <2> QED BY <2>2, <2>3
<1>2. ASSUME NEW u \in Uri PROVE InFlight(u)' \/ Arrived(u)'
  BY PutLast DEF About
<1> QED BY <1>1, <1>2 DEF DiagInv

LEMMA ChangePublishes ==
    ASSUME DiagInv, NEW msg, DidChange(msg), shown' = shown
    PROVE  DiagInv'
<1> DEFINE old == docs[msg.uri]
           text == applied(old.text, msg.changes)
           doc == [old EXCEPT !.text = text, !.version = msg.version]
           diags == Diagnose(doc.lang, doc.text)
           m == [kind |-> "diagnostics", uri |-> msg.uri, version |-> doc.version,
                 diags |-> [i \in 1..Len(diags) |-> byte_range(doc.text, diags[i].from, diags[i].to)]]
<1>1. CASE ~old.open
  <2>1. s2c' = s2c /\ docs' = docs
    BY <1>1, Zenon DEF DidChange, svars
  <2> QED BY <2>1 DEF DiagInv, InFlight, Arrived
<1>2. CASE old.open
  <2>1. docs' = [docs EXCEPT ![msg.uri] = doc] /\ Send(publish_diagnostics(msg.uri, doc))
    BY <1>2, Zenon DEF DidChange
  <2>2. s2c' = s2c \o <<m>>
    BY <2>1, Zenon DEF Send, publish_diagnostics, send_diagnostics
  <2>3. m.kind = "diagnostics" /\ m.uri = msg.uri
    OBVIOUS
  <2>4. ASSUME msg.uri \in Uri PROVE Carried(m) = Of(doc) /\ "open" \in DOMAIN doc
    <3>1. "open" \in DOMAIN old
      BY <2>4 DEF DiagInv
    <3> HIDE DEF old, text
    <3>2. "open" \in DOMAIN doc /\ doc.open = old.open
      BY <3>1
    <3> HIDE DEF doc
    <3>3. Of(doc) = [version |-> doc.version,
                     diags |-> [i \in 1..Len(diags) |-> byte_range(doc.text, diags[i].from, diags[i].to)]]
      BY <1>2, <3>2 DEF Of
    <3> QED BY <3>2, <3>3 DEF Carried
  <2> HIDE DEF m, doc
  <2> QED BY <2>1, <2>2, <2>3, <2>4, Publishing
<1> QED BY <1>1, <1>2

LEMMA OpenPublishes ==
    ASSUME DiagInv, NEW msg, DidOpen(msg), shown' = shown
    PROVE  DiagInv'
<1> DEFINE doc == [open |-> TRUE, lang |-> msg.lang, text |-> msg.text, version |-> msg.version]
           diags == Diagnose(doc.lang, doc.text)
           m == [kind |-> "diagnostics", uri |-> msg.uri, version |-> doc.version,
                 diags |-> [i \in 1..Len(diags) |-> byte_range(doc.text, diags[i].from, diags[i].to)]]
<1>1. docs' = [docs EXCEPT ![msg.uri] = doc] /\ Send(publish_diagnostics(msg.uri, doc))
  BY Zenon DEF DidOpen
<1>2. s2c' = s2c \o <<m>>
  BY <1>1, Zenon DEF Send, publish_diagnostics, send_diagnostics
<1>3. m.kind = "diagnostics" /\ m.uri = msg.uri /\ "open" \in DOMAIN doc /\ doc.open
  OBVIOUS
<1>4. Carried(m) = Of(doc)
  <2> HIDE DEF doc
  <2>1. Of(doc) = [version |-> doc.version,
                   diags |-> [i \in 1..Len(diags) |-> byte_range(doc.text, diags[i].from, diags[i].to)]]
    BY <1>3 DEF Of
  <2> QED BY <2>1 DEF Carried
<1> HIDE DEF m, doc
<1> QED BY <1>1, <1>2, <1>3, <1>4, Publishing

LEMMA ClosePublishes ==
    ASSUME DiagInv, NEW msg, DidClose(msg), shown' = shown
    PROVE  DiagInv'
<1> DEFINE m == [kind |-> "diagnostics", uri |-> msg.uri, version |-> 0, diags |-> <<>>]
<1>1. docs' = [docs EXCEPT ![msg.uri] = Closed] /\ s2c' = s2c \o <<m>>
  BY DEF DidClose, Send, send_diagnostics
<1>2. m.kind = "diagnostics" /\ m.uri = msg.uri
  OBVIOUS
<1>3. Carried(m) = Of(Closed) /\ "open" \in DOMAIN Closed
  BY DEF Carried, Of, Closed, NoDiagnostics
<1> HIDE DEF m
<1> QED BY <1>1, <1>2, <1>3, Publishing

\* No request changes a document.
LEMMA RequestReads == ASSUME NEW msg, handle_request(msg) \/ ShutDown(msg) PROVE docs' = docs
BY Zenon DEF handle_request, InvalidParams, SemanticTokensFull, SemanticTokensFullDelta, HandOut, Read, Formatting,
             CodeAction, ShutDown, svars

LEMMA DiagStep == ASSUME DiagInv, [Next]_vars PROVE DiagInv'
<1>1. CASE Serve
  <2>1. PICK msg : \/ DidOpen(msg) \/ DidChange(msg) \/ DidClose(msg)
                   \/ handle_request(msg) \/ ShutDown(msg)
    BY <1>1, Zenon DEF Serve
  <2>2. shown' = shown
    BY <1>1, Zenon DEF Serve, cvars
  <2>3. CASE handle_request(msg) \/ ShutDown(msg)
    <3>1. PICK x : s2c' = s2c \o <<x>> /\ x.kind \in Answers
      BY <2>3, RequestAnswered DEF AnswerTo
    <3>2. x.kind # "diagnostics"
      BY <3>1 DEF Answers
    <3> QED BY <2>2, <2>3, <3>1, <3>2, RequestReads, Responding
  <2> QED BY <2>1, <2>2, <2>3, OpenPublishes, ChangePublishes, ClosePublishes
<1>2. CASE Receive
  <2>1. PICK m : m = Head(s2c) /\ (ReceiveDiagnostics(m) \/ ReceiveResponse(m))
    BY <1>2, Zenon DEF Receive
  <2>2. s2c # <<>> /\ s2c' = Tail(s2c) /\ docs' = docs
    BY <1>2, Zenon DEF Receive, svars
  <2>3. \/ m.kind = "diagnostics" /\ shown' = [shown EXCEPT ![m.uri] = Carried(m)]
        \/ m.kind # "diagnostics" /\ shown' = shown
    BY <2>1, Zenon DEF ReceiveDiagnostics, ReceiveResponse, Carried
  <2>4. DOMAIN shown' = Uri
    BY <2>3 DEF DiagInv
  <2>5. ASSUME NEW u \in Uri PROVE InFlight(u)' \/ Arrived(u)'
    <3>1. IF About(m, u) THEN shown'[u] = Carried(m) ELSE shown'[u] = shown[u]
      BY <2>3 DEF About, DiagInv
    <3> QED BY <2>1, <2>2, <3>1, TakeFirst
  <2>6. IsSeq(s2c')
    BY <2>2, TailIsSeq DEF DiagInv
  <2> QED BY <2>2, <2>4, <2>5, <2>6 DEF DiagInv
<1>3. CASE \/ \E u \in Uri : OpenDocument(u) \/ CloseDocument(u) \/ ReplaceText(u) \/ Request(u)
           \/ Shutdown \/ UNCHANGED vars
  <2>1. s2c' = s2c /\ docs' = docs /\ shown' = shown
    BY <1>3, ZenonT(40) DEF OpenDocument, CloseDocument, ReplaceText, Request, Shutdown, Post, vars, svars, cvars
  <2> QED BY <2>1 DEF DiagInv, InFlight, Arrived
<1> QED BY <1>1, <1>2, <1>3 DEF Next

LEMMA DiagInit == Init => DiagInv
<1> SUFFICES ASSUME Init PROVE DiagInv
  OBVIOUS
<1>1. IsSeq(s2c) /\ 1..Len(s2c) = {}
  BY EmptyIds, EmptySeq DEF Init
<1>2. Of(Closed) = NoDiagnostics /\ "open" \in DOMAIN Closed
  BY DEF Of, Closed
<1> QED BY <1>1, <1>2 DEF Init, DiagInv, Arrived

LEMMA DiagAlways == Spec => []DiagInv
BY DiagInit, DiagStep, PTL DEF Spec

\* Once nothing is under way to the client, it shows the diagnostics of the
\* text and version the server has, and none for a closed document: every
\* notification that changes a document publishes after it changed it.
ShowsTheServers == s2c = <<>> => \A u \in Uri : shown[u] = Of(docs[u])
THEOREM PublishedLast == Spec => []ShowsTheServers
<1>1. DiagInv => ShowsTheServers
  <2> SUFFICES ASSUME DiagInv, s2c = <<>>, NEW u \in Uri PROVE shown[u] = Of(docs[u])
    BY DEF ShowsTheServers
  <2>1. 1..Len(s2c) = {}
    BY EmptySeq
  <2> QED BY <2>1 DEF DiagInv, InFlight, Arrived
<1> QED BY <1>1, DiagAlways, PTL

\* And where the two sides agree on the texts, they are the diagnostics of the
\* client's own.
THEOREM DiagnosticsFollow == Spec /\ []Synced => []DiagnosticsCurrent
<1>1. ShowsTheServers /\ Synced => DiagnosticsCurrent
  BY SMTT(40) DEF ShowsTheServers, Synced, DiagnosticsCurrent, Of
<1> QED BY <1>1, PublishedLast, PTL

-----------------------------------------------------------------------------
(* Counting.                                                               *)

\* The least-number principle, from the well-foundedness of < on Nat.
LEMMA LeastNumber ==
    ASSUME NEW T \in SUBSET Nat, T # {}
    PROVE  \E x \in T : \A y \in T : x <= y
<1> DEFINE R == OpToRel(<, Nat)
<1>1. PICK x \in T : \A y \in T : ~ (<<y, x>> \in R)
  BY NatLessThanWellFounded, WFMin
<1>2. ASSUME NEW y \in T PROVE x <= y
  <2>1. ~ (y < x)
    BY <1>1 DEF OpToRel
  <2> QED BY <2>1
<1> QED BY <1>2

\* Induction up to a bound, for a set of numbers.
LEMMA UpTo ==
    ASSUME NEW n \in Nat, NEW T, 0 \in T, \A i \in 0..(n - 1) : i \in T => i + 1 \in T
    PROVE  \A i \in 0..n : i \in T
<1> DEFINE U == {i \in 0..n : i \notin T}
<1> SUFFICES ASSUME U # {} PROVE FALSE
  OBVIOUS
<1>1. PICK x \in U : \A y \in U : x <= y
  <2>1. U \in SUBSET Nat
    OBVIOUS
  <2> QED BY <2>1, LeastNumber
<1>2. x \in 0..n /\ x \notin T /\ x # 0
  BY <1>1
<1>3. x - 1 \in 0..(n - 1) /\ x - 1 \in 0..n /\ (x - 1) + 1 = x /\ ~(x <= x - 1)
  BY <1>2
<1>4. x - 1 \in T
  BY <1>1, <1>3
<1> QED BY <1>2, <1>3, <1>4

\* How many members of S are at most k.
Count(S, k) == Cardinality({i \in S : i <= k})

LEMMA CountStep ==
    ASSUME NEW n \in Nat, NEW S, \A i \in S : i \in 1..n
    PROVE  /\ Count(S, 0) = 0 /\ Count(S, n) = Cardinality(S) /\ IsFiniteSet(S)
           /\ \A k \in Int : Count(S, k) \in Nat
           /\ \A k \in 0..(n - 1) : Count(S, k + 1) = IF k + 1 \in S THEN Count(S, k) + 1 ELSE Count(S, k)
<1>1. IsFiniteSet(S)
  <2>1. IsFiniteSet(1..n)
    BY FS_Interval
  <2>2. S \in SUBSET (1..n)
    OBVIOUS
  <2> HIDE DEF Count
  <2> QED BY <2>1, <2>2, FS_Subset
<1>2. {i \in S : i <= 0} = {} /\ {i \in S : i <= n} = S
  OBVIOUS
<1>3. ASSUME NEW k \in Int PROVE Count(S, k) \in Nat
  <2>1. {i \in S : i <= k} \in SUBSET S
    OBVIOUS
  <2> QED BY <1>1, <2>1, FS_Subset, FS_CardinalityType DEF Count
<1>4. ASSUME NEW k \in 0..(n - 1)
      PROVE  Count(S, k + 1) = IF k + 1 \in S THEN Count(S, k) + 1 ELSE Count(S, k)
  <2> DEFINE T == {i \in S : i <= k}
  <2>1. IsFiniteSet(T)
    <3>1. T \in SUBSET S
      OBVIOUS
    <3> QED BY <1>1, <3>1, FS_Subset
  <2>2. {i \in S : i <= k + 1} = IF k + 1 \in S THEN T \cup {k + 1} ELSE T
    OBVIOUS
  <2>3. k + 1 \notin T
    OBVIOUS
  <2> HIDE DEF T
  <2>4. Cardinality(T \cup {k + 1}) = Cardinality(T) + 1
    BY <2>1, <2>3, FS_AddElement
  <2>5. Count(S, k) = Cardinality(T)
    BY DEF Count, T
  <2> QED BY <2>2, <2>4, <2>5 DEF Count
<1> QED BY <1>1, <1>2, <1>3, <1>4, FS_EmptySet DEF Count

LEMMA CountMono ==
    ASSUME NEW n \in Nat, NEW S, \A i \in S : i \in 1..n
    PROVE  \A j, k \in 0..n : j <= k => Count(S, j) <= Count(S, k)
<1> SUFFICES ASSUME NEW j \in 0..n PROVE \A k \in 0..n : j <= k => Count(S, j) <= Count(S, k)
  OBVIOUS
<1> DEFINE T == {k \in 0..n : j <= k => Count(S, j) <= Count(S, k)}
<1>1. \A k \in Int : Count(S, k) \in Nat
  BY CountStep
<1>2. 0 \in T
  BY <1>1
<1>3. ASSUME NEW k \in 0..(n - 1), k \in T PROVE k + 1 \in T
  <2>1. Count(S, k + 1) = Count(S, k) \/ Count(S, k + 1) = Count(S, k) + 1
    BY CountStep
  <2>2. Count(S, k) \in Nat /\ Count(S, j) \in Nat
    BY <1>1
  <2>3. CASE j <= k
    BY <1>3, <2>1, <2>2, <2>3
  <2>4. CASE ~(j <= k)
    <3>1. j <= k + 1 => j = k + 1
      BY <2>4
    <3> QED BY <2>2, <3>1
  <2> QED BY <2>3, <2>4
<1>4. \A k \in 0..n : k \in T
  <2> HIDE DEF T
  <2> QED BY <1>2, <1>3, UpTo
<1> QED BY <1>4

\* A member counts itself.
LEMMA CountStrict ==
    ASSUME NEW n \in Nat, NEW S, \A i \in S : i \in 1..n
    PROVE  /\ \A j \in 0..n : \A k \in S : j < k => Count(S, j) < Count(S, k)
           /\ \A j, k \in S : Count(S, j) = Count(S, k) => j = k
<1>1. ASSUME NEW j \in 0..n, NEW k \in S, j < k PROVE Count(S, j) < Count(S, k)
  <2>1. k - 1 \in 0..(n - 1) /\ k - 1 \in 0..n /\ (k - 1) + 1 = k /\ j <= k - 1
    BY <1>1
  <2>2. Count(S, k) = Count(S, k - 1) + 1
    BY <2>1, CountStep
  <2>3. Count(S, j) <= Count(S, k - 1)
    BY <2>1, CountMono
  <2>4. Count(S, j) \in Nat /\ Count(S, k - 1) \in Nat
    BY <2>1, CountStep, SMTT(40)
  <2> QED BY <2>2, <2>3, <2>4
<1>2. ASSUME NEW j \in S, NEW k \in S, Count(S, j) = Count(S, k) PROVE j = k
  <2>1. Count(S, j) \in Nat /\ Count(S, k) \in Nat /\ j \in 0..n /\ k \in 0..n
    BY CountStep, SMTT(40)
  <2> QED BY <1>1, <1>2, <2>1
<1> QED BY <1>1, <1>2

\* Every number up to the cardinality is counted to by a member.
LEMMA CountAttained ==
    ASSUME NEW n \in Nat, NEW S, \A i \in S : i \in 1..n, NEW k \in 0..n, NEW v \in 1..Count(S, k)
    PROVE  \E i \in S : i <= k /\ Count(S, i) = v
<1> DEFINE T == {i \in 0..k : Count(S, i) >= v}
<1>1. T \in SUBSET Nat /\ k \in T
  BY CountStep
<1>2. PICK i \in T : \A j \in T : i <= j
  BY <1>1, LeastNumber
<1>3. Count(S, 0) = 0 /\ \A j \in Int : Count(S, j) \in Nat
  BY CountStep
<1>4. i # 0
  BY <1>2, <1>3
<1>5. i - 1 \in 0..k /\ i - 1 \in 0..(n - 1) /\ (i - 1) + 1 = i /\ ~(i <= i - 1)
  BY <1>2, <1>4
<1>6. ~(Count(S, i - 1) >= v)
  BY <1>2, <1>5
<1>7. Count(S, i) = IF i \in S THEN Count(S, i - 1) + 1 ELSE Count(S, i - 1)
  BY <1>5, CountStep
<1>8. Count(S, i) >= v /\ Count(S, i) \in Nat /\ Count(S, i - 1) \in Nat
  BY <1>2, <1>3
<1> QED BY <1>2, <1>6, <1>7, <1>8

\* The members in their order, each once.
LEMMA AscendingIs ==
    ASSUME NEW n \in Nat, NEW S, \A i \in S : i \in 1..n
    PROVE  /\ IsSeq(Ascending(S)) /\ Len(Ascending(S)) = Cardinality(S) /\ Cardinality(S) \in Nat
           /\ \A k \in 1..Cardinality(S) : Ascending(S)[k] \in S /\ Count(S, Ascending(S)[k]) = k
           /\ \A i, j \in 1..Cardinality(S) : i < j => Ascending(S)[i] < Ascending(S)[j]
<1> DEFINE c == Cardinality(S)
           at(k) == CHOOSE x \in S : Cardinality({y \in S : y < x}) = k - 1
<1>1. c \in Nat /\ c = Count(S, n) /\ \A k \in Int : Count(S, k) \in Nat
  BY CountStep
<1>2. Ascending(S) = [k \in 1..c |-> at(k)]
  BY DEF Ascending
<1>3. ASSUME NEW k \in 1..c PROVE at(k) \in S /\ Count(S, at(k)) = k
  <2>1. PICK i \in S : Count(S, i) = k
    BY <1>1, CountAttained
  <2>2. ASSUME NEW x \in S
        PROVE  Cardinality({y \in S : y < x}) = Count(S, x - 1) /\ Count(S, x) = Count(S, x - 1) + 1 /\ Count(S, x - 1) \in Nat
    <3>1. x - 1 \in 0..(n - 1) /\ (x - 1) + 1 = x
      OBVIOUS
    <3>2. {y \in S : y < x} = {y \in S : y <= x - 1}
      OBVIOUS
    <3>3. Cardinality({y \in S : y < x}) = Count(S, x - 1)
      BY <3>2, Zenon DEF Count
    <3> QED BY <3>1, <3>3, CountStep
  <2>3. Cardinality({y \in S : y < i}) = k - 1
    BY <2>1, <2>2
  <2>4. at(k) \in S /\ Cardinality({y \in S : y < at(k)}) = k - 1
    BY <2>3
  <2> HIDE DEF at
  <2> QED BY <2>2, <2>4
<1> HIDE DEF c, at
<1>4. \A k \in 1..c : Ascending(S)[k] = at(k)
  BY <1>2
<1>5. Ascending(S) \in [1..c -> S]
  BY <1>2, <1>3
<1>6. Ascending(S) \in Seq(S)
  BY <1>1, <1>5, SeqDef
<1>7. Len(Ascending(S)) = c
  BY <1>1, <1>5, <1>6, LenProperties
<1>8. IsSeq(Ascending(S))
  BY <1>6, SeqIsSeq
<1>9. ASSUME NEW i \in 1..c, NEW j \in 1..c, i < j PROVE Ascending(S)[i] < Ascending(S)[j]
  <2>1. at(i) \in S /\ at(j) \in S /\ Count(S, at(i)) = i /\ Count(S, at(j)) = j
    BY <1>3
  <2>2. at(j) <= at(i) => Count(S, at(j)) <= Count(S, at(i))
    BY <2>1, CountMono
  <2> QED BY <1>1, <1>4, <1>9, <2>1, <2>2
<1> QED BY <1>1, <1>3, <1>4, <1>7, <1>8, <1>9 DEF c

-----------------------------------------------------------------------------
(* Pieces of sequences.                                                    *)

LEMMA SubSeqIs ==
    ASSUME NEW t, IsSeq(t), NEW a \in 0..Len(t), NEW b \in a..Len(t)
    PROVE  /\ IsSeq(SubSeq(t, a + 1, b)) /\ Len(SubSeq(t, a + 1, b)) = b - a
           /\ \A i \in 1..(b - a) : SubSeq(t, a + 1, b)[i] = t[a + i]
<1> DEFINE S == {t[i] : i \in 1..Len(t)}
<1>1. Len(t) \in Nat /\ a + 1 \in Int /\ b \in Int /\ \A i \in (a + 1)..b : t[i] \in S
  BY SMTT(40) DEF IsSeq
<1> HIDE DEF S
<1>2. /\ SubSeq(t, a + 1, b) \in Seq(S)
      /\ Len(SubSeq(t, a + 1, b)) = IF a + 1 <= b THEN b - (a + 1) + 1 ELSE 0
      /\ \A i \in 1..(b - (a + 1) + 1) : SubSeq(t, a + 1, b)[i] = t[(a + 1) + i - 1]
  BY <1>1, SubSeqProperties
<1>3. IsSeq(SubSeq(t, a + 1, b))
  BY <1>2, SeqIsSeq
<1>4. b - (a + 1) + 1 = b - a /\ \A i \in 1..(b - a) : (a + 1) + i - 1 = a + i
  BY <1>1
<1> QED BY <1>1, <1>2, <1>3, <1>4

LEMMA ConcatIs ==
    ASSUME NEW p, IsSeq(p), NEW q, IsSeq(q)
    PROVE  /\ IsSeq(p \o q) /\ Len(p \o q) = Len(p) + Len(q) /\ Len(p) \in Nat /\ Len(q) \in Nat
           /\ \A i \in 1..Len(p) : (p \o q)[i] = p[i]
           /\ \A i \in 1..Len(q) : (p \o q)[Len(p) + i] = q[i]
           /\ \A i \in 1..(Len(p) + Len(q)) : (p \o q)[i] = IF i <= Len(p) THEN p[i] ELSE q[i - Len(p)]
<1> DEFINE S == {p[i] : i \in 1..Len(p)} \cup {q[i] : i \in 1..Len(q)}
<1>1. p \in Seq(S) /\ q \in Seq(S) /\ Len(p) \in Nat /\ Len(q) \in Nat
  BY SeqMonotonic DEF IsSeq
<1> HIDE DEF S
<1>2. /\ p \o q \in Seq(S) /\ Len(p \o q) = Len(p) + Len(q)
      /\ \A i \in 1..(Len(p) + Len(q)) : (p \o q)[i] = IF i <= Len(p) THEN p[i] ELSE q[i - Len(p)]
  BY <1>1, ConcatProperties
<1>3. \A i \in 1..Len(q) : Len(p) + i \in 1..(Len(p) + Len(q)) /\ ~(Len(p) + i <= Len(p)) /\ (Len(p) + i) - Len(p) = i
  BY <1>1
<1>4. IsSeq(p \o q)
  BY <1>2, SeqIsSeq
<1> QED BY <1>1, <1>2, <1>3, <1>4

LEMMA SeqSame ==
    ASSUME NEW p, IsSeq(p), NEW q, IsSeq(q), Len(p) = Len(q), \A i \in 1..Len(p) : p[i] = q[i]
    PROVE  p = q
<1> DEFINE S == {p[i] : i \in 1..Len(p)} \cup {q[i] : i \in 1..Len(q)}
<1>1. p \in Seq(S) /\ q \in Seq(S)
  BY SeqMonotonic DEF IsSeq
<1> HIDE DEF S
<1> QED BY <1>1, SeqEqual

LEMMA FunctionIsSeq ==
    ASSUME NEW n \in Nat, NEW s, s = [i \in 1..n |-> s[i]]
    PROVE  IsSeq(s) /\ Len(s) = n
<1> DEFINE S == {s[i] : i \in 1..n}
<1>1. s \in [1..n -> S]
  OBVIOUS
<1>2. s \in Seq(S)
  BY <1>1, SeqDef
<1>3. Len(s) = n
  BY <1>1, <1>2, LenProperties
<1> HIDE DEF S
<1> QED BY <1>2, <1>3, SeqIsSeq

-----------------------------------------------------------------------------
(* UTF-16 units.                                                           *)

Units(t, a, b) == utf16_len(SubSeq(t, a + 1, b))

LEMMA UnitsStep ==
    ASSUME NEW t, IsSeq(t), NEW a \in 0..Len(t)
    PROVE  /\ Units(t, a, a) = 0
           /\ \A b \in a..Len(t) : Units(t, a, b) \in Nat
           /\ \A b \in a..(Len(t) - 1) : Units(t, a, b + 1) = Units(t, a, b) + (IF t[b + 1] = Astral THEN 2 ELSE 1)
<1> DEFINE s(b) == SubSeq(t, a + 1, b)
           A(b) == {i \in 1..(b - a) : s(b)[i] = Astral}
<1>1. Len(t) \in Nat
  BY DEF IsSeq
<1>2. ASSUME NEW b \in a..Len(t)
      PROVE  /\ Units(t, a, b) = (b - a) + Cardinality(A(b)) /\ IsFiniteSet(A(b)) /\ Cardinality(A(b)) \in Nat
             /\ \A i \in 1..(b - a) : s(b)[i] = t[a + i]
  <2>1. Len(s(b)) = b - a /\ \A i \in 1..(b - a) : s(b)[i] = t[a + i]
    BY SubSeqIs
  <2>2. Units(t, a, b) = (b - a) + Cardinality(A(b))
    BY <2>1 DEF Units, utf16_len
  <2>3. IsFiniteSet(A(b))
    <3>1. IsFiniteSet(1..(b - a))
      BY <1>1, FS_Interval
    <3>2. A(b) \in SUBSET (1..(b - a))
      OBVIOUS
    <3> QED BY <3>1, <3>2, FS_Subset
  <2> HIDE DEF A, s
  <2> QED BY <2>1, <2>2, <2>3, FS_CardinalityType
<1>3. ASSUME NEW b \in a..(Len(t) - 1)
      PROVE  Units(t, a, b + 1) = Units(t, a, b) + (IF t[b + 1] = Astral THEN 2 ELSE 1)
  <2>1. b \in a..Len(t) /\ b + 1 \in a..Len(t) /\ (b + 1) - a \in 1..((b + 1) - a) /\ a + ((b + 1) - a) = b + 1
    BY <1>1
  <2>2. PICK n \in Nat : n = b - a /\ (b + 1) - a = n + 1
    BY <1>1
  <2>3. A(b + 1) = IF t[b + 1] = Astral THEN A(b) \cup {n + 1} ELSE A(b)
    <3>1. \A i \in 1..n : s(b)[i] = t[a + i]
      BY <1>2, <2>1, <2>2
    <3>2. \A i \in 1..(n + 1) : s(b + 1)[i] = t[a + i]
      BY <1>2, <2>1, <2>2
    <3>3. A(b) = {i \in 1..n : s(b)[i] = Astral} /\ A(b + 1) = {i \in 1..(n + 1) : s(b + 1)[i] = Astral}
      BY <2>2
    <3>4. s(b + 1)[n + 1] = t[b + 1]
      BY <2>1, <2>2, <3>2
    <3> HIDE DEF A, s
    <3>5. A(b) = {i \in 1..n : t[a + i] = Astral}
      BY <3>1, <3>3
    <3>6. A(b + 1) = {i \in 1..(n + 1) : t[a + i] = Astral}
      BY <3>2, <3>3
    <3>7. t[a + (n + 1)] = t[b + 1]
      BY <2>1, <2>2
    <3>8. \A i : i \in 1..(n + 1) <=> i \in 1..n \/ i = n + 1
      OBVIOUS
    <3>9. \A i : i \in A(b + 1) <=> i \in A(b) \/ (i = n + 1 /\ t[b + 1] = Astral)
      BY <3>5, <3>6, <3>7, <3>8
    <3> QED BY <3>9
  <2>4. n + 1 \notin A(b)
    BY <2>2
  <2> HIDE DEF A, s
  <2>5. Cardinality(A(b) \cup {n + 1}) = Cardinality(A(b)) + 1
    BY <1>2, <2>1, <2>4, FS_AddElement
  <2>6. Units(t, a, b + 1) = (n + 1) + Cardinality(A(b + 1)) /\ Units(t, a, b) = n + Cardinality(A(b)) /\ Cardinality(A(b)) \in Nat
    BY <1>2, <2>1, <2>2
  <2>7. Cardinality(A(b + 1)) = Cardinality(A(b)) + (IF t[b + 1] = Astral THEN 1 ELSE 0)
    <3> HIDE DEF Units
    <3> QED BY <2>3, <2>5, <2>6
  <2>8. PICK c \in Nat : c = Cardinality(A(b))
    BY <2>6
  <2> QED BY <2>6, <2>7, <2>8, SMTT(40)
<1>4. Units(t, a, a) = 0
  <2>1. a \in a..Len(t) /\ a - a = 0 /\ 1..0 = {}
    BY <1>1
  <2>2. A(a) = {}
    BY <2>1
  <2> HIDE DEF A, s
  <2> QED BY <1>2, <2>1, <2>2, FS_EmptySet
<1>5. \A b \in a..Len(t) : Units(t, a, b) \in Nat
  <2> HIDE DEF A, s
  <2> SUFFICES ASSUME NEW b \in a..Len(t) PROVE Units(t, a, b) \in Nat
    OBVIOUS
  <2>1. Units(t, a, b) = (b - a) + Cardinality(A(b)) /\ Cardinality(A(b)) \in Nat /\ b - a \in Nat
    BY <1>1, <1>2
  <2> QED BY <2>1
<1> QED BY <1>3, <1>4, <1>5

\* The units up to an offset grow with it, and those of a piece are the
\* difference.
LEMMA UnitsGrow ==
    ASSUME NEW t, IsSeq(t)
    PROVE  /\ \A a \in 0..Len(t) : Units(t, 0, a) \in Nat
           /\ \A a, b \in 0..Len(t) : a < b => Units(t, 0, a) < Units(t, 0, b)
           /\ \A a, b \in 0..Len(t) : a <= b => Units(t, a, b) = Units(t, 0, b) - Units(t, 0, a)
<1>1. Len(t) \in Nat /\ 0 \in 0..Len(t)
  BY DEF IsSeq
<1>2. \A a \in 0..Len(t) : Units(t, 0, a) \in Nat
  BY <1>1, UnitsStep
<1>3. ASSUME NEW a \in 0..Len(t)
      PROVE  \A b \in 0..Len(t) :
                 a <= b => /\ Units(t, a, b) = Units(t, 0, b) - Units(t, 0, a)
                           /\ a < b => Units(t, 0, a) < Units(t, 0, b)
  <2> DEFINE T == {b \in 0..Len(t) : a <= b => /\ Units(t, a, b) = Units(t, 0, b) - Units(t, 0, a)
                                               /\ a < b => Units(t, 0, a) < Units(t, 0, b)}
  <2>1. a = 0 => 0 \in T
    BY <1>1, UnitsStep
  <2>2. 0 \in T
    BY <1>1, <2>1
  <2>3. ASSUME NEW b \in 0..(Len(t) - 1), b \in T PROVE b + 1 \in T
    <3>1. b \in 0..Len(t) /\ b + 1 \in 0..Len(t)
      BY <1>1
    <3>2. CASE a <= b
      <4>1. b \in a..(Len(t) - 1) /\ b \in a..Len(t)
        BY <1>1, <3>2
      <4>2. PICK w \in {1, 2} : w = IF t[b + 1] = Astral THEN 2 ELSE 1
        OBVIOUS
      <4>3. Units(t, a, b + 1) = Units(t, a, b) + w
        BY <4>1, <4>2, UnitsStep
      <4>4. Units(t, 0, b + 1) = Units(t, 0, b) + w
        BY <1>1, <4>2, UnitsStep
      <4>5. Units(t, a, b) \in Nat /\ Units(t, 0, b) \in Nat /\ Units(t, 0, a) \in Nat
        BY <1>2, <3>1, <4>1, UnitsStep
      <4>6. Units(t, a, b) = Units(t, 0, b) - Units(t, 0, a)
        BY <2>3, <3>2
      <4> QED BY <3>1, <4>3, <4>4, <4>5, <4>6, SMTT(40)
    <3>3. CASE b + 1 = a
      <4>1. Units(t, a, a) = 0 /\ Units(t, 0, a) \in Nat
        BY <1>2, UnitsStep
      <4> QED BY <3>1, <3>3, <4>1
    <3>4. CASE ~(a <= b) /\ b + 1 # a
      <4>1. ~(a <= b + 1)
        BY <1>1, <3>4
      <4> QED BY <3>1, <4>1
    <3> QED BY <3>2, <3>3, <3>4
  <2>4. \A b \in 0..Len(t) : b \in T
    <3> HIDE DEF T
    <3> QED BY <1>1, <2>2, <2>3, UpTo
  <2> QED BY <2>4
<1> QED BY <1>1, <1>2, <1>3

-----------------------------------------------------------------------------
(* Lines and positions.                                                    *)

Lines(t, k) == Count(Newlines(t), k)

LEMMA LinesStep ==
    ASSUME NEW t, IsSeq(t)
    PROVE  /\ Len(t) \in Nat /\ \A i \in Newlines(t) : i \in 1..Len(t)
           /\ Lines(t, 0) = 0 /\ Cardinality(Newlines(t)) \in Nat /\ Lines(t, Len(t)) = Cardinality(Newlines(t))
           /\ \A k \in 0..Len(t) : Lines(t, k) \in 0..Cardinality(Newlines(t))
           /\ \A j, k \in 0..Len(t) : j <= k => Lines(t, j) <= Lines(t, k)
           /\ \A j \in 0..Len(t) : \A k \in Newlines(t) : j < k => Lines(t, j) < Lines(t, k)
<1>1. Len(t) \in Nat /\ \A i \in Newlines(t) : i \in 1..Len(t)
  BY DEF IsSeq, Newlines
<1>2. /\ Lines(t, 0) = 0 /\ Lines(t, Len(t)) = Cardinality(Newlines(t))
      /\ \A k \in Int : Lines(t, k) \in Nat
  BY <1>1, CountStep DEF Lines
<1>3. \A j, k \in 0..Len(t) : j <= k => Lines(t, j) <= Lines(t, k)
  BY <1>1, CountMono DEF Lines
<1>4. \A j \in 0..Len(t) : \A k \in Newlines(t) : j < k => Lines(t, j) < Lines(t, k)
  BY <1>1, CountStrict DEF Lines
<1>5. ASSUME NEW k \in 0..Len(t) PROVE Lines(t, k) \in 0..Cardinality(Newlines(t))
  <2>1. Lines(t, k) <= Lines(t, Len(t)) /\ Lines(t, k) \in Nat /\ Lines(t, Len(t)) \in Nat
    BY <1>1, <1>2, <1>3
  <2> QED BY <1>2, <2>1
<1>6. Cardinality(Newlines(t)) \in Nat
  BY <1>1, <1>2
<1> QED BY <1>1, <1>2, <1>3, <1>4, <1>5, <1>6

\* A line starts behind the line end that opens it.
LEMMA LineStart ==
    ASSUME NEW t, IsSeq(t), NEW v \in 0..Cardinality(Newlines(t))
    PROVE  /\ line_to_char(t, v) \in 0..Len(t) /\ Lines(t, line_to_char(t, v)) = v
           /\ v # 0 => line_to_char(t, v) \in Newlines(t)
           /\ \A i \in Newlines(t) : Lines(t, i) = v => line_to_char(t, v) = i
           /\ \A k \in 0..Len(t) : v <= Lines(t, k) => line_to_char(t, v) <= k
<1> DEFINE N == Newlines(t)
           P(i) == i \in N /\ Cardinality({j \in N : j <= i}) = v
           s == line_to_char(t, v)
<1>1. Len(t) \in Nat /\ Cardinality(N) \in Nat /\ (\A i \in N : i \in 1..Len(t)) /\ Lines(t, 0) = 0
  BY LinesStep
<1>2. \A i \in N : P(i) <=> Lines(t, i) = v
  BY DEF Lines, Count
<1>3. \A i, j \in N : Lines(t, i) = Lines(t, j) => i = j
  BY <1>1, CountStrict DEF Lines
<1>4. \A i \in N : Lines(t, i) # 0
  <2> SUFFICES ASSUME NEW i \in N PROVE Lines(t, i) # 0
    OBVIOUS
  <2>1. 0 < i /\ 0 \in 0..Len(t)
    BY <1>1
  <2>2. Lines(t, 0) < Lines(t, i)
    BY <2>1, LinesStep
  <2> QED BY <1>1, <2>2
<1>5. s \in 0..Len(t) /\ Lines(t, s) = v /\ (v # 0 => s \in N)
  <2>1. CASE v = 0
    <3>1. s = 0
      BY <2>1 DEF line_to_char
    <3> QED BY <1>1, <2>1, <3>1
  <2>2. CASE v # 0
    <3>1. \E i \in N : Lines(t, i) = v
      <4>1. v \in 1..Count(N, Len(t)) /\ Len(t) \in 0..Len(t)
        BY <1>1, <2>2, LinesStep DEF Lines
      <4>2. \A i : Lines(t, i) = Count(N, i)
        BY DEF Lines
      <4> HIDE DEF N
      <4>3. \E i \in N : i <= Len(t) /\ Count(N, i) = v
        BY <1>1, <4>1, CountAttained
      <4> QED BY <4>2, <4>3
    <3>2. s = CHOOSE i \in N : Cardinality({j \in N : j <= i}) = v
      BY <2>2 DEF line_to_char
    <3>3. \E i : P(i)
      BY <1>2, <3>1
    <3>4. s = CHOOSE i : P(i)
      BY <3>2
    <3>5. P(s)
      <4> HIDE DEF P, s
      <4> QED BY <3>3, <3>4
    <3>6. s \in N /\ Lines(t, s) = v
      BY <1>2, <3>5
    <3> QED BY <1>1, <3>6
  <2> QED BY <2>1, <2>2
<1> HIDE DEF N, P, s
<1>6. \A i \in N : Lines(t, i) = v => s = i
  BY <1>3, <1>4, <1>5
<1>7. ASSUME NEW k \in 0..Len(t), v <= Lines(t, k) PROVE s <= k
  <2>1. CASE v = 0
    <3>1. s = 0
      BY <2>1 DEF s, line_to_char
    <3> QED BY <1>1, <3>1
  <2>2. CASE v # 0
    <3>1. k < s => Lines(t, k) < Lines(t, s)
      BY <1>5, <2>2, LinesStep DEF N
    <3>2. Lines(t, k) \in 0..Cardinality(N)
      BY LinesStep DEF N
    <3> QED BY <1>1, <1>5, <1>7, <3>1, <3>2
  <2> QED BY <2>1, <2>2
<1> QED BY <1>5, <1>6, <1>7 DEF N, s

\* What a position says.
LEMMA PositionIs ==
    ASSUME NEW t, IsSeq(t), NEW k \in 0..Len(t)
    PROVE  LET v == Lines(t, k)
               s == line_to_char(t, v)
           IN /\ v \in 0..Cardinality(Newlines(t)) /\ s \in 0..k /\ Lines(t, s) = v
              /\ position(t, k) = <<v, Units(t, s, k)>> /\ Units(t, s, k) = Units(t, 0, k) - Units(t, 0, s)
              /\ Units(t, s, k) \in Nat
<1> DEFINE v == Lines(t, k)
           s == line_to_char(t, v)
<1>1. Len(t) \in Nat /\ v \in 0..Cardinality(Newlines(t))
  BY LinesStep
<1>2. position(t, k) = <<v, Units(t, s, k)>>
  BY DEF position, Units, Lines, Count
<1>3. v <= v
  BY <1>1, LinesStep
<1> HIDE DEF v
<1>4. s \in 0..Len(t) /\ Lines(t, s) = v /\ s <= k
  BY <1>1, <1>3, LineStart DEF v
<1> HIDE DEF s
<1>5. s \in 0..k /\ k \in s..Len(t)
  BY <1>1, <1>4
<1>6. Units(t, s, k) = Units(t, 0, k) - Units(t, 0, s) /\ Units(t, s, k) \in Nat
  BY <1>1, <1>4, <1>5, UnitsGrow, UnitsStep
<1> QED BY <1>1, <1>2, <1>4, <1>5, <1>6 DEF v, s

\* Positions are in the order of their offsets, and no two offsets share one.
LEMMA PositionOrder ==
    ASSUME NEW t, IsSeq(t), NEW j \in 0..Len(t), NEW k \in 0..Len(t)
    PROVE  /\ Before(position(t, j), position(t, k)) <=> j <= k
           /\ position(t, j) = position(t, k) <=> j = k
<1>1. Len(t) \in Nat
  BY DEF IsSeq
<1>2. ASSUME NEW a \in 0..Len(t), NEW b \in 0..Len(t), a < b
      PROVE  Before(position(t, a), position(t, b)) /\ ~Before(position(t, b), position(t, a))
  <2> DEFINE u == Lines(t, a)
             v == Lines(t, b)
             r == line_to_char(t, u)
             s == line_to_char(t, v)
  <2>1. /\ position(t, a) = <<u, Units(t, r, a)>> /\ Units(t, r, a) = Units(t, 0, a) - Units(t, 0, r)
        /\ position(t, b) = <<v, Units(t, s, b)>> /\ Units(t, s, b) = Units(t, 0, b) - Units(t, 0, s)
        /\ r \in 0..a /\ s \in 0..b /\ u \in 0..Cardinality(Newlines(t)) /\ v \in 0..Cardinality(Newlines(t))
    BY PositionIs
  <2>2. u <= v /\ Cardinality(Newlines(t)) \in Nat
    BY <1>1, <1>2, LinesStep
  <2>3. u = v => r = s
    OBVIOUS
  <2> HIDE DEF u, v, r, s
  <2>4. r \in 0..Len(t) /\ s \in 0..Len(t)
    BY <1>1, <2>1
  <2>5. /\ Units(t, 0, a) \in Nat /\ Units(t, 0, b) \in Nat /\ Units(t, 0, r) \in Nat /\ Units(t, 0, s) \in Nat
        /\ Units(t, 0, a) < Units(t, 0, b)
    BY <1>2, <2>4, UnitsGrow
  <2>6. CASE u = v
    <3>1. Units(t, r, a) < Units(t, s, b) /\ Units(t, r, a) \in Int /\ Units(t, s, b) \in Int
      BY <2>1, <2>3, <2>5, <2>6, SMTT(40)
    <3>2. Before(<<u, Units(t, r, a)>>, <<v, Units(t, s, b)>>) /\ ~Before(<<v, Units(t, s, b)>>, <<u, Units(t, r, a)>>)
      BY <2>1, <2>2, <2>6, <3>1 DEF Before
    <3> QED BY <2>1, <3>2
  <2>7. CASE u # v
    <3>1. u < v
      BY <2>1, <2>2, <2>7
    <3>2. Before(<<u, Units(t, r, a)>>, <<v, Units(t, s, b)>>) /\ ~Before(<<v, Units(t, s, b)>>, <<u, Units(t, r, a)>>)
      BY <2>1, <2>2, <3>1 DEF Before
    <3> QED BY <2>1, <3>2
  <2> QED BY <2>6, <2>7
<1>3. ASSUME NEW a \in 0..Len(t) PROVE Before(position(t, a), position(t, a))
  <2> DEFINE v == Lines(t, a)
             c == Units(t, line_to_char(t, v), a)
  <2>1. position(t, a) = <<v, c>> /\ v \in Nat /\ c \in Nat
    BY PositionIs, LinesStep
  <2> HIDE DEF v, c
  <2>2. Before(<<v, c>>, <<v, c>>)
    BY <2>1 DEF Before
  <2> QED BY <2>1, <2>2
<1>4. Before(position(t, j), position(t, k)) <=> j <= k
  <2>1. CASE j < k
    BY <1>2, <2>1
  <2>2. CASE j = k
    BY <1>3, <2>2
  <2>3. CASE k < j
    BY <1>2, <2>3
  <2> QED BY <1>1, <2>1, <2>2, <2>3
<1>5. position(t, j) = position(t, k) => j = k
  <2>1. CASE j < k
    BY <1>2, <1>3, <2>1
  <2>2. CASE k < j
    BY <1>2, <1>3, <2>2
  <2> QED BY <1>1, <2>1, <2>2
<1> QED BY <1>4, <1>5

LEMMA OffsetOfPosition ==
    ASSUME NEW t, IsSeq(t), NEW k \in 0..Len(t)
    PROVE  Offset(t, position(t, k)) = k
<1> DEFINE P(j) == j \in 0..Len(t) /\ position(t, j) = position(t, k)
<1>1. P(k)
  OBVIOUS
<1>2. \A j : P(j) => j = k
  BY PositionOrder
<1>3. Offset(t, position(t, k)) = CHOOSE j : P(j)
  BY DEF Offset
<1> HIDE DEF P
<1> QED BY <1>1, <1>2, <1>3

-----------------------------------------------------------------------------
(* From a position back to its offset.                                     *)

LEMMA CharOfUnits ==
    ASSUME NEW t, IsSeq(t), NEW k \in 0..Len(t)
    PROVE  Char(t, Units(t, 0, k)) = k
<1> DEFINE u == Units(t, 0, k)
           P(j) == /\ j \in 0..Len(t) /\ utf16_len(SubSeq(t, 1, j)) <= u
                   /\ j < Len(t) => utf16_len(SubSeq(t, 1, j + 1)) > u
           Q(j) == j \in 0..Len(t) /\ Units(t, 0, j) <= u /\ (j < Len(t) => Units(t, 0, j + 1) > u)
<1>1. Len(t) \in Nat /\ 0 + 1 = 1
  BY DEF IsSeq
<1>2. \A j : utf16_len(SubSeq(t, 1, j)) = Units(t, 0, j)
  BY <1>1 DEF Units
<1>3. Char(t, u) = CHOOSE j : P(j)
  BY DEF Char
<1>4. \A j : P(j) <=> Q(j)
  BY <1>2
<1>5. Q(k)
  <2>1. u \in Nat
    BY UnitsGrow
  <2>2. ASSUME k < Len(t) PROVE Units(t, 0, k + 1) > u
    <3>1. k + 1 \in 0..Len(t) /\ k < k + 1
      BY <1>1, <2>2
    <3>2. u < Units(t, 0, k + 1) /\ Units(t, 0, k + 1) \in Nat
      BY <3>1, UnitsGrow
    <3> QED BY <2>1, <3>2
  <2> QED BY <2>1, <2>2
<1>6. ASSUME NEW j, Q(j) PROVE j = k
  <2>1. u \in Nat /\ Units(t, 0, j) \in Nat
    BY <1>6, UnitsGrow
  <2>2. CASE j < k
    <3>1. j + 1 \in 0..Len(t) /\ j < Len(t) /\ j + 1 <= k
      BY <1>1, <1>6, <2>2
    <3>2. Units(t, 0, j + 1) \in Nat /\ (j + 1 < k => Units(t, 0, j + 1) < u)
      BY <3>1, UnitsGrow
    <3> QED BY <1>1, <1>6, <2>1, <3>1, <3>2
  <2>3. CASE k < j
    <3>1. u < Units(t, 0, j)
      BY <1>6, <2>3, UnitsGrow
    <3> QED BY <1>6, <2>1, <3>1
  <2> QED BY <1>1, <1>6, <2>2, <2>3
<1>7. P(k) /\ \A j : P(j) => j = k
  BY <1>4, <1>5, <1>6
<1> HIDE DEF P
<1> QED BY <1>3, <1>7 DEF u

\* The end of an offset's line is not before it, unless it is between the CR
\* and the LF of the line's end; it is the offset where no character of the
\* line follows.
LEMMA LineEndIs ==
    ASSUME NEW t, IsSeq(t), NEW k \in 0..Len(t), k = 0 \/ t[k] # CR
    PROVE  /\ LineEnd(t, Lines(t, k)) \in k..Len(t)
           /\ Clean(t) /\ AtLineEnd(t, k) => LineEnd(t, Lines(t, k)) = k
<1> DEFINE N == Newlines(t)
           v == Lines(t, k)
           s == line_to_char(t, v)
           e == line_to_char(t, v + 1)
<1>1. Len(t) \in Nat /\ (\A i \in N : i \in 1..Len(t)) /\ Cardinality(N) \in Nat /\ v \in 0..Cardinality(N)
  BY LinesStep
<1>2. LF # CR /\ \A i : i \in N <=> i \in 1..Len(t) /\ t[i] = LF
  BY DEF Newlines, LF, CR
<1>3. len_lines(t) = Cardinality(N) + 1
  BY DEF len_lines
<1>4. CASE v + 1 = len_lines(t)
  <2>1. LineEnd(t, v) = Len(t)
    BY <1>4 DEF LineEnd
  <2>2. ASSUME Clean(t), AtLineEnd(t, k) PROVE k = Len(t)
    <3> SUFFICES ASSUME k # Len(t) PROVE FALSE
      OBVIOUS
    <3>1. k < Len(t) /\ t[k + 1] \in {CR, LF} /\ k + 1 \in 1..Len(t)
      BY <1>1, <2>2 DEF AtLineEnd
    <3>2. PICK i \in N : k < i
      <4>1. CASE t[k + 1] = LF
        BY <1>1, <1>2, <3>1, <4>1
      <4>2. CASE t[k + 1] = CR
        <5>1. k + 1 < Len(t) /\ t[(k + 1) + 1] = LF
          BY <2>2, <3>1, <4>2 DEF Clean
        <5>2. (k + 1) + 1 \in 1..Len(t) /\ k < (k + 1) + 1
          BY <1>1, <5>1
        <5> QED BY <1>2, <5>1, <5>2
      <4> QED BY <3>1, <4>1, <4>2
    <3>3. Lines(t, k) < Lines(t, i) /\ Lines(t, i) \in 0..Cardinality(N)
      BY <1>1, <3>2, LinesStep
    <3> QED BY <1>1, <1>3, <1>4, <3>3
  <2> QED BY <1>1, <2>1, <2>2
<1>5. CASE v + 1 # len_lines(t)
  <2>1. v + 1 \in 0..Cardinality(N) /\ v + 1 # 0
    BY <1>1, <1>3, <1>5
  <2>2. e \in N /\ Lines(t, e) = v + 1 /\ e \in 1..Len(t)
    <3> HIDE DEF v
    <3> QED BY <1>1, <2>1, LineStart DEF N
  <2>3. s \in 0..k /\ s \in Int /\ e \in Int
    BY <1>1, <2>2, PositionIs
  <2>4. k < e
    <3>1. e <= k => Lines(t, e) <= v
      BY <1>1, <2>2, LinesStep
    <3> QED BY <1>1, <2>2, <3>1
  <2>5. LineEnd(t, v) = IF e - 1 > s /\ t[e - 1] = CR THEN (e - 1) - 1 ELSE e - 1
    BY <1>5 DEF LineEnd
  <2> HIDE DEF e, s, v
  <2>6. LineEnd(t, v) \in k..Len(t)
    <3>1. CASE e - 1 = k
      <4>1. ~(e - 1 > s /\ t[e - 1] = CR)
        BY <1>1, <2>3, <3>1
      <4> QED BY <1>1, <2>2, <2>4, <2>5, <3>1, <4>1
    <3>2. CASE e - 1 # k
      BY <1>1, <2>2, <2>4, <2>5, <3>2
    <3> QED BY <3>1, <3>2
  <2>7. ASSUME Clean(t), AtLineEnd(t, k) PROVE LineEnd(t, v) = k
    <3>1. k < Len(t) /\ t[k + 1] \in {CR, LF} /\ k + 1 \in 1..Len(t)
      BY <1>1, <2>2, <2>4, <2>7 DEF AtLineEnd
    <3>2. ASSUME NEW i \in N, k < i PROVE e <= i
      <4>1. v < Lines(t, i) /\ Lines(t, i) \in 0..Cardinality(N) /\ i \in 0..Len(t)
        BY <1>1, <3>2, LinesStep DEF v
      <4>2. v + 1 <= Lines(t, i)
        BY <1>1, <4>1
      <4> QED BY <2>1, <4>1, <4>2, LineStart DEF N, e
    <3>3. CASE t[k + 1] = LF
      <4>1. e = k + 1
        <5>1. k + 1 \in N /\ k < k + 1
          BY <1>1, <1>2, <3>1, <3>3
        <5> QED BY <1>1, <2>2, <2>4, <3>2, <5>1
      <4>2. ~(e - 1 > s /\ t[e - 1] = CR)
        BY <1>1, <2>3, <4>1
      <4> QED BY <1>1, <2>5, <4>1, <4>2
    <3>4. CASE t[k + 1] = CR
      <4>1. k + 1 < Len(t) /\ t[(k + 1) + 1] = LF
        BY <2>7, <3>1, <3>4 DEF Clean
      <4>2. e = k + 2
        <5>1. k + 2 \in N /\ k < k + 2
          BY <1>1, <1>2, <4>1
        <5>2. e # k + 1
          BY <1>2, <2>2, <3>4
        <5> QED BY <1>1, <2>2, <2>4, <3>2, <5>1, <5>2
      <4>3. e - 1 > s /\ e - 1 = k + 1 /\ (e - 1) - 1 = k
        BY <1>1, <2>3, <4>2
      <4> QED BY <2>5, <3>4, <4>3
    <3> QED BY <3>1, <3>3, <3>4
  <2> QED BY <2>6, <2>7 DEF v
<1> QED BY <1>4, <1>5

\* What the server makes of a position of its text, be the column exact or,
\* at a line's end, exaggerated.
LEMMA PositionReadBack ==
    ASSUME NEW t, IsSeq(t), NEW k \in 0..Len(t), k = 0 \/ t[k] # CR, NEW b \in Nat,
           b = 0 \/ (Clean(t) /\ AtLineEnd(t, k))
    PROVE  position_to_char(t, <<position(t, k)[1], position(t, k)[2] + b>>) = k
<1> DEFINE v == Lines(t, k)
           s == line_to_char(t, v)
           c == Units(t, s, k)
           u == Units(t, 0, k)
           target == Units(t, 0, s) + (c + b)
           last == Units(t, 0, LineEnd(t, v))
<1>1. Len(t) \in Nat /\ Cardinality(Newlines(t)) \in Nat /\ 0 + 1 = 1
  BY LinesStep
<1>2. /\ v \in 0..Cardinality(Newlines(t)) /\ s \in 0..k /\ position(t, k) = <<v, c>>
      /\ c = u - Units(t, 0, s) /\ c \in Nat
  BY PositionIs
<1>3. ~(v >= len_lines(t))
  BY <1>1, <1>2 DEF len_lines
<1>4. \A j : utf16_len(SubSeq(t, 1, j)) = Units(t, 0, j)
  BY <1>1 DEF Units
<1>5. position_to_char(t, <<v, c + b>>) = Char(t, IF target < last THEN target ELSE last)
  <2>1. <<v, c + b>>[1] = v /\ <<v, c + b>>[2] = c + b
    OBVIOUS
  <2> HIDE DEF v, c
  <2> QED BY <1>3, <1>4, <2>1 DEF position_to_char
<1>6. LineEnd(t, v) \in k..Len(t) /\ (b # 0 => LineEnd(t, v) = k)
  BY LineEndIs
<1> HIDE DEF v, c
<1>7. s \in 0..Len(t) /\ LineEnd(t, v) \in 0..Len(t)
  BY <1>1, <1>2, <1>6
<1>8. u \in Nat /\ Units(t, 0, s) \in Nat /\ last \in Nat
  BY <1>7, UnitsGrow
<1>9. target = u + b
  BY <1>2, <1>8, SMTT(40)
<1>10. u <= last
  <2>1. CASE LineEnd(t, v) = k
    BY <1>8, <2>1
  <2>2. CASE LineEnd(t, v) # k
    <3>1. k < LineEnd(t, v)
      BY <1>1, <1>6, <2>2
    <3>2. u < last
      BY <1>7, <3>1, UnitsGrow
    <3> QED BY <1>8, <3>2
  <2> QED BY <2>1, <2>2
<1>11. b # 0 => last = u
  BY <1>6
<1> HIDE DEF s, target, last, u
<1>12. (IF target < last THEN target ELSE last) = u
  BY <1>8, <1>9, <1>10, <1>11
<1>13. Char(t, u) = k
  BY CharOfUnits DEF u
<1>14. position(t, k)[1] = v /\ position(t, k)[2] = c
  BY <1>2
<1> QED BY <1>5, <1>12, <1>13, <1>14

\* Texts that agree up to an offset have the same position there.
LEMMA PositionAgrees ==
    ASSUME NEW t, IsSeq(t), NEW x, IsSeq(x), NEW k \in 0..Len(t), k <= Len(x), \A i \in 1..k : x[i] = t[i]
    PROVE  position(x, k) = position(t, k)
<1> DEFINE v == Lines(t, k)
           s == line_to_char(t, v)
<1>1. Len(t) \in Nat /\ Len(x) \in Nat /\ k \in 0..Len(x)
  BY DEF IsSeq
<1>2. ASSUME NEW j \in 0..k PROVE Lines(x, j) = Lines(t, j)
  <2>1. \A i : i \in Newlines(x) /\ i <= j <=> i \in Newlines(t) /\ i <= j
    <3>1. \A i : i \in 1..Len(x) /\ i <= j <=> i \in 1..Len(t) /\ i <= j
      BY <1>1
    <3>2. \A i : i \in 1..Len(t) /\ i <= j => i \in 1..k
      BY <1>1
    <3> QED BY <3>1, <3>2 DEF Newlines
  <2>2. {i \in Newlines(x) : i <= j} = {i \in Newlines(t) : i <= j}
    BY <2>1
  <2> QED BY <2>2 DEF Lines, Count
<1>3. /\ v \in 0..Cardinality(Newlines(t)) /\ s \in 0..k /\ Lines(t, s) = v
      /\ position(t, k) = <<v, Units(t, s, k)>>
  BY PositionIs
<1>4. /\ Lines(x, k) \in 0..Cardinality(Newlines(x))
      /\ position(x, k) = <<Lines(x, k), Units(x, line_to_char(x, Lines(x, k)), k)>>
  BY <1>1, PositionIs
<1>5. Lines(x, k) = v
  BY <1>1, <1>2
<1> HIDE DEF v
<1>6. line_to_char(x, v) = s
  <2>1. CASE v = 0
    BY <2>1 DEF line_to_char, s
  <2>2. CASE v # 0
    <3>1. s \in Newlines(t)
      BY <1>3, <2>2, LineStart DEF s
    <3>2. s \in Newlines(x)
      <4>1. s \in 1..k /\ s \in 1..Len(x)
        BY <1>1, <1>3, <3>1 DEF Newlines
      <4> QED BY <3>1, <4>1 DEF Newlines
    <3>3. Lines(x, s) = v
      BY <1>2, <1>3
    <3> QED BY <1>4, <1>5, <3>2, <3>3, LineStart
  <2> QED BY <2>1, <2>2
<1> HIDE DEF s
<1>7. SubSeq(x, s + 1, k) = SubSeq(t, s + 1, k)
  <2>1. s \in 0..Len(t) /\ k \in s..Len(t) /\ s \in 0..Len(x) /\ k \in s..Len(x) /\ \A i \in 1..(k - s) : s + i \in 1..k
    BY <1>1, <1>3
  <2>2. /\ IsSeq(SubSeq(t, s + 1, k)) /\ Len(SubSeq(t, s + 1, k)) = k - s
        /\ \A i \in 1..(k - s) : SubSeq(t, s + 1, k)[i] = t[s + i]
    BY <2>1, SubSeqIs
  <2>3. /\ IsSeq(SubSeq(x, s + 1, k)) /\ Len(SubSeq(x, s + 1, k)) = k - s
        /\ \A i \in 1..(k - s) : SubSeq(x, s + 1, k)[i] = x[s + i]
    BY <2>1, SubSeqIs
  <2>4. \A i \in 1..(k - s) : SubSeq(x, s + 1, k)[i] = SubSeq(t, s + 1, k)[i]
    BY <2>1, <2>2, <2>3
  <2> QED BY <2>2, <2>3, <2>4, SeqSame
<1>8. Units(x, s, k) = Units(t, s, k)
  BY <1>7, Zenon DEF Units
<1> QED BY <1>3, <1>4, <1>5, <1>6, <1>8

-----------------------------------------------------------------------------
(* Edits.                                                                  *)

\* The corner between a CR and its LF is no place for a caret.
NoCr(t, k) == k = 0 \/ t[k] # CR

LEMMA CaretIs ==
    ASSUME NEW t, Clean(t), NEW k \in Carets(t)
    PROVE  k \in 0..Len(t) /\ NoCr(t, k)
<1>1. k \in 0..Len(t) /\ ~(k > 0 /\ k < Len(t) /\ t[k] = CR /\ t[k + 1] = LF) /\ Len(t) \in Nat
  BY DEF Carets, Clean, IsSeq
<1>2. ASSUME k # 0, t[k] = CR PROVE FALSE
  <2>1. k \in 1..Len(t) /\ k > 0
    BY <1>1, <1>2
  <2>2. k < Len(t) /\ t[k + 1] = LF
    BY <1>2, <2>1 DEF Clean
  <2> QED BY <1>1, <1>2, <2>1, <2>2
<1> QED BY <1>1, <1>2 DEF NoCr

LEMMA PositionBack ==
    ASSUME NEW t, IsSeq(t), NEW k \in 0..Len(t), NoCr(t, k)
    PROVE  position_to_char(t, position(t, k)) = k
<1>1. PICK p : position(t, k) = p
  OBVIOUS
<1>2. PICK v \in Nat, c \in Nat : p = <<v, c>>
  <2>1. Lines(t, k) \in Nat
    BY LinesStep
  <2> QED BY <1>1, <2>1, PositionIs
<1>3. p[1] = v /\ p[2] + 0 = c
  BY <1>2
<1>4. k = 0 \/ t[k] # CR
  BY DEF NoCr
<1>5. position_to_char(t, <<position(t, k)[1], position(t, k)[2] + 0>>) = k
  BY <1>4, PositionReadBack
<1> QED BY <1>1, <1>2, <1>3, <1>5

\* y is t with its items from `from` to `to` replaced by text.
Spliced(y, t, from, to, text) ==
    /\ IsSeq(y) /\ Len(y) = from + Len(text) + (Len(t) - to) /\ Len(t) \in Nat /\ Len(text) \in Nat
    /\ \A i \in 1..from : y[i] = t[i]
    /\ \A i \in 1..Len(text) : y[from + i] = text[i]
    /\ \A i \in 1..(Len(t) - to) : y[from + Len(text) + i] = t[to + i]
LEMMA SpliceIs ==
    ASSUME NEW t, IsSeq(t), NEW from \in 0..Len(t), NEW to \in from..Len(t), NEW text, IsSeq(text)
    PROVE  Spliced(Splice(t, from, to, text), t, from, to, text)
<1> DEFINE p == SubSeq(t, 1, from)
           q == SubSeq(t, to + 1, Len(t))
           y == Splice(t, from, to, text)
<1>1. Len(t) \in Nat /\ Len(text) \in Nat /\ 0 + 1 = 1 /\ 0 \in 0..Len(t) /\ from \in 0..Len(t) /\ to \in 0..Len(t) /\ Len(t) \in to..Len(t)
  BY DEF IsSeq
<1>2. IsSeq(p) /\ Len(p) = from /\ \A i \in 1..from : p[i] = t[i]
  <2>1. /\ IsSeq(SubSeq(t, 0 + 1, from)) /\ Len(SubSeq(t, 0 + 1, from)) = from - 0
        /\ \A i \in 1..(from - 0) : SubSeq(t, 0 + 1, from)[i] = t[0 + i]
    BY <1>1, SubSeqIs
  <2> QED BY <1>1, <2>1
<1>3. IsSeq(q) /\ Len(q) = Len(t) - to /\ \A i \in 1..(Len(t) - to) : q[i] = t[to + i]
  BY <1>1, SubSeqIs
<1>4. y = (p \o text) \o q
  BY DEF Splice
<1> HIDE DEF p, q, y
<1>5. /\ IsSeq(p \o text) /\ Len(p \o text) = from + Len(text)
      /\ \A i \in 1..from : (p \o text)[i] = p[i]
      /\ \A i \in 1..Len(text) : (p \o text)[from + i] = text[i]
  <2>0. IsSeq(p)
    BY <1>2
  <2>1. IsSeq(p \o text) /\ Len(p \o text) = Len(p) + Len(text) /\ \A i \in 1..Len(p) : (p \o text)[i] = p[i]
    BY <2>0, ConcatIs
  <2>2. \A i \in 1..Len(text) : (p \o text)[Len(p) + i] = text[i]
    BY <2>0, ConcatIs
  <2> QED BY <1>2, <2>1, <2>2
<1>6. /\ IsSeq(y) /\ Len(y) = (from + Len(text)) + (Len(t) - to)
      /\ \A i \in 1..(from + Len(text)) : y[i] = (p \o text)[i]
      /\ \A i \in 1..(Len(t) - to) : y[(from + Len(text)) + i] = q[i]
  <2>1. PICK w : w = p \o text
    OBVIOUS
  <2>0. IsSeq(w) /\ IsSeq(q)
    BY <1>3, <1>5, <2>1
  <2>2. IsSeq(w \o q) /\ Len(w \o q) = Len(w) + Len(q) /\ \A i \in 1..Len(w) : (w \o q)[i] = w[i]
    BY <2>0, ConcatIs
  <2>3. \A i \in 1..Len(q) : (w \o q)[Len(w) + i] = q[i]
    BY <2>0, ConcatIs
  <2>4. Len(w) = from + Len(text) /\ Len(q) = Len(t) - to
    BY <1>3, <1>5, <2>1
  <2> QED BY <1>4, <2>1, <2>2, <2>3, <2>4
<1>7. \A i \in 1..from : i \in 1..(from + Len(text))
  BY <1>1
<1>8. \A i \in 1..Len(text) : from + i \in 1..(from + Len(text))
  BY <1>1
<1>9. \A i \in 1..from : y[i] = t[i]
  BY <1>2, <1>5, <1>6, <1>7
<1>10. \A i \in 1..Len(text) : y[from + i] = text[i]
  BY <1>5, <1>6, <1>8
<1>11. \A i \in 1..(Len(t) - to) : y[from + Len(text) + i] = t[to + i]
  BY <1>3, <1>6
<1> QED BY <1>1, <1>6, <1>9, <1>10, <1>11 DEF y, Spliced

LEMMA SpliceClean ==
    ASSUME NEW t, Clean(t), NEW from \in 0..Len(t), NEW to \in from..Len(t), NoCr(t, from), NEW text, Clean(text)
    PROVE  Clean(Splice(t, from, to, text))
<1> DEFINE y == Splice(t, from, to, text)
           m == Len(text)
           r == Len(t) - to
<1>1. /\ IsSeq(y) /\ Len(y) = from + m + r /\ Len(t) \in Nat /\ m \in Nat
      /\ \A i \in 1..from : y[i] = t[i]
      /\ \A i \in 1..m : y[from + i] = text[i]
      /\ \A i \in 1..r : y[from + m + i] = t[to + i]
  <2>1. IsSeq(t) /\ IsSeq(text)
    BY DEF Clean
  <2>2. Spliced(y, t, from, to, text)
    BY <2>1, SpliceIs
  <2> QED BY <2>2 DEF Spliced
<1>2. r \in Nat /\ from \in Nat /\ to \in Nat /\ Len(t) = to + r /\ from <= to
  BY <1>1
<1> HIDE DEF y
<1> SUFFICES ASSUME NEW i \in 1..Len(y), y[i] = CR PROVE i < Len(y) /\ y[i + 1] = LF
  BY <1>1 DEF Clean, y
<1>3. CASE i <= from
  <2>1. i \in 1..from /\ i \in 1..Len(t) /\ t[i] = CR
    BY <1>1, <1>2, <1>3
  <2>2. i # from
    BY <2>1 DEF NoCr
  <2>3. t[i + 1] = LF /\ i + 1 \in 1..from /\ i < Len(y)
    <3>1. t[i + 1] = LF
      BY <2>1 DEF Clean
    <3> HIDE DEF m, r
    <3> QED BY <1>1, <1>2, <2>1, <2>2, <3>1
  <2> QED BY <1>1, <2>3
<1>4. CASE from < i /\ i <= from + m
  <2>1. PICK j \in 1..m : i = from + j
    <3>1. i - from \in 1..m /\ i = from + (i - from)
      BY <1>1, <1>2, <1>4
    <3> QED BY <3>1
  <2>2. text[j] = CR
    BY <1>1, <2>1
  <2>3. j < m /\ text[j + 1] = LF
    BY <2>2 DEF Clean
  <2> HIDE DEF m, r
  <2>4. j + 1 \in 1..m /\ i + 1 = from + (j + 1) /\ i < Len(y)
    BY <1>1, <1>2, <2>1, <2>3
  <2> QED BY <1>1, <2>3, <2>4
<1>5. CASE from + m < i
  <2>1. PICK j \in 1..r : i = from + m + j
    <3> HIDE DEF m, r
    <3>1. i - (from + m) \in 1..r /\ i = from + m + (i - (from + m))
      BY <1>1, <1>2, <1>5
    <3> QED BY <3>1
  <2>2. to + j \in 1..Len(t) /\ t[to + j] = CR
    <3> HIDE DEF m, r
    <3> QED BY <1>1, <1>2, <2>1
  <2>3. to + j < Len(t) /\ t[(to + j) + 1] = LF
    BY <2>2 DEF Clean
  <2> HIDE DEF m, r
  <2>4. j + 1 \in 1..r /\ i + 1 = from + m + (j + 1) /\ i < Len(y) /\ (to + j) + 1 = to + (j + 1)
    BY <1>1, <1>2, <2>1, <2>3
  <2> QED BY <1>1, <2>3, <2>4, SMTT(40)
<1> QED BY <1>1, <1>2, <1>3, <1>4, <1>5

\* An edit of a text, between two carets.
Fits(t, e) ==
    /\ e.from \in 0..Len(t) /\ e.to \in e.from..Len(t)
    /\ NoCr(t, e.from) /\ NoCr(t, e.to) /\ Clean(e.text)

\* Two texts agree up to an offset.
Agrees(x, t, n) == n <= Len(x) /\ \A i \in 1..n : x[i] = t[i]

\* The change a notification carries for an edit.
Carries(t, e, c) == ~c.whole /\ c.start = position(t, e.from) /\ c.end = position(t, e.to) /\ c.text = e.text

\* The client's change of its own text and the server's of a text that agrees
\* with it up to the edit's end.
LEMMA ApplyMeets ==
    ASSUME NEW t, Clean(t), NEW e, Fits(t, e), NEW x, Clean(x), Agrees(x, t, e.to),
           NEW c, Carries(t, e, c)
    PROVE  /\ apply(x, c) = Splice(x, Offset(t, c.start), Offset(t, c.end), c.text)
           /\ Clean(apply(x, c)) /\ Agrees(apply(x, c), x, e.from)
<1>1. IsSeq(t) /\ IsSeq(x) /\ Len(t) \in Nat /\ Len(x) \in Nat
  BY DEF Clean, IsSeq
<1>2. PICK f, g : f = e.from /\ g = e.to
  OBVIOUS
<1>3. /\ f \in 0..Len(t) /\ g \in 0..Len(t) /\ f \in 0..Len(x) /\ g \in f..Len(x) /\ g \in 0..Len(x)
      /\ \A i \in 1..f : x[i] = t[i]
      /\ \A i \in 1..g : x[i] = t[i]
  BY <1>1, <1>2 DEF Fits, Agrees
<1>4. NoCr(x, f) /\ NoCr(x, g)
  <2>1. f # 0 => f \in 1..f
    BY <1>3
  <2>2. g # 0 => g \in 1..g
    BY <1>3
  <2> QED BY <1>2, <1>3, <2>1, <2>2 DEF NoCr, Fits
<1>5. position(x, f) = position(t, f) /\ position(x, g) = position(t, g)
  BY <1>1, <1>3, PositionAgrees
<1>6. position_to_char(x, c.start) = f /\ position_to_char(x, c.end) = g
  BY <1>1, <1>2, <1>3, <1>4, <1>5, PositionBack DEF Carries
<1>7. apply(x, c) = Splice(x, f, g, c.text)
  BY <1>3, <1>6 DEF apply, Carries
<1>8. Offset(t, c.start) = f /\ Offset(t, c.end) = g
  BY <1>1, <1>2, <1>3, OffsetOfPosition DEF Carries
<1>9. Clean(c.text) /\ IsSeq(c.text)
  BY DEF Fits, Clean, Carries
<1>10. Clean(Splice(x, f, g, c.text))
  BY <1>3, <1>4, <1>9, SpliceClean
<1>11. /\ Len(Splice(x, f, g, c.text)) = f + Len(c.text) + (Len(x) - g) /\ Len(c.text) \in Nat
       /\ \A i \in 1..f : Splice(x, f, g, c.text)[i] = x[i]
  <2>1. PICK w : w = c.text
    OBVIOUS
  <2>2. IsSeq(w)
    BY <1>9, <2>1
  <2>3. Spliced(Splice(x, f, g, w), x, f, g, w)
    BY <1>1, <1>3, <2>2, SpliceIs
  <2> QED BY <2>1, <2>3 DEF Spliced
<1>12. f <= Len(Splice(x, f, g, c.text))
  BY <1>1, <1>3, <1>11
<1> QED BY <1>2, <1>7, <1>8, <1>10, <1>11, <1>12 DEF Agrees

-----------------------------------------------------------------------------
(* A notification's changes and a workspace edit's edits, one by one.      *)

\* The recursions have solutions.
ApplyStep(t, changes, f, i) == IF i = 0 THEN t ELSE apply(f[i - 1], changes[i])
EditStep(t, es, f, i) == IF i = 0 THEN t ELSE Splice(f[i - 1], Offset(t, es[i].start), Offset(t, es[i].end), es[i].text)

LEMMA ApplyingExists ==
    ASSUME NEW t, NEW changes, NEW n \in Nat
    PROVE  \E f : f = [i \in 0..n |-> ApplyStep(t, changes, f, i)]
<1> DEFINE T == {m \in Nat : \E f : f = [i \in 0..m |-> ApplyStep(t, changes, f, i)]}
<1>1. 0 \in T
  <2> DEFINE f == [i \in 0..0 |-> t]
  <2>1. f = [i \in 0..0 |-> ApplyStep(t, changes, f, i)]
    BY DEF ApplyStep
  <2> QED BY <2>1
<1>2. ASSUME NEW m \in Nat, m \in T PROVE m + 1 \in T
  <2>1. PICK f : f = [i \in 0..m |-> ApplyStep(t, changes, f, i)]
    BY <1>2
  <2>2. \A i \in 0..m : f[i] = ApplyStep(t, changes, f, i)
    BY <2>1
  <2> DEFINE g == [i \in 0..(m + 1) |-> IF i <= m THEN f[i] ELSE ApplyStep(t, changes, f, i)]
  <2>3. ASSUME NEW i \in 0..(m + 1) PROVE g[i] = ApplyStep(t, changes, g, i)
    <3>1. g[i] = ApplyStep(t, changes, f, i)
      BY <2>2
    <3>2. i # 0 => g[i - 1] = f[i - 1]
      OBVIOUS
    <3>3. ApplyStep(t, changes, f, i) = ApplyStep(t, changes, g, i)
      <4> HIDE DEF g
      <4>1. CASE i = 0
        BY <4>1 DEF ApplyStep
      <4>2. CASE i # 0
        BY <3>2, <4>2, Zenon DEF ApplyStep
      <4> QED BY <4>1, <4>2
    <3> QED BY <3>1, <3>3
  <2>4. g = [i \in 0..(m + 1) |-> ApplyStep(t, changes, g, i)]
    <3>1. g = [i \in 0..(m + 1) |-> g[i]]
      OBVIOUS
    <3> HIDE DEF g
    <3> QED BY <2>3, <3>1
  <2> HIDE DEF g
  <2>5. \E h : h = [i \in 0..(m + 1) |-> ApplyStep(t, changes, h, i)]
    BY <2>4
  <2> QED BY <2>5
<1>3. n \in T
  <2>1. \A i \in 0..n : i \in T
    BY <1>1, <1>2, UpTo
  <2> QED BY <2>1
<1> QED BY <1>3

LEMMA EditingExists ==
    ASSUME NEW t, NEW es, NEW n \in Nat
    PROVE  \E f : f = [i \in 0..n |-> EditStep(t, es, f, i)]
<1> DEFINE T == {m \in Nat : \E f : f = [i \in 0..m |-> EditStep(t, es, f, i)]}
<1>1. 0 \in T
  <2> DEFINE f == [i \in 0..0 |-> t]
  <2>1. f = [i \in 0..0 |-> EditStep(t, es, f, i)]
    BY DEF EditStep
  <2> QED BY <2>1
<1>2. ASSUME NEW m \in Nat, m \in T PROVE m + 1 \in T
  <2>1. PICK f : f = [i \in 0..m |-> EditStep(t, es, f, i)]
    BY <1>2
  <2>2. \A i \in 0..m : f[i] = EditStep(t, es, f, i)
    BY <2>1
  <2> DEFINE g == [i \in 0..(m + 1) |-> IF i <= m THEN f[i] ELSE EditStep(t, es, f, i)]
  <2>3. ASSUME NEW i \in 0..(m + 1) PROVE g[i] = EditStep(t, es, g, i)
    <3>1. g[i] = EditStep(t, es, f, i)
      BY <2>2
    <3>2. i # 0 => g[i - 1] = f[i - 1]
      OBVIOUS
    <3>3. EditStep(t, es, f, i) = EditStep(t, es, g, i)
      <4> HIDE DEF g
      <4>1. CASE i = 0
        BY <4>1 DEF EditStep
      <4>2. CASE i # 0
        BY <3>2, <4>2, Zenon DEF EditStep
      <4> QED BY <4>1, <4>2
    <3> QED BY <3>1, <3>3
  <2>4. g = [i \in 0..(m + 1) |-> EditStep(t, es, g, i)]
    <3>1. g = [i \in 0..(m + 1) |-> g[i]]
      OBVIOUS
    <3> HIDE DEF g
    <3> QED BY <2>3, <3>1
  <2> HIDE DEF g
  <2>5. \E h : h = [i \in 0..(m + 1) |-> EditStep(t, es, h, i)]
    BY <2>4
  <2> QED BY <2>5
<1>3. n \in T
  <2>1. \A i \in 0..n : i \in T
    BY <1>1, <1>2, UpTo
  <2> QED BY <2>1
<1> QED BY <1>3

LEMMA AppliedIs ==
    ASSUME NEW t, NEW changes, Len(changes) \in Nat
    PROVE  \E f : applied(t, changes) = f[Len(changes)] /\ \A i \in 0..Len(changes) : f[i] = ApplyStep(t, changes, f, i)
<1> DEFINE n == Len(changes)
           P(f) == f = [i \in 0..n |-> ApplyStep(t, changes, f, i)]
           g == CHOOSE f : P(f)
<1>1. applied(t, changes) = g[n]
  BY DEF applied, ApplyStep
<1>2. \E f : P(f)
  BY ApplyingExists
<1>3. P(g)
  BY <1>2
<1> HIDE DEF g
<1>4. \A i \in 0..n : g[i] = ApplyStep(t, changes, g, i)
  BY <1>3
<1> QED BY <1>1, <1>4

LEMMA EditTextIs ==
    ASSUME NEW t, NEW edits, Len(LastFirst(edits)) \in Nat
    PROVE  \E f : /\ EditText(t, edits) = f[Len(LastFirst(edits))]
                  /\ \A i \in 0..Len(LastFirst(edits)) : f[i] = EditStep(t, LastFirst(edits), f, i)
<1> DEFINE es == LastFirst(edits)
           n == Len(es)
           P(f) == f = [i \in 0..n |-> EditStep(t, es, f, i)]
           g == CHOOSE f : P(f)
<1>1. EditText(t, edits) = g[n]
  BY DEF EditText, EditStep
<1>2. \E f : P(f)
  BY EditingExists
<1>3. P(g)
  BY <1>2
<1> HIDE DEF g
<1>4. \A i \in 0..n : g[i] = EditStep(t, es, g, i)
  BY <1>3
<1> QED BY <1>1, <1>4

\* Edits from the last to the first: none reaches into the one before it in
\* the list.
Descending(F) == \A i, j \in 1..Len(F) : i < j => F[j].to <= F[i].from

\* The change notification the client sends with a workspace edit does to the
\* server's text what the edit did to the client's.
LEMMA EditsMeet ==
    ASSUME NEW t, Clean(t), NEW edits, NEW F, IsSeq(F), Len(LastFirst(edits)) = Len(F),
           \A i \in 1..Len(F) : Fits(t, F[i]) /\ LastFirst(edits)[i] = Wire(t, F[i]),
           Descending(F),
           NEW changes, Len(changes) = Len(F),
           \A i \in 1..Len(F) : changes[i] = [whole |-> FALSE, start |-> LastFirst(edits)[i].start,
                                             end |-> LastFirst(edits)[i].end, text |-> LastFirst(edits)[i].text]
    PROVE  applied(t, changes) = EditText(t, edits) /\ Clean(EditText(t, edits))
<1> DEFINE es == LastFirst(edits)
<1>1. PICK n \in Nat : n = Len(F)
  BY DEF IsSeq
<1>2. PICK f : applied(t, changes) = f[n] /\ \A i \in 0..n : f[i] = ApplyStep(t, changes, f, i)
  BY <1>1, AppliedIs
<1>3. PICK g : EditText(t, edits) = g[n] /\ \A i \in 0..n : g[i] = EditStep(t, es, g, i)
  BY <1>1, EditTextIs
<1> HIDE DEF es
<1> DEFINE T == {i \in 0..n : /\ f[i] = g[i] /\ Clean(f[i])
                             /\ \A j \in 1..n : i < j => Agrees(f[i], t, F[j].to)}
<1>4. 0 \in T
  <2>1. f[0] = t /\ g[0] = t
    BY <1>2, <1>3 DEF ApplyStep, EditStep
  <2>2. \A j \in 1..n : F[j].to <= Len(t)
    <3> SUFFICES ASSUME NEW j \in 1..n PROVE F[j].to <= Len(t)
      OBVIOUS
    <3>1. F[j].from \in 0..Len(t) /\ F[j].to \in F[j].from..Len(t)
      BY <1>1 DEF Fits
    <3> QED BY <3>1
  <2>3. \A j \in 1..n : Agrees(t, t, F[j].to)
    BY <2>2 DEF Agrees
  <2> QED BY <2>1, <2>3
<1>5. ASSUME NEW i \in 0..(n - 1), i \in T PROVE i + 1 \in T
  <2>1. i + 1 \in 1..n /\ i + 1 \in 0..n /\ i + 1 # 0 /\ (i + 1) - 1 = i /\ i < i + 1
    OBVIOUS
  <2>2. PICK e, x, c : e = F[i + 1] /\ x = f[i] /\ c = changes[i + 1]
    OBVIOUS
  <2>3. Fits(t, e) /\ es[i + 1] = Wire(t, e)
    BY <1>1, <2>1, <2>2 DEF es
  <2>4. Carries(t, e, c)
    <3>1. c = [whole |-> FALSE, start |-> es[i + 1].start, end |-> es[i + 1].end, text |-> es[i + 1].text]
      BY <1>1, <2>1, <2>2 DEF es
    <3> QED BY <2>3, <3>1 DEF Wire, Carries
  <2>5. Clean(x) /\ g[i] = x /\ Agrees(x, t, e.to)
    BY <1>5, <2>1, <2>2
  <2>6. /\ apply(x, c) = Splice(x, Offset(t, c.start), Offset(t, c.end), c.text)
        /\ Clean(apply(x, c)) /\ Agrees(apply(x, c), x, e.from)
    BY <2>3, <2>4, <2>5, ApplyMeets
  <2>7. f[i + 1] = apply(x, c)
    BY <1>2, <2>1, <2>2 DEF ApplyStep
  <2>8. g[i + 1] = Splice(x, Offset(t, c.start), Offset(t, c.end), c.text)
    <3>1. g[i + 1] = Splice(g[(i + 1) - 1], Offset(t, es[i + 1].start), Offset(t, es[i + 1].end), es[i + 1].text)
      BY <1>3, <2>1, Zenon DEF EditStep
    <3>2. es[i + 1].start = c.start /\ es[i + 1].end = c.end /\ es[i + 1].text = c.text
      BY <2>3, <2>4 DEF Wire, Carries
    <3> QED BY <2>1, <2>5, <3>1, <3>2
  <2>9. ASSUME NEW j \in 1..n, i + 1 < j
        PROVE  Agrees(f[i + 1], t, F[j].to)
    <3>1. F[j].to <= e.from
      BY <1>1, <2>1, <2>2, <2>9 DEF Descending
    <3>2. PICK a, b, d : a = F[j].to /\ b = e.from /\ d = e.to
      OBVIOUS
    <3>3. Fits(t, F[j]) /\ Len(t) \in Nat
      BY <1>1 DEF Clean, IsSeq
    <3>4. F[j].from \in 0..Len(t) /\ a \in F[j].from..Len(t) /\ b \in 0..Len(t) /\ d \in b..Len(t)
      BY <2>3, <3>2, <3>3 DEF Fits
    <3>5. a \in Nat /\ b \in Nat /\ d \in Nat /\ a <= b /\ b <= d
      BY <3>1, <3>2, <3>3, <3>4
    <3>6. \A k \in 1..a : k \in 1..b /\ k \in 1..d
      BY <3>5
    <3>7. Len(f[i + 1]) \in Nat /\ b <= Len(f[i + 1])
      BY <2>6, <2>7, <3>2 DEF Clean, IsSeq, Agrees
    <3> QED BY <2>5, <2>6, <2>7, <3>2, <3>5, <3>6, <3>7, SMTT(40) DEF Agrees
  <2> QED BY <2>1, <2>6, <2>7, <2>8, <2>9
<1>6. n \in T
  <2> HIDE DEF T
  <2>1. \A i \in 0..n : i \in T
    BY <1>4, <1>5, UpTo
  <2> QED BY <2>1
<1> QED BY <1>2, <1>3, <1>6

-----------------------------------------------------------------------------
(* Edits in the order of their places.                                     *)

\* The edits of one action, in the order of the list, do not overlap; two at
\* the same place are insertions, but for the last of them.
Apart(E) == \A i, j \in 1..Len(E) : i < j => E[i].to <= E[j].from \/ (E[j].to <= E[i].from /\ E[j].from < E[i].from)

\* A rank per index of a sequence of numbers, by number and then by index, is
\* a numbering.
Less(s, i, j) == s[i] <= s[j] /\ (s[i] = s[j] => i < j)
Rank(n, s, i) == Cardinality({j \in 1..n : j # i /\ Less(s, j, i)})

LEMMA RankNumbers ==
    ASSUME NEW n \in Nat, NEW s \in [1..n -> Nat]
    PROVE  /\ \A i \in 1..n : Rank(n, s, i) \in 0..(n - 1)
           /\ \A i, j \in 1..n : i # j /\ Less(s, i, j) => Rank(n, s, i) < Rank(n, s, j)
           /\ \A k \in 1..n : \E i \in 1..n : Rank(n, s, i) = k - 1
<1> DEFINE R(i) == {j \in 1..n : j # i /\ Less(s, j, i)}
<1>1. /\ \A i, j \in 1..n : i # j => Less(s, i, j) \/ Less(s, j, i)
      /\ \A i, j \in 1..n : i # j => ~(Less(s, i, j) /\ Less(s, j, i))
      /\ \A i, j, k \in 1..n : Less(s, i, j) /\ Less(s, j, k) => Less(s, i, k)
  BY DEF Less
<1>2. IsFiniteSet(1..n) /\ Cardinality(1..n) = n
  BY FS_Interval
<1>3. ASSUME NEW i \in 1..n PROVE IsFiniteSet(R(i)) /\ Cardinality(R(i)) \in 0..(n - 1) /\ Rank(n, s, i) = Cardinality(R(i))
  <2>1. R(i) \in SUBSET ((1..n) \ {i})
    OBVIOUS
  <2>2. IsFiniteSet((1..n) \ {i}) /\ Cardinality((1..n) \ {i}) = n - 1
    BY <1>2, FS_RemoveElement
  <2>3. Rank(n, s, i) = Cardinality(R(i))
    BY DEF Rank
  <2> HIDE DEF R
  <2>4. IsFiniteSet(R(i)) /\ Cardinality(R(i)) <= n - 1
    BY <2>1, <2>2, FS_Subset
  <2>5. Cardinality(R(i)) \in Nat
    BY <2>4, FS_CardinalityType
  <2> QED BY <2>3, <2>4, <2>5
<1>4. ASSUME NEW i \in 1..n, NEW j \in 1..n, i # j, Less(s, i, j) PROVE Rank(n, s, i) < Rank(n, s, j)
  <2>1. R(i) \subseteq R(j)
    BY <1>1, <1>4
  <2>2. i \in R(j) /\ i \notin R(i)
    BY <1>4
  <2> HIDE DEF R
  <2>3. R(i) \in SUBSET R(j) /\ R(i) # R(j)
    BY <2>1, <2>2
  <2>4. Cardinality(R(i)) <= Cardinality(R(j)) /\ Cardinality(R(i)) # Cardinality(R(j))
    BY <1>3, <2>3, FS_Subset
  <2>5. Cardinality(R(i)) \in Nat /\ Cardinality(R(j)) \in Nat /\ Rank(n, s, i) = Cardinality(R(i)) /\ Rank(n, s, j) = Cardinality(R(j))
    BY <1>3
  <2> QED BY <2>4, <2>5
<1>5. \A i \in 1..n : Rank(n, s, i) \in 0..(n - 1)
  BY <1>3
<1>6. ASSUME NEW k \in 1..n PROVE \E i \in 1..n : Rank(n, s, i) = k - 1
  <2> DEFINE f == [i \in 1..n |-> Rank(n, s, i)]
  <2>1. \A i, j \in 1..n : Rank(n, s, i) = Rank(n, s, j) => i = j
    <3> SUFFICES ASSUME NEW i \in 1..n, NEW j \in 1..n, i # j PROVE Rank(n, s, i) # Rank(n, s, j)
      OBVIOUS
    <3>1. Rank(n, s, i) \in 0..(n - 1) /\ Rank(n, s, j) \in 0..(n - 1)
      BY <1>5
    <3>2. Rank(n, s, i) < Rank(n, s, j) \/ Rank(n, s, j) < Rank(n, s, i)
      BY <1>1, <1>4
    <3> QED BY <3>1, <3>2
  <2>2. f \in Injection(1..n, 0..(n - 1))
    BY <1>5, <2>1 DEF Injection, IsInjective
  <2>3. IsFiniteSet(0..(n - 1)) /\ Cardinality(0..(n - 1)) = n
    <3>1. 0 \in Int /\ n - 1 \in Int /\ (IF 0 > n - 1 THEN 0 ELSE (n - 1) - 0 + 1) = n
      OBVIOUS
    <3>2. IsFiniteSet(0..(n - 1)) /\ Cardinality(0..(n - 1)) = IF 0 > n - 1 THEN 0 ELSE (n - 1) - 0 + 1
      BY <3>1, FS_Interval
    <3> QED BY <3>1, <3>2
  <2> HIDE DEF f
  <2>4. f \in Surjection(1..n, 0..(n - 1))
    BY <1>2, <2>2, <2>3, FS_Injection
  <2>5. k - 1 \in 0..(n - 1)
    OBVIOUS
  <2>6. \E i \in 1..n : f[i] = k - 1
    BY <2>4, <2>5 DEF Surjection
  <2> QED BY <2>6 DEF f
<1> QED BY <1>4, <1>5, <1>6

\* What a workspace edit applies: the edits of the action, from the last to
\* the first.
LEMMA LastFirstIs ==
    ASSUME NEW t, Clean(t), NEW E, IsSeq(E), \A i \in 1..Len(E) : Fits(t, E[i]), Apart(E)
    PROVE  LET edits == WireEdits(t, E)
           IN /\ Len(Sorted(edits)) = Len(E) /\ Len(edits) = Len(E)
              /\ \E F : /\ IsSeq(F) /\ Len(F) = Len(E) /\ Len(LastFirst(edits)) = Len(E)
                        /\ \A i \in 1..Len(F) : Fits(t, F[i]) /\ LastFirst(edits)[i] = Wire(t, F[i])
                        /\ Descending(F)
              /\ \E G : /\ IsSeq(G) /\ Apart(G) /\ \A i \in 1..Len(G) : Fits(t, G[i])
                        /\ Sorted(edits) = WireEdits(t, G)
<1> DEFINE edits == WireEdits(t, E)
<1>1. PICK n \in Nat : n = Len(E)
  BY DEF IsSeq
<1>2. edits = [k \in 1..n |-> Wire(t, E[k])]
  BY <1>1 DEF WireEdits
<1>3. Len(edits) = n /\ DOMAIN edits = 1..n /\ \A k \in 1..n : edits[k] = Wire(t, E[k])
  <2>1. edits = [k \in 1..n |-> edits[k]]
    BY <1>2
  <2>2. Len(edits) = n
    BY <2>1, FunctionIsSeq
  <2> QED BY <1>2, <2>2
<1> HIDE DEF edits
<1>4. \A k \in 1..n : edits[k].start = position(t, E[k].from)
  BY <1>3 DEF Wire
<1>5. ASSUME NEW k \in 1..n PROVE E[k].from \in 0..Len(t) /\ E[k].to \in E[k].from..Len(t) /\ E[k].from \in Nat
  <2>1. E[k].from \in 0..Len(t) /\ E[k].to \in E[k].from..Len(t)
    BY <1>1 DEF Fits
  <2> QED BY <2>1
<1> DEFINE s == [k \in 1..n |-> E[k].from]
           rank(i) == Cardinality({j \in DOMAIN edits : j # i /\ (Before(edits[j].start, edits[i].start)
                                                                  /\ (edits[j].start = edits[i].start => j < i))})
           at(k) == CHOOSE i \in DOMAIN edits : rank(i) = k - 1
<1>6. s \in [1..n -> Nat]
  BY <1>5
<1>7. ASSUME NEW i \in 1..n PROVE rank(i) = Rank(n, s, i)
  <2>1. ASSUME NEW j \in 1..n
        PROVE  (Before(edits[j].start, edits[i].start) /\ (edits[j].start = edits[i].start => j < i)) <=> Less(s, j, i)
    <3>1. IsSeq(t)
      BY DEF Clean
    <3>2. /\ Before(position(t, E[j].from), position(t, E[i].from)) <=> E[j].from <= E[i].from
          /\ position(t, E[j].from) = position(t, E[i].from) <=> E[j].from = E[i].from
      BY <1>5, <3>1, PositionOrder
    <3> QED BY <1>4, <3>2 DEF Less
  <2>2. {j \in DOMAIN edits : j # i /\ (Before(edits[j].start, edits[i].start) /\ (edits[j].start = edits[i].start => j < i))}
        = {j \in 1..n : j # i /\ Less(s, j, i)}
    BY <1>3, <2>1
  <2> QED BY <2>2 DEF Rank
<1>8. Sorted(edits) = [k \in 1..n |-> edits[at(k)]]
  BY <1>3 DEF Sorted
<1>9. ASSUME NEW k \in 1..n PROVE at(k) \in 1..n /\ Rank(n, s, at(k)) = k - 1
  <2>1. \E i \in DOMAIN edits : rank(i) = k - 1
    <3>1. PICK i \in 1..n : Rank(n, s, i) = k - 1
      <4> HIDE DEF s
      <4> QED BY <1>6, RankNumbers
    <3>2. rank(i) = k - 1
      BY <1>7, <3>1
    <3> HIDE DEF rank
    <3> QED BY <1>3, <3>2
  <2>2. at(k) \in DOMAIN edits /\ rank(at(k)) = k - 1
    <3> HIDE DEF rank
    <3> QED BY <2>1
  <2> HIDE DEF rank, at
  <2> QED BY <1>3, <1>7, <2>2
<1> HIDE DEF rank, at
<1>10. ASSUME NEW k \in 1..n, NEW l \in 1..n, k < l PROVE E[at(k)].to <= E[at(l)].from
  <2>1. /\ at(k) \in 1..n /\ at(l) \in 1..n /\ Rank(n, s, at(k)) = k - 1 /\ Rank(n, s, at(l)) = l - 1
    BY <1>9
  <2>2. at(k) # at(l)
    BY <1>10, <2>1
  <2>3. ~Less(s, at(l), at(k))
    <3>1. Less(s, at(l), at(k)) => Rank(n, s, at(l)) < Rank(n, s, at(k))
      <4> HIDE DEF s
      <4> QED BY <1>6, <2>1, <2>2, RankNumbers
    <3> QED BY <1>10, <2>1, <3>1
  <2>4. PICK a \in 1..n, b \in 1..n : a = at(k) /\ b = at(l)
    BY <2>1
  <2>5. E[a].from \in Nat /\ E[b].from \in Nat /\ E[a].to \in Nat /\ E[b].to \in Nat /\ E[a].from <= E[a].to /\ E[b].from <= E[b].to
    <3>1. ASSUME NEW i \in 1..n PROVE E[i].to \in Nat /\ E[i].from <= E[i].to
      <4>1. E[i].from \in Nat /\ E[i].to \in E[i].from..Len(t)
        BY <1>5
      <4> QED BY <4>1
    <3> QED BY <1>5, <3>1
  <2>6. E[a].from <= E[b].from /\ (E[a].from = E[b].from => a < b)
    <3>1. s[a] = E[a].from /\ s[b] = E[b].from
      OBVIOUS
    <3> HIDE DEF s
    <3> QED BY <2>2, <2>3, <2>4, <2>5, <3>1, SMTT(40) DEF Less
  <2>7. CASE a < b
    <3>1. E[a].to <= E[b].from \/ (E[b].to <= E[a].from /\ E[b].from < E[a].from)
      BY <1>1, <2>7 DEF Apart
    <3> QED BY <2>4, <2>5, <2>6, <3>1
  <2>8. CASE b < a
    <3>1. E[b].to <= E[a].from \/ (E[a].to <= E[b].from /\ E[a].from < E[b].from)
      BY <1>1, <2>8 DEF Apart
    <3>2. E[a].from # E[b].from
      BY <2>6, <2>8
    <3> QED BY <2>4, <2>5, <2>6, <3>1, <3>2, SMTT(40)
  <2> QED BY <2>2, <2>4, <2>7, <2>8
<1>11. Len(Sorted(edits)) = n /\ \A k \in 1..n : Sorted(edits)[k] = Wire(t, E[at(k)])
  <2>1. Sorted(edits) = [k \in 1..n |-> Sorted(edits)[k]]
    BY <1>8
  <2>2. Len(Sorted(edits)) = n
    BY <2>1, FunctionIsSeq
  <2> QED BY <1>3, <1>8, <1>9, <2>2
<1>12. Len(LastFirst(edits)) = n /\ \A k \in 1..n : LastFirst(edits)[k] = Wire(t, E[at(n - k + 1)])
  <2>1. LastFirst(edits) = [k \in 1..n |-> Sorted(edits)[(n - k) + 1]]
    BY <1>11 DEF LastFirst, Reverse
  <2>2. LastFirst(edits) = [k \in 1..n |-> LastFirst(edits)[k]]
    BY <2>1
  <2>3. Len(LastFirst(edits)) = n
    BY <2>2, FunctionIsSeq
  <2>4. \A k \in 1..n : n - k + 1 \in 1..n
    OBVIOUS
  <2> QED BY <1>11, <2>1, <2>3, <2>4
<1> DEFINE F == [k \in 1..n |-> E[at(n - k + 1)]]
<1>13. IsSeq(F) /\ Len(F) = n
  <2>1. F = [k \in 1..n |-> F[k]]
    OBVIOUS
  <2> HIDE DEF F
  <2> QED BY <2>1, FunctionIsSeq
<1>14. \A k \in 1..n : n - k + 1 \in 1..n /\ F[k] = E[at(n - k + 1)]
  OBVIOUS
<1> HIDE DEF F
<1>15. \A k \in 1..n : Fits(t, F[k]) /\ LastFirst(edits)[k] = Wire(t, F[k])
  BY <1>1, <1>9, <1>12, <1>14
<1>16. Descending(F)
  <2> SUFFICES ASSUME NEW k \in 1..n, NEW l \in 1..n, k < l PROVE F[l].to <= F[k].from
    BY <1>13 DEF Descending
  <2>1. n - l + 1 \in 1..n /\ n - k + 1 \in 1..n /\ n - l + 1 < n - k + 1
    OBVIOUS
  <2> QED BY <1>10, <1>14, <2>1
<1> DEFINE G == [k \in 1..n |-> E[at(k)]]
<1>17. IsSeq(G) /\ Len(G) = n
  <2>1. G = [k \in 1..n |-> G[k]]
    OBVIOUS
  <2> HIDE DEF G
  <2> QED BY <2>1, FunctionIsSeq
<1>18. \A k \in 1..n : G[k] = E[at(k)]
  OBVIOUS
<1> HIDE DEF G
<1>19. \A k \in 1..n : Fits(t, G[k])
  BY <1>1, <1>9, <1>18
<1>20. Apart(G)
  BY <1>10, <1>17, <1>18 DEF Apart
<1>21. Sorted(edits) = WireEdits(t, G)
  <2>1. WireEdits(t, G) = [k \in 1..n |-> Wire(t, G[k])]
    BY <1>17 DEF WireEdits
  <2>2. Sorted(edits) = [k \in 1..n |-> Sorted(edits)[k]]
    BY <1>8
  <2> HIDE DEF edits
  <2> QED BY <1>11, <1>18, <2>1, <2>2
<1>22. \E H : /\ IsSeq(H) /\ Apart(H) /\ \A i \in 1..Len(H) : Fits(t, H[i])
             /\ Sorted(edits) = WireEdits(t, H)
  BY <1>17, <1>19, <1>20, <1>21
<1> QED BY <1>1, <1>3, <1>11, <1>12, <1>13, <1>15, <1>16, <1>22 DEF edits

-----------------------------------------------------------------------------
(* Sequences put end to end.                                               *)

FlatStep(seqs, f, i) == IF i = 1 THEN seqs[i] ELSE f[i - 1] \o seqs[i]

LEMMA FlatExists ==
    ASSUME NEW seqs, NEW n \in Nat
    PROVE  \E f : f = [i \in 1..n |-> FlatStep(seqs, f, i)]
<1> DEFINE T == {m \in Nat : \E f : f = [i \in 1..m |-> FlatStep(seqs, f, i)]}
<1>1. 0 \in T
  <2> DEFINE f == [i \in 1..0 |-> 0]
  <2>1. f = [i \in 1..0 |-> FlatStep(seqs, f, i)]
    OBVIOUS
  <2> QED BY <2>1
<1>2. ASSUME NEW m \in Nat, m \in T PROVE m + 1 \in T
  <2>1. PICK f : f = [i \in 1..m |-> FlatStep(seqs, f, i)]
    BY <1>2
  <2>2. \A i \in 1..m : f[i] = FlatStep(seqs, f, i)
    BY <2>1
  <2> DEFINE g == [i \in 1..(m + 1) |-> IF i <= m THEN f[i] ELSE FlatStep(seqs, f, i)]
  <2>3. ASSUME NEW i \in 1..(m + 1) PROVE g[i] = FlatStep(seqs, g, i)
    <3>1. g[i] = FlatStep(seqs, f, i)
      BY <2>2
    <3>2. i # 1 => g[i - 1] = f[i - 1]
      OBVIOUS
    <3>3. FlatStep(seqs, f, i) = FlatStep(seqs, g, i)
      <4> HIDE DEF g
      <4>1. CASE i = 1
        BY <4>1 DEF FlatStep
      <4>2. CASE i # 1
        BY <3>2, <4>2, Zenon DEF FlatStep
      <4> QED BY <4>1, <4>2
    <3> QED BY <3>1, <3>3
  <2>4. g = [i \in 1..(m + 1) |-> FlatStep(seqs, g, i)]
    <3>1. g = [i \in 1..(m + 1) |-> g[i]]
      OBVIOUS
    <3> HIDE DEF g
    <3> QED BY <2>3, <3>1
  <2> HIDE DEF g
  <2>5. \E h : h = [i \in 1..(m + 1) |-> FlatStep(seqs, h, i)]
    BY <2>4
  <2> QED BY <2>5
<1>3. n \in T
  <2>1. \A i \in 0..n : i \in T
    BY <1>1, <1>2, UpTo
  <2> QED BY <2>1
<1> QED BY <1>3

LEMMA FlattenIs ==
    ASSUME NEW seqs, NEW n \in Nat, Len(seqs) = n + 1
    PROVE  \E f : FlattenSeq(seqs) = f[n + 1] /\ f[1] = seqs[1] /\ \A i \in 1..n : f[i + 1] = f[i] \o seqs[i + 1]
<1> DEFINE P(f) == f = [i \in 1..(n + 1) |-> FlatStep(seqs, f, i)]
           g == CHOOSE f : P(f)
<1>1. FlattenSeq(seqs) = g[n + 1]
  <2>1. n + 1 # 0
    OBVIOUS
  <2>2. FlattenSeq(seqs) = IF Len(seqs) = 0 THEN seqs ELSE (CHOOSE f : f = [i \in 1..Len(seqs) |-> IF i = 1 THEN seqs[i] ELSE f[i - 1] \o seqs[i]])[Len(seqs)]
    BY DEF FlattenSeq
  <2> QED BY <2>1, <2>2 DEF FlatStep
<1>2. \E f : P(f)
  <2>1. PICK l \in Nat : l = n + 1
    OBVIOUS
  <2>2. \E f : f = [i \in 1..l |-> FlatStep(seqs, f, i)]
    BY FlatExists
  <2> QED BY <2>1, <2>2
<1>3. P(g)
  BY <1>2
<1> HIDE DEF g
<1>4. \A i \in 1..(n + 1) : g[i] = FlatStep(seqs, g, i)
  BY <1>3
<1>5. g[1] = seqs[1]
  BY <1>4 DEF FlatStep
<1>6. ASSUME NEW i \in 1..n PROVE g[i + 1] = g[i] \o seqs[i + 1]
  <2>1. i + 1 \in 1..(n + 1) /\ i + 1 # 1 /\ (i + 1) - 1 = i
    OBVIOUS
  <2> QED BY <1>4, <2>1 DEF FlatStep
<1> QED BY <1>1, <1>5, <1>6

\* Where the elements come from: a[p] is the sequence and b[p] the place in it
\* of the p-th, and they go up in that order.
Origins(seqs, m, q, a, b) ==
    /\ \A p \in 1..Len(q) : a[p] \in 1..m /\ b[p] \in 1..Len(seqs[a[p]]) /\ q[p] = seqs[a[p]][b[p]]
    /\ \A p, r \in 1..Len(q) : p < r => a[p] < a[r] \/ (a[p] = a[r] /\ b[p] < b[r])

LEMMA OriginsGrow ==
    ASSUME NEW seqs, NEW m \in Nat, NEW q, IsSeq(q), NEW a, NEW b, Origins(seqs, m, q, a, b), IsSeq(seqs[m + 1])
    PROVE  \E c, d : Origins(seqs, m + 1, q \o seqs[m + 1], c, d)
<1> DEFINE s == seqs[m + 1]
           w == q \o s
<1>1. PICK n \in Nat, l \in Nat : n = Len(q) /\ l = Len(s)
  BY DEF IsSeq
<1>2. Len(w) = n + l
  BY <1>1, ConcatIs
<1>3. \A i \in 1..(Len(q) + Len(s)) : w[i] = IF i <= Len(q) THEN q[i] ELSE s[i - Len(q)]
  BY ConcatIs
<1> HIDE DEF w
<1> DEFINE c == [p \in 1..(n + l) |-> IF p <= n THEN a[p] ELSE m + 1]
           d == [p \in 1..(n + l) |-> IF p <= n THEN b[p] ELSE p - n]
<1>4. ASSUME NEW p \in 1..(n + l)
      PROVE  IF p <= n THEN p \in 1..n /\ c[p] = a[p] /\ d[p] = b[p] /\ a[p] \in 1..m /\ w[p] = q[p]
             ELSE p - n \in 1..l /\ c[p] = m + 1 /\ d[p] = p - n /\ w[p] = s[p - n]
  BY <1>1, <1>3 DEF Origins
<1> HIDE DEF c, d
<1>5. ASSUME NEW p \in 1..(n + l) PROVE c[p] \in 1..(m + 1) /\ d[p] \in 1..Len(seqs[c[p]]) /\ w[p] = seqs[c[p]][d[p]]
  <2>1. CASE p <= n
    <3>1. p \in 1..n /\ c[p] = a[p] /\ d[p] = b[p] /\ a[p] \in 1..m /\ w[p] = q[p]
      BY <1>4, <2>1
    <3>2. b[p] \in 1..Len(seqs[a[p]]) /\ q[p] = seqs[a[p]][b[p]]
      BY <1>1, <3>1 DEF Origins
    <3>3. a[p] \in 1..(m + 1)
      BY <3>1
    <3> QED BY <3>1, <3>2, <3>3
  <2>2. CASE ~(p <= n)
    BY <1>1, <1>4, <2>2, SMTT(40)
  <2> QED BY <2>1, <2>2
<1>6. ASSUME NEW p \in 1..(n + l), NEW r \in 1..(n + l), p < r PROVE c[p] < c[r] \/ (c[p] = c[r] /\ d[p] < d[r])
  <2>1. CASE r <= n
    <3>1. p <= n
      BY <1>6, <2>1
    <3>2. p \in 1..n /\ r \in 1..n
      BY <2>1, <3>1
    <3>3. a[p] < a[r] \/ (a[p] = a[r] /\ b[p] < b[r])
      BY <1>1, <1>6, <3>2 DEF Origins
    <3> QED BY <1>4, <2>1, <3>1, <3>3
  <2>2. CASE p <= n /\ ~(r <= n)
    <3>1. c[p] \in 1..m /\ c[r] = m + 1
      BY <1>4, <2>2
    <3> QED BY <3>1
  <2>3. CASE ~(p <= n) /\ ~(r <= n)
    <3>1. c[p] = c[r] /\ d[p] = p - n /\ d[r] = r - n
      BY <1>4, <2>3
    <3> QED BY <1>6, <3>1
  <2>4. p <= n \/ ~(r <= n) \/ r <= n
    OBVIOUS
  <2> QED BY <1>6, <2>1, <2>2, <2>3
<1>7. Origins(seqs, m + 1, w, c, d)
  BY <1>2, <1>5, <1>6 DEF Origins
<1> QED BY <1>7 DEF w

LEMMA FlattenOrigins ==
    ASSUME NEW seqs, IsSeq(seqs), \A i \in 1..Len(seqs) : IsSeq(seqs[i])
    PROVE  IsSeq(FlattenSeq(seqs)) /\ \E a, b : Origins(seqs, Len(seqs), FlattenSeq(seqs), a, b)
<1>1. CASE Len(seqs) = 0
  <2>1. FlattenSeq(seqs) = seqs
    BY <1>1 DEF FlattenSeq
  <2>2. Origins(seqs, Len(seqs), seqs, <<>>, <<>>)
    BY <1>1 DEF Origins
  <2> QED BY <2>1, <2>2
<1>2. CASE Len(seqs) # 0
  <2>1. PICK n \in Nat : n + 1 = Len(seqs)
    <3>1. Len(seqs) - 1 \in Nat /\ (Len(seqs) - 1) + 1 = Len(seqs)
      BY <1>2 DEF IsSeq
    <3> QED BY <3>1, Zenon
  <2>2. PICK f : /\ FlattenSeq(seqs) = f[n + 1] /\ f[1] = seqs[1]
                 /\ \A i \in 1..n : f[i + 1] = f[i] \o seqs[i + 1]
    <3>1. Len(seqs) = n + 1
      BY <2>1
    <3> QED BY <3>1, FlattenIs
  <2> DEFINE Good(m) == IsSeq(f[m]) /\ \E a, b : Origins(seqs, m, f[m], a, b)
  <2>3. Good(1)
    <3>1. IsSeq(f[1]) /\ f[1] = seqs[1] /\ Len(seqs[1]) \in Nat
      <4>1. 1 \in 1..Len(seqs)
        BY <2>1
      <4> QED BY <2>2, <4>1 DEF IsSeq
    <3> DEFINE a == [p \in 1..Len(f[1]) |-> 1]
               b == [p \in 1..Len(f[1]) |-> p]
    <3>2. Origins(seqs, 1, f[1], a, b)
      BY <3>1 DEF Origins
    <3> HIDE DEF a, b
    <3>3. \E c, d : Origins(seqs, 1, f[1], c, d)
      BY <3>2
    <3> QED BY <3>1, <3>3
  <2>4. ASSUME NEW m \in 1..n, Good(m) PROVE Good(m + 1)
    <3>1. m \in Nat /\ m + 1 \in 1..(n + 1)
      OBVIOUS
    <3>2. PICK a, b : Origins(seqs, m, f[m], a, b)
      BY <2>4
    <3>3. IsSeq(f[m]) /\ IsSeq(seqs[m + 1]) /\ f[m + 1] = f[m] \o seqs[m + 1]
      BY <2>1, <2>2, <2>4, <3>1
    <3>4. IsSeq(f[m + 1])
      BY <3>3, ConcatIs
    <3>5. \E c, d : Origins(seqs, m + 1, f[m] \o seqs[m + 1], c, d)
      BY <3>1, <3>2, <3>3, OriginsGrow
    <3> QED BY <3>3, <3>4, <3>5
  <2> HIDE DEF Good
  <2> DEFINE T == {i \in 0..n : \A m : m = i + 1 => Good(m)}
  <2>5. 0 \in T
    BY <2>3
  <2>6. ASSUME NEW i \in 0..(n - 1), i \in T PROVE i + 1 \in T
    <3>1. PICK m \in 1..n : m = i + 1
      OBVIOUS
    <3>2. Good(m)
      BY <2>6, <3>1
    <3>3. Good(m + 1)
      BY <2>4, <3>2
    <3> QED BY <3>1, <3>3
  <2>7. n \in T
    <3> HIDE DEF T
    <3>1. \A i \in 0..n : i \in T
      BY <2>5, <2>6, UpTo
    <3> QED BY <3>1
  <2>8. Good(n + 1)
    BY <2>7
  <2> QED BY <2>1, <2>2, <2>8, SMTT(40) DEF Good
<1> QED BY <1>1, <1>2

\* Sequences of five put end to end.
LEMMA FlattenFives ==
    ASSUME NEW seqs, IsSeq(seqs), \A i \in 1..Len(seqs) : IsSeq(seqs[i]) /\ Len(seqs[i]) = 5
    PROVE  Len(FlattenSeq(seqs)) = 5 * Len(seqs)
<1>1. CASE Len(seqs) = 0
  <2>1. FlattenSeq(seqs) = seqs
    BY <1>1 DEF FlattenSeq
  <2> QED BY <1>1, <2>1
<1>2. CASE Len(seqs) # 0
  <2>1. PICK n \in Nat : n + 1 = Len(seqs)
    <3>1. Len(seqs) - 1 \in Nat /\ (Len(seqs) - 1) + 1 = Len(seqs)
      BY <1>2 DEF IsSeq
    <3> QED BY <3>1
  <2>2. PICK f : /\ FlattenSeq(seqs) = f[n + 1] /\ f[1] = seqs[1]
                 /\ \A i \in 1..n : f[i + 1] = f[i] \o seqs[i + 1]
    <3>1. Len(seqs) = n + 1
      BY <2>1
    <3> QED BY <3>1, FlattenIs
  <2> DEFINE Good(m) == IsSeq(f[m]) /\ Len(f[m]) = 5 * m
  <2>3. Good(1)
    <3>1. 1 \in 1..Len(seqs)
      BY <2>1
    <3>2. IsSeq(f[1]) /\ Len(f[1]) = 5
      BY <2>2, <3>1
    <3> QED BY <3>2
  <2>4. ASSUME NEW m \in 1..n, Good(m) PROVE Good(m + 1)
    <3>1. m + 1 \in 1..(n + 1) /\ 5 * m + 5 = 5 * (m + 1)
      OBVIOUS
    <3>2. IsSeq(f[m]) /\ Len(f[m]) = 5 * m /\ IsSeq(seqs[m + 1]) /\ Len(seqs[m + 1]) = 5 /\ f[m + 1] = f[m] \o seqs[m + 1]
      BY <2>1, <2>2, <2>4, <3>1
    <3>3. IsSeq(f[m + 1])
      BY <3>2, ConcatIs
    <3>4. Len(f[m + 1]) = Len(f[m]) + Len(seqs[m + 1])
      <4>1. IsSeq(f[m]) /\ IsSeq(seqs[m + 1])
        BY <3>2
      <4>2. Len(f[m] \o seqs[m + 1]) = Len(f[m]) + Len(seqs[m + 1])
        BY <4>1, ConcatIs
      <4> QED BY <3>2, <4>2
    <3>5. Len(f[m + 1]) = 5 * (m + 1)
      BY <3>2, <3>4
    <3> HIDE DEF Good
    <3>6. Good(m + 1)
      BY <3>3, <3>5, Zenon DEF Good
    <3> QED BY <3>6
  <2> HIDE DEF Good
  <2> DEFINE T == {i \in 0..n : \A m : m = i + 1 => Good(m)}
  <2>5. 0 \in T
    BY <2>3
  <2>6. ASSUME NEW i \in 0..(n - 1), i \in T PROVE i + 1 \in T
    <3>1. PICK m \in 1..n : m = i + 1
      OBVIOUS
    <3>2. Good(m)
      BY <2>6, <3>1
    <3>3. Good(m + 1)
      BY <2>4, <3>2
    <3> QED BY <3>1, <3>3
  <2>7. n \in T
    <3> HIDE DEF T
    <3>1. \A i \in 0..n : i \in T
      BY <2>5, <2>6, UpTo
    <3> QED BY <3>1
  <2>8. Good(n + 1)
    BY <2>7
  <2> QED BY <2>1, <2>2, <2>8, SMTT(40) DEF Good
<1> QED BY <1>1, <1>2

-----------------------------------------------------------------------------
(* The edits of a code action.                                             *)

\* Edits of a text that may be made together, in whatever order.
Editing(t, E) == IsSeq(E) /\ Apart(E) /\ \A i \in 1..Len(E) : Fits(t, E[i])
Proposes(t, edits) == \E E : Editing(t, E) /\ edits = WireEdits(t, E)

LEMMA FixFits ==
    ASSUME NEW t, Clean(t), NEW diags, Applicable(t, diags), NEW i \in 1..Len(diags), NEW k \in 1..Len(diags[i].edits)
    PROVE  Fits(t, diags[i].edits[k])
<1> DEFINE e == diags[i].edits[k]
<1>1. e.from \in Carets(t) /\ e.to \in Carets(t) /\ e.from <= e.to /\ Clean(e.text)
  BY DEF Applicable
<1> HIDE DEF e
<1>2. e.from \in 0..Len(t) /\ NoCr(t, e.from) /\ e.to \in 0..Len(t) /\ NoCr(t, e.to)
  BY <1>1, CaretIs
<1>3. e.to \in e.from..Len(t)
  BY <1>1, <1>2
<1> QED BY <1>1, <1>2, <1>3 DEF Fits, e

LEMMA DiagnosticEditing ==
    ASSUME NEW t, Clean(t), NEW diags, Applicable(t, diags), NEW i \in 1..Len(diags)
    PROVE  Editing(t, diags[i].edits)
<1>1. IsSeq(diags[i].edits)
  BY DEF Applicable
<1>2. \A k \in 1..Len(diags[i].edits) : Fits(t, diags[i].edits[k])
  BY FixFits
<1>3. \A k, l \in 1..Len(diags[i].edits) : k < l => Clear(diags[i].edits[k], diags[i].edits[l])
  BY DEF Applicable
<1> QED BY <1>1, <1>2, <1>3 DEF Editing, Apart, Clear

LEMMA FixesEditing ==
    ASSUME NEW t, Clean(t), NEW diags, Applicable(t, diags), NEW I, \A i \in I : i \in 1..Len(diags)
    PROVE  Editing(t, Fixes(diags, I))
<1> DEFINE at == Ascending(I)
           m == Len(at)
           seqs == [k \in 1..m |-> diags[at[k]].edits]
           q == Fixes(diags, I)
<1>1. IsSeq(at) /\ m \in Nat /\ \A k \in 1..m : at[k] \in 1..Len(diags)
  <2>1. PICK n \in Nat : n = Len(diags)
    BY DEF Applicable, IsSeq
  <2>2. IsSeq(at) /\ m = Cardinality(I) /\ m \in Nat /\ \A k \in 1..Cardinality(I) : at[k] \in I
    BY <2>1, AscendingIs
  <2> QED BY <2>2
<1>2. \A i, j \in 1..m : i < j => at[i] < at[j]
  <2>1. PICK n \in Nat : n = Len(diags)
    BY DEF Applicable, IsSeq
  <2>2. m = Cardinality(I) /\ \A i, j \in 1..Cardinality(I) : i < j => at[i] < at[j]
    BY <2>1, AscendingIs
  <2> QED BY <2>2
<1>3. q = FlattenSeq(seqs)
  BY DEF Fixes
<1> HIDE DEF at, m, q
<1>4. IsSeq(seqs) /\ Len(seqs) = m
  <2>1. seqs = [k \in 1..m |-> seqs[k]]
    OBVIOUS
  <2> HIDE DEF seqs
  <2> QED BY <1>1, <2>1, FunctionIsSeq
<1>5. \A k \in 1..m : seqs[k] = diags[at[k]].edits
  OBVIOUS
<1> HIDE DEF seqs
<1>6. \A k \in 1..Len(seqs) : IsSeq(seqs[k])
  BY <1>1, <1>4, <1>5 DEF Applicable
<1>7. IsSeq(q)
  BY <1>3, <1>4, <1>6, FlattenOrigins
<1>8. PICK a, b : Origins(seqs, m, q, a, b)
  BY <1>3, <1>4, <1>6, FlattenOrigins
<1>9. ASSUME NEW p \in 1..Len(q)
      PROVE  a[p] \in 1..m /\ b[p] \in 1..Len(diags[at[a[p]]].edits) /\ q[p] = diags[at[a[p]]].edits[b[p]]
  BY <1>5, <1>8 DEF Origins
<1>10. ASSUME NEW p \in 1..Len(q) PROVE Fits(t, q[p])
  <2>1. at[a[p]] \in 1..Len(diags)
    BY <1>1, <1>9
  <2> QED BY <1>9, <2>1, FixFits, SMTT(40)
<1>11. ASSUME NEW p \in 1..Len(q), NEW r \in 1..Len(q), p < r PROVE Clear(q[p], q[r])
  <2>1. a[p] < a[r] \/ (a[p] = a[r] /\ b[p] < b[r])
    BY <1>8, <1>11 DEF Origins
  <2>2. PICK i \in 1..Len(diags), j \in 1..Len(diags) : i = at[a[p]] /\ j = at[a[r]]
    BY <1>1, <1>9
  <2>3. i < j \/ (i = j /\ b[p] < b[r])
    BY <1>2, <1>9, <2>1, <2>2
  <2>4. b[p] \in 1..Len(diags[i].edits) /\ b[r] \in 1..Len(diags[j].edits)
    BY <1>9, <2>2
  <2>5. Clear(diags[i].edits[b[p]], diags[j].edits[b[r]])
    BY <2>3, <2>4 DEF Applicable
  <2> QED BY <1>9, <2>2, <2>5
<1>12. Apart(q)
  BY <1>11 DEF Apart, Clear
<1> QED BY <1>7, <1>10, <1>12 DEF Editing, q

LEMMA WholeEditing ==
    ASSUME NEW t, Clean(t), NEW new, Clean(new)
    PROVE  Proposes(t, <<whole_doc_edit(t, new)>>)
<1> DEFINE e == [from |-> 0, to |-> Len(t), text |-> new]
           E == <<e>>
<1>1. Len(t) \in Nat
  BY DEF Clean, IsSeq
<1>2. NoCr(t, Len(t))
  <2>1. Len(t) # 0 => Len(t) \in 1..Len(t) /\ ~(Len(t) < Len(t))
    BY <1>1
  <2> QED BY <2>1 DEF NoCr, Clean
<1>3. Fits(t, e)
  BY <1>1, <1>2 DEF Fits, NoCr
<1>4. Wire(t, e) = whole_doc_edit(t, new)
  BY DEF Wire, whole_doc_edit
<1> HIDE DEF e
<1>5. IsSeq(E) /\ Len(E) = 1 /\ \A i \in 1..Len(E) : i = 1 /\ E[i] = e
  <2>1. E \in Seq({e})
    OBVIOUS
  <2>2. Len(E) = 1 /\ E[1] = e
    OBVIOUS
  <2> HIDE DEF E
  <2> QED BY <2>1, <2>2, SeqIsSeq
<1>6. Apart(E)
  BY <1>5 DEF Apart
<1>7. Editing(t, E)
  BY <1>3, <1>5, <1>6 DEF Editing
<1>8. <<whole_doc_edit(t, new)>> = WireEdits(t, E)
  <2>1. Len(E) = 1 /\ E[1] = e
    BY <1>5
  <2>2. WireEdits(t, E) = [k \in 1..1 |-> Wire(t, E[k])]
    BY <2>1 DEF WireEdits
  <2>3. [k \in 1..1 |-> Wire(t, E[k])] = <<Wire(t, E[1])>>
    OBVIOUS
  <2> QED BY <1>4, <2>1, <2>2, <2>3
<1> QED BY <1>7, <1>8 DEF Proposes

LEMMA SortedEditing ==
    ASSUME NEW t, Clean(t), NEW E, Editing(t, E)
    PROVE  Proposes(t, Sorted(WireEdits(t, E)))
<1>1. \E G : /\ IsSeq(G) /\ Apart(G) /\ \A i \in 1..Len(G) : Fits(t, G[i])
             /\ Sorted(WireEdits(t, E)) = WireEdits(t, G)
  BY LastFirstIs DEF Editing
<1> QED BY <1>1 DEF Editing, Proposes

\* A list of code actions.
Offers(t, q) == IsSeq(q) /\ \A i \in 1..Len(q) : Proposes(t, q[i].edits)

LEMMA OfferNothing == ASSUME NEW t PROVE Offers(t, <<>>)
BY EmptyIds, EmptySeq DEF Offers

LEMMA OfferOne == ASSUME NEW t, NEW edits, Proposes(t, edits), NEW kind PROVE Offers(t, <<[kind |-> kind, edits |-> edits]>>)
<1> DEFINE x == [kind |-> kind, edits |-> edits]
<1>1. x.edits = edits
  OBVIOUS
<1> HIDE DEF x
<1>2. <<x>> \in Seq({x}) /\ Len(<<x>>) = 1 /\ <<x>>[1] = x
  OBVIOUS
<1>3. IsSeq(<<x>>)
  BY <1>2, SeqIsSeq
<1>4. \A i \in 1..1 : i = 1
  OBVIOUS
<1> QED BY <1>1, <1>2, <1>3, <1>4 DEF Offers, x

LEMMA OfferBoth == ASSUME NEW t, NEW p, Offers(t, p), NEW q, Offers(t, q) PROVE Offers(t, p \o q)
<1>1. IsSeq(p) /\ IsSeq(q)
  BY DEF Offers
<1>2. IsSeq(p \o q) /\ Len(p \o q) = Len(p) + Len(q) /\ Len(p) \in Nat /\ Len(q) \in Nat
  BY <1>1, ConcatIs
<1>3. \A i \in 1..(Len(p) + Len(q)) : (p \o q)[i] = IF i <= Len(p) THEN p[i] ELSE q[i - Len(p)]
  BY <1>1, ConcatIs
<1>4. ASSUME NEW i \in 1..(Len(p) + Len(q)) PROVE IF i <= Len(p) THEN i \in 1..Len(p) ELSE i - Len(p) \in 1..Len(q)
  BY <1>2
<1>5. ASSUME NEW i \in 1..(Len(p) + Len(q)) PROVE Proposes(t, (p \o q)[i].edits)
  BY <1>3, <1>4 DEF Offers
<1> QED BY <1>2, <1>5 DEF Offers

\* The analyses keep what the code actions need.
FixesApart == \A lang, t : Clean(t) => Applicable(t, Diagnose(lang, t))
PrettyTexts == \A t : Clean(t) => Printable(Pretty(t))

LEMMA ActionsPropose ==
    ASSUME FixesApart, PrettyTexts, NEW doc, Clean(doc.text), NEW range, NEW only
    PROVE  Offers(doc.text, actions(doc, range, only))
<1> DEFINE t == doc.text
           diags == Diagnose(doc.lang, t)
           fixable == {i \in 1..Len(diags) : diags[i].edits # <<>>}
           here == {i \in fixable : Overlaps(byte_range(t, diags[i].from, diags[i].to), range)}
           at == Ascending(here)
           quick == IF ~kind_wanted(only, "quickfix") THEN <<>>
                    ELSE [k \in 1..Len(at) |-> [kind |-> "quickfix", edits |-> WireEdits(t, diags[at[k]].edits)]]
           edits(wanted) == Sorted(WireEdits(t, Fixes(diags, wanted)))
           twin(wanted) == kind_wanted(only, "quickfix") /\ Cardinality(wanted) > 1 /\ here \cap wanted # {}
           aggregate(kind, wanted) ==
               IF edits(wanted) = <<>> THEN <<>>
               ELSE (IF twin(wanted) THEN <<[kind |-> "quickfix", edits |-> edits(wanted)]>> ELSE <<>>)
                    \o (IF kind_wanted(only, kind) THEN <<[kind |-> kind, edits |-> edits(wanted)]>> ELSE <<>>)
           pretty == IF doc.lang = "turtle" /\ kind_wanted(only, "source.prettyPrint") THEN Pretty(t) ELSE <<>>
           unused == {i \in fixable : diags[i].kind = "unused"}
           print == IF pretty \in {<<>>, <<t>>} THEN <<>>
                    ELSE <<[kind |-> "source.prettyPrint", edits |-> <<whole_doc_edit(t, pretty[1])>>]>>
<1>1. actions(doc, range, only) = quick \o aggregate("source.removeUnusedImports", unused)
                                  \o aggregate("source.fixAll", fixable) \o print
  BY DEF actions
<1>2. Applicable(t, diags)
  BY DEF FixesApart
<1>3. (\A i \in fixable : i \in 1..Len(diags)) /\ (\A i \in here : i \in 1..Len(diags)) /\ \A i \in unused : i \in 1..Len(diags)
  OBVIOUS
<1> HIDE DEF diags, fixable, here, unused
<1>4. Offers(t, quick)
  <2>1. CASE ~kind_wanted(only, "quickfix")
    BY <2>1, OfferNothing
  <2>2. CASE kind_wanted(only, "quickfix")
    <3>1. Len(at) \in Nat /\ \A k \in 1..Len(at) : at[k] \in 1..Len(diags)
      <4>1. PICK n \in Nat : n = Len(diags)
        BY <1>2 DEF Applicable, IsSeq
      <4>2. Len(at) = Cardinality(here) /\ Cardinality(here) \in Nat /\ \A k \in 1..Cardinality(here) : at[k] \in here
        BY <1>3, <4>1, AscendingIs
      <4> QED BY <1>3, <4>2
    <3> HIDE DEF at
    <3>2. quick = [k \in 1..Len(at) |-> [kind |-> "quickfix", edits |-> WireEdits(t, diags[at[k]].edits)]]
      BY <2>2
    <3> HIDE DEF quick
    <3>3. quick = [k \in 1..Len(at) |-> quick[k]] /\ \A k \in 1..Len(at) : quick[k].edits = WireEdits(t, diags[at[k]].edits)
      BY <3>2
    <3>4. IsSeq(quick) /\ Len(quick) = Len(at)
      BY <3>1, <3>3, FunctionIsSeq
    <3>5. ASSUME NEW k \in 1..Len(at) PROVE Proposes(t, quick[k].edits)
      <4>1. Editing(t, diags[at[k]].edits)
        BY <1>2, <3>1, DiagnosticEditing
      <4> QED BY <3>3, <4>1 DEF Proposes
    <3> QED BY <3>4, <3>5 DEF Offers
  <2> QED BY <2>1, <2>2
<1> HIDE DEF quick
<1>5. ASSUME NEW kind, NEW wanted, \A i \in wanted : i \in 1..Len(diags) PROVE Offers(t, aggregate(kind, wanted))
  <2>1. Proposes(t, edits(wanted))
    <3>1. Editing(t, Fixes(diags, wanted))
      BY <1>2, <1>5, FixesEditing
    <3> QED BY <3>1, SortedEditing
  <2> HIDE DEF edits, twin
  <2>2. \A k : Offers(t, <<[kind |-> k, edits |-> edits(wanted)]>>)
    BY <2>1, OfferOne
  <2>3. Offers(t, <<>>)
    BY OfferNothing
  <2>4. \A p, q : Offers(t, p) /\ Offers(t, q) => Offers(t, p \o q)
    BY OfferBoth
  <2>5. Offers(t, IF twin(wanted) THEN <<[kind |-> "quickfix", edits |-> edits(wanted)]>> ELSE <<>>)
    BY <2>2, <2>3
  <2>6. Offers(t, IF kind_wanted(only, kind) THEN <<[kind |-> kind, edits |-> edits(wanted)]>> ELSE <<>>)
    BY <2>2, <2>3
  <2> QED BY <2>3, <2>4, <2>5, <2>6
<1> HIDE DEF aggregate
<1>6. Offers(t, print)
  <2>1. CASE pretty \in {<<>>, <<t>>}
    BY <2>1, OfferNothing
  <2>2. CASE pretty \notin {<<>>, <<t>>}
    <3>1. pretty # <<>> /\ pretty = Pretty(t)
      BY <2>2
    <3>2. Clean(pretty[1])
      BY <3>1 DEF PrettyTexts, Printable
    <3>3. Proposes(t, <<whole_doc_edit(t, pretty[1])>>)
      BY <3>2, WholeEditing
    <3>4. print = <<[kind |-> "source.prettyPrint", edits |-> <<whole_doc_edit(t, pretty[1])>>]>>
      BY <2>2
    <3> HIDE DEF print, pretty
    <3> QED BY <3>3, <3>4, OfferOne
  <2> QED BY <2>1, <2>2
<1> HIDE DEF print
<1>7. Offers(t, aggregate("source.removeUnusedImports", unused)) /\ Offers(t, aggregate("source.fixAll", fixable))
  BY <1>3, <1>5
<1>8. Offers(t, quick \o aggregate("source.removeUnusedImports", unused))
  BY <1>4, <1>7, OfferBoth
<1>9. Offers(t, quick \o aggregate("source.removeUnusedImports", unused) \o aggregate("source.fixAll", fixable))
  BY <1>7, <1>8, OfferBoth
<1> QED BY <1>1, <1>6, <1>9, OfferBoth

-----------------------------------------------------------------------------
(* The texts of the two sides.                                             *)

Document(doc) ==
    /\ doc = [open |-> doc.open, lang |-> doc.lang, text |-> doc.text, version |-> doc.version]
    /\ Clean(doc.text)
Documents(d) == d = [u \in Uri |-> d[u]] /\ \A u \in Uri : Document(d[u])

\* What a message does to the documents, taken in turn.
Taken(m, d) ==
    CASE m.kind = "open" -> [d EXCEPT ![m.uri] = [open |-> TRUE, lang |-> m.lang, text |-> m.text, version |-> m.version]]
      [] m.kind = "change" ->
           IF ~d[m.uri].open THEN d
           ELSE [d EXCEPT ![m.uri] = [d[m.uri] EXCEPT !.text = applied(@, m.changes), !.version = m.version]]
      [] m.kind = "close" -> [d EXCEPT ![m.uri] = Closed]
      [] OTHER -> d

\* A request is about the document the server has when it comes to it.
Concerns(m, d, k) ==
    m.id \in 1..Len(k) /\ m.uri \in Uri /\ k[m.id].uri = m.uri /\ k[m.id].doc = d[m.uri]
Chain(D, q, k) ==
    /\ \A i \in 0..Len(q) : Documents(D[i])
    /\ \A i \in 1..Len(q) : D[i] = Taken(q[i], D[i - 1]) /\ (q[i].kind = "request" => Concerns(q[i], D[i - 1], k))
\* The edits of an answer are edits of the text that was asked about.
Usable(m, k) ==
    /\ m.kind \in {"edits", "actions"} => m.id \in 1..Len(k) /\ k[m.id].uri \in Uri /\ Clean(k[m.id].doc.text)
    /\ m.kind = "edits" /\ m.body # <<>> => Proposes(k[m.id].doc.text, m.body)
    /\ m.kind = "actions" => Offers(k[m.id].doc.text, m.body)

AskedInv ==
    \A k \in 1..Len(asked) :
        LET a == asked[k]
        IN a = [method |-> a.method, uri |-> a.uri, doc |-> a.doc, quoted |-> a.quoted, got |-> a.got]
\* The server's documents become the client's as the messages under way are
\* taken.
SyncInv ==
    /\ \E D : D[0] = docs /\ D[Len(c2s)] = copy /\ Chain(D, c2s, asked)
    /\ \A j \in 1..Len(s2c) : Usable(s2c[j], asked)

\* What was asked stays.
Keeps(k, l) ==
    /\ Len(k) \in Nat /\ Len(l) \in Nat /\ Len(k) <= Len(l)
    /\ \A i \in 1..Len(k) : l[i].uri = k[i].uri /\ l[i].doc = k[i].doc /\ l[i].quoted = k[i].quoted

LEMMA KeepsChain == ASSUME NEW D, NEW q, NEW k, NEW l, Chain(D, q, k), Keeps(k, l) PROVE Chain(D, q, l)
<1>1. \A i \in 1..Len(k) : i \in 1..Len(l)
  BY DEF Keeps
<1>2. \A m, d : Concerns(m, d, k) => Concerns(m, d, l)
  BY <1>1 DEF Concerns, Keeps
<1> QED BY <1>2 DEF Chain

LEMMA KeepsUsable == ASSUME NEW m, NEW k, NEW l, Usable(m, k), Keeps(k, l) PROVE Usable(m, l)
<1>1. \A i \in 1..Len(k) : i \in 1..Len(l)
  BY DEF Keeps
<1> QED BY <1>1 DEF Usable, Keeps

LEMMA Extends ==
    ASSUME NEW D, IsSeq(c2s), D[Len(c2s)] = copy, Chain(D, c2s, asked), Keeps(asked, asked'),
           NEW m, c2s' = Append(c2s, m), copy' = Taken(m, copy), Documents(copy'),
           m.kind = "request" => Concerns(m, copy, asked')
    PROVE  \E E : E[0] = D[0] /\ E[Len(c2s')] = copy' /\ Chain(E, c2s', asked')
<1>1. PICK n \in Nat : n = Len(c2s)
  BY DEF IsSeq
<1>2. Len(c2s') = n + 1 /\ c2s'[n + 1] = m /\ \A i \in 1..n : c2s'[i] = c2s[i]
  BY <1>1, AppendIsSeq
<1>3. Chain(D, c2s, asked')
  BY KeepsChain
<1>4. PICK new : new = copy'
  OBVIOUS
<1> DEFINE E == [i \in 0..(n + 1) |-> IF i <= n THEN D[i] ELSE new]
<1>5. (\A i \in 0..n : E[i] = D[i]) /\ E[n + 1] = new
  OBVIOUS
<1> HIDE DEF E
<1>6. \A i \in 0..(n + 1) : i \in 0..n \/ i = n + 1
  OBVIOUS
<1>7. \A i \in 1..(n + 1) : i - 1 \in 0..n /\ (i \in 1..n \/ i = n + 1)
  OBVIOUS
<1>8. \A i \in 0..(n + 1) : Documents(E[i])
  BY <1>1, <1>3, <1>4, <1>5, <1>6 DEF Chain
<1>9. ASSUME NEW i \in 1..n
      PROVE  E[i] = Taken(c2s'[i], E[i - 1]) /\ (c2s'[i].kind = "request" => Concerns(c2s'[i], E[i - 1], asked'))
  <2>1. i \in 0..n /\ i - 1 \in 0..n
    OBVIOUS
  <2>2. E[i] = D[i] /\ E[i - 1] = D[i - 1] /\ c2s'[i] = c2s[i]
    BY <1>2, <1>5, <2>1
  <2> QED BY <1>1, <1>3, <2>2 DEF Chain
<1>10. E[n + 1] = Taken(c2s'[n + 1], E[(n + 1) - 1])
       /\ (c2s'[n + 1].kind = "request" => Concerns(c2s'[n + 1], E[(n + 1) - 1], asked'))
  <2>1. (n + 1) - 1 = n /\ n \in 0..n
    OBVIOUS
  <2> QED BY <1>1, <1>2, <1>4, <1>5, <2>1
<1>11. Chain(E, c2s', asked')
  BY <1>2, <1>7, <1>8, <1>9, <1>10 DEF Chain
<1>12. E[0] = D[0] /\ E[Len(c2s')] = copy'
  <2>1. 0 \in 0..n
    OBVIOUS
  <2> QED BY <1>2, <1>4, <1>5, <2>1
<1> QED BY <1>11, <1>12

LEMMA Shifts ==
    ASSUME NEW D, IsSeq(c2s), c2s # <<>>, D[0] = docs, D[Len(c2s)] = copy, Chain(D, c2s, asked),
           c2s' = Tail(c2s), docs' = Taken(Head(c2s), docs), copy' = copy, asked' = asked
    PROVE  /\ \E E : E[0] = docs' /\ E[Len(c2s')] = copy' /\ Chain(E, c2s', asked')
           /\ Documents(docs) /\ (Head(c2s).kind = "request" => Concerns(Head(c2s), docs, asked))
<1>1. PICK n \in Nat : Len(c2s) = n + 1
  <2>1. Len(c2s) \in Nat \ {0}
    BY TailIsSeq
  <2>2. Len(c2s) - 1 \in Nat /\ Len(c2s) = (Len(c2s) - 1) + 1
    BY <2>1, SMTT(40)
  <2> QED BY <2>2
<1>2. Len(c2s') = n /\ Head(c2s) = c2s[1] /\ \A i \in 1..n : c2s'[i] = c2s[i + 1]
  <2>1. Len(Tail(c2s)) = Len(c2s) - 1 /\ Head(c2s) = c2s[1] /\ \A i \in 1..Len(Tail(c2s)) : Tail(c2s)[i] = c2s[i + 1]
    BY TailIsSeq
  <2>2. Len(Tail(c2s)) = n
    BY <1>1, <2>1
  <2> QED BY <2>1, <2>2, Zenon
<1>3. /\ \A i \in 0..(n + 1) : Documents(D[i])
      /\ \A i \in 1..(n + 1) : D[i] = Taken(c2s[i], D[i - 1]) /\ (c2s[i].kind = "request" => Concerns(c2s[i], D[i - 1], asked))
  BY <1>1 DEF Chain
<1> DEFINE E == [i \in 0..n |-> D[i + 1]]
<1>4. \A i \in 0..n : E[i] = D[i + 1] /\ i + 1 \in 0..(n + 1)
  OBVIOUS
<1> HIDE DEF E
<1>5. ASSUME NEW i \in 1..n
      PROVE  E[i] = Taken(c2s'[i], E[i - 1]) /\ (c2s'[i].kind = "request" => Concerns(c2s'[i], E[i - 1], asked))
  <2>1. i \in 0..n /\ i - 1 \in 0..n /\ (i - 1) + 1 = i /\ (i + 1) - 1 = i /\ i + 1 \in 1..(n + 1)
    OBVIOUS
  <2>2. E[i] = D[i + 1] /\ E[i - 1] = D[i] /\ c2s'[i] = c2s[i + 1]
    BY <1>2, <1>4, <2>1
  <2>3. D[i + 1] = Taken(c2s[i + 1], D[i]) /\ (c2s[i + 1].kind = "request" => Concerns(c2s[i + 1], D[i], asked))
    BY <1>3, <2>1
  <2> QED BY <2>2, <2>3
<1>6. Chain(E, c2s', asked)
  <2>1. \A i \in 0..n : Documents(E[i])
    BY <1>3, <1>4
  <2> QED BY <1>2, <1>5, <2>1 DEF Chain
<1>7. 1 \in 1..(n + 1) /\ 0 \in 0..n /\ n \in 0..n /\ 0 + 1 = 1 /\ 1 - 1 = 0 /\ 0 \in 0..(n + 1)
  OBVIOUS
<1>8. D[1] = Taken(c2s[1], D[0]) /\ (c2s[1].kind = "request" => Concerns(c2s[1], D[0], asked)) /\ Documents(D[0])
  BY <1>3, <1>7
<1>9. E[0] = docs'
  BY <1>2, <1>4, <1>7, <1>8
<1>10. E[n] = copy'
  BY <1>1, <1>4, <1>7
<1> QED BY <1>2, <1>6, <1>8, <1>9, <1>10, SMTT(40)

\* The server does to its documents what the message says.
LEMMA ServeTakes == ASSUME Serve PROVE docs' = Taken(Head(c2s), docs)
<1>1. PICK msg : msg = Head(c2s)
  OBVIOUS
<1>2. \/ msg.kind = "open" /\ DidOpen(msg)
      \/ msg.kind = "change" /\ DidChange(msg)
      \/ msg.kind = "close" /\ DidClose(msg)
      \/ msg.kind = "request" /\ handle_request(msg)
      \/ msg.kind = "shutdown" /\ ShutDown(msg)
  BY <1>1, Zenon DEF Serve
<1>3. CASE msg.kind = "open" /\ DidOpen(msg)
  BY <1>1, <1>3 DEF DidOpen, Taken
<1>4. CASE msg.kind = "change" /\ DidChange(msg)
  <2>1. CASE ~docs[msg.uri].open
    <3>1. docs' = docs
      BY <1>4, <2>1, Zenon DEF DidChange, svars
    <3> QED BY <1>1, <1>4, <2>1, <3>1 DEF Taken
  <2>2. CASE docs[msg.uri].open
    <3>1. docs' = [docs EXCEPT ![msg.uri] = [docs[msg.uri] EXCEPT !.text = applied(@, msg.changes), !.version = msg.version]]
      BY <1>4, <2>2, Zenon DEF DidChange
    <3> QED BY <1>1, <1>4, <2>2, <3>1 DEF Taken
  <2> QED BY <2>1, <2>2
<1>5. CASE msg.kind = "close" /\ DidClose(msg)
  BY <1>1, <1>5 DEF DidClose, Taken
<1>6. CASE msg.kind \in {"request", "shutdown"} /\ (handle_request(msg) \/ ShutDown(msg))
  <2>1. docs' = docs
    BY <1>6, RequestReads
  <2> QED BY <1>1, <1>6, <2>1 DEF Taken
<1> QED BY <1>2, <1>3, <1>4, <1>5, <1>6

\* Closed is a document.
LEMMA ClosedDocument == Document(Closed)
<1>1. Clean(<<>>)
  BY EmptyIds, EmptySeq DEF Clean
<1> QED BY <1>1 DEF Document, Closed

\* A document replaced.
LEMMA DocumentsExcept ==
    ASSUME NEW d, Documents(d), NEW u, u \in Uri, NEW doc, Document(doc)
    PROVE  Documents([d EXCEPT ![u] = doc])
<1> DEFINE e == [d EXCEPT ![u] = doc]
<1>1. e = [v \in Uri |-> e[v]] /\ e[u] = doc /\ \A v \in Uri : v # u => e[v] = d[v]
  BY DEF Documents
<1> HIDE DEF e
<1>2. \A v \in Uri : Document(e[v])
  BY <1>1 DEF Documents
<1> QED BY <1>1, <1>2 DEF Documents, e

LEMMA DocumentEdited ==
    ASSUME NEW doc, Document(doc), NEW text, Clean(text), NEW version
    PROVE  Document([doc EXCEPT !.text = text, !.version = version])
<1>1. PICK a, b, c, e : doc = [open |-> a, lang |-> b, text |-> c, version |-> e]
  BY DEF Document
<1>2. [doc EXCEPT !.text = text, !.version = version] = [open |-> a, lang |-> b, text |-> text, version |-> version]
  <2> DEFINE y == [doc EXCEPT !.text = text, !.version = version]
  <2>1. DOMAIN y = {"open", "lang", "text", "version"}
    BY <1>1
  <2>2. y.open = a /\ y.lang = b /\ y.text = text /\ y.version = version
    BY <1>1
  <2>3. y = [i \in DOMAIN y |-> y[i]]
    OBVIOUS
  <2> HIDE DEF y
  <2>4. y = [open |-> a, lang |-> b, text |-> text, version |-> version]
    BY <2>1, <2>2, <2>3
  <2> QED BY <2>4, Zenon DEF y
<1> QED BY <1>2 DEF Document

\* A change of the client's text that the notification repeats.
LEMMA ChangeTaken ==
    ASSUME NEW u, u \in Uri, Documents(copy), copy[u].open, NEW changes, NEW version, NEW text, Clean(text),
           text = applied(copy[u].text, changes),
           copy' = [copy EXCEPT ![u].text = text, ![u].version = version],
           NEW m, m = [kind |-> "change", uri |-> u, version |-> version, changes |-> changes]
    PROVE  copy' = Taken(m, copy) /\ Documents(copy') /\ m.kind = "change"
<1> DEFINE doc == [copy[u] EXCEPT !.text = text, !.version = version]
<1>1. copy' = [copy EXCEPT ![u] = doc]
  BY DEF Documents
<1>2. Document(doc)
  BY DocumentEdited DEF Documents
<1>3. doc = [copy[u] EXCEPT !.text = applied(@, changes), !.version = version]
  BY DEF Documents, Document
<1> HIDE DEF doc
<1>4. m.kind = "change" /\ m.uri = u /\ m.changes = changes /\ m.version = version
  OBVIOUS
<1>5. Taken(m, copy) = [copy EXCEPT ![u] = doc]
  BY <1>3, <1>4 DEF Taken
<1>6. Documents([copy EXCEPT ![u] = doc])
  BY <1>2, DocumentsExcept
<1> QED BY <1>1, <1>4, <1>5, <1>6

LEMMA AppliedOnce ==
    ASSUME NEW t, NEW c
    PROVE  applied(t, <<c>>) = apply(t, c)
<1> DEFINE q == <<c>>
<1>1. Len(q) = 1 /\ q[1] = c
  OBVIOUS
<1> HIDE DEF q
<1>2. PICK f : applied(t, q) = f[Len(q)] /\ \A i \in 0..Len(q) : f[i] = ApplyStep(t, q, f, i)
  <2>1. Len(q) \in Nat
    BY <1>1
  <2> QED BY <2>1, AppliedIs
<1>3. 0 \in 0..Len(q) /\ 1 \in 0..Len(q) /\ 1 # 0 /\ 1 - 1 = 0
  BY <1>1
<1>4. f[0] = t
  BY <1>2, <1>3 DEF ApplyStep
<1>5. f[1] = apply(f[0], q[1])
  BY <1>2, <1>3 DEF ApplyStep
<1> QED BY <1>1, <1>2, <1>4, <1>5 DEF q

LEMMA ReplaceTaken ==
    ASSUME NEW u, u \in Uri, Documents(copy), ReplaceText(u)
    PROVE  \E m : c2s' = Append(c2s, m) /\ copy' = Taken(m, copy) /\ Documents(copy') /\ m.kind = "change"
<1> DEFINE t == copy[u].text
<1>1. PICK e \in Edits :
        /\ {e.from, e.to} \subseteq Carets(t)
        /\ e.beyond > 0 => AtLineEnd(t, e.to)
        /\ copy' = [copy EXCEPT ![u].text = Splice(t, e.from, e.to, e.text), ![u].version = ops]
        /\ Post([kind |-> "change", uri |-> u, version |-> ops,
                 changes |-> <<[whole |-> FALSE, start |-> position(t, e.from), text |-> e.text,
                                end |-> [position(t, e.to) EXCEPT ![2] = @ + e.beyond]]>>])
  BY Zenon DEF ReplaceText
<1>2. copy[u].open
  BY Zenon DEF ReplaceText
<1>3. PICK f, g, b, x : f = e.from /\ g = e.to /\ b = e.beyond /\ x = e.text
  OBVIOUS
<1>4. f \in Nat /\ g \in Nat /\ f <= g /\ b \in Nat /\ Clean(x)
  BY <1>3, InputsAssumption DEF CleanInputs
<1>5. Clean(t) /\ IsSeq(t) /\ Len(t) \in Nat
  BY DEF Documents, Document, Clean, IsSeq
<1> HIDE DEF t
<1>6. f \in 0..Len(t) /\ NoCr(t, f) /\ g \in 0..Len(t) /\ NoCr(t, g) /\ g \in f..Len(t)
  <2>1. f \in Carets(t) /\ g \in Carets(t)
    BY <1>1, <1>3
  <2>2. f \in 0..Len(t) /\ NoCr(t, f) /\ g \in 0..Len(t) /\ NoCr(t, g)
    BY <1>5, <2>1, CaretIs
  <2> QED BY <1>4, <1>5, <2>2
<1> DEFINE c == [whole |-> FALSE, start |-> position(t, f), text |-> x, end |-> [position(t, g) EXCEPT ![2] = @ + b]]
<1>7. [position(t, g) EXCEPT ![2] = @ + b] = <<position(t, g)[1], position(t, g)[2] + b>>
  BY <1>5, <1>6, PositionIs
<1>8. ~c.whole /\ c.start = position(t, f) /\ c.text = x /\ c.end = <<position(t, g)[1], position(t, g)[2] + b>>
  BY <1>7
<1>9. c2s' = Append(c2s, [kind |-> "change", uri |-> u, version |-> ops, changes |-> <<c>>])
  BY <1>1, <1>3 DEF Post
<1> HIDE DEF c
<1>10. position_to_char(t, c.start) = f
  BY <1>5, <1>6, <1>8, PositionBack
<1>11. position_to_char(t, c.end) = g
  <2>1. b = 0 \/ (Clean(t) /\ AtLineEnd(t, g))
    BY <1>1, <1>3, <1>4, <1>5
  <2>2. g = 0 \/ t[g] # CR
    BY <1>6 DEF NoCr
  <2>3. position_to_char(t, <<position(t, g)[1], position(t, g)[2] + b>>) = g
    BY <1>4, <1>5, <1>6, <2>1, <2>2, PositionReadBack
  <2> QED BY <1>8, <2>3
<1>12. apply(t, c) = Splice(t, f, g, x)
  BY <1>4, <1>8, <1>10, <1>11 DEF apply
<1>13. Clean(Splice(t, f, g, x))
  BY <1>4, <1>5, <1>6, SpliceClean
<1>14. applied(t, <<c>>) = Splice(t, f, g, x)
  BY <1>12, AppliedOnce
<1>15. copy' = [copy EXCEPT ![u].text = Splice(t, f, g, x), ![u].version = ops]
  BY <1>1, <1>3
<1> DEFINE m == [kind |-> "change", uri |-> u, version |-> ops, changes |-> <<c>>]
<1>16. copy' = Taken(m, copy) /\ Documents(copy') /\ m.kind = "change"
  BY <1>2, <1>13, <1>14, <1>15, ChangeTaken DEF t
<1> HIDE DEF m
<1> QED BY <1>9, <1>16 DEF m

\* A workspace edit taken by both.
LEMMA EditsTaken ==
    ASSUME NEW u, u \in Uri, Documents(copy), copy[u].open, NEW edits, Proposes(copy[u].text, edits), NEW all,
           ApplyEdits(u, edits, all)
    PROVE  \E m : c2s' = Append(c2s, m) /\ copy' = Taken(m, copy) /\ Documents(copy') /\ m.kind = "change"
<1> DEFINE t == copy[u].text
           changes == [i \in 1..Len(edits) |->
                         LET e == LastFirst(edits)[i]
                         IN [whole |-> FALSE, start |-> e.start, end |-> e.end, text |-> e.text]]
<1>1. Clean(t)
  BY DEF Documents, Document
<1>2. /\ copy' = [copy EXCEPT ![u].text = EditText(t, edits), ![u].version = ops]
      /\ c2s' = Append(c2s, [kind |-> "change", uri |-> u, version |-> ops, changes |-> changes])
  BY DEF ApplyEdits
<1>3. PICK E : Editing(t, E) /\ edits = WireEdits(t, E)
  BY DEF Proposes
<1> HIDE DEF t
<1>4. Len(edits) = Len(E) /\ Len(E) \in Nat
  BY <1>1, <1>3, LastFirstIs DEF Editing, IsSeq
<1>5. PICK F : /\ IsSeq(F) /\ Len(F) = Len(E) /\ Len(LastFirst(edits)) = Len(E)
               /\ \A i \in 1..Len(F) : Fits(t, F[i]) /\ LastFirst(edits)[i] = Wire(t, F[i])
               /\ Descending(F)
  BY <1>1, <1>3, LastFirstIs DEF Editing
<1>6. Len(changes) = Len(F)
  <2>1. changes = [i \in 1..Len(edits) |-> changes[i]] /\ Len(edits) \in Nat
    BY <1>4
  <2> HIDE DEF changes
  <2> QED BY <1>4, <1>5, <2>1, FunctionIsSeq
<1>7. \A i \in 1..Len(F) : changes[i] = [whole |-> FALSE, start |-> LastFirst(edits)[i].start,
                                         end |-> LastFirst(edits)[i].end, text |-> LastFirst(edits)[i].text]
  BY <1>4, <1>5
<1> HIDE DEF changes
<1>8. applied(t, changes) = EditText(t, edits) /\ Clean(EditText(t, edits))
  BY <1>1, <1>5, <1>6, <1>7, EditsMeet
<1> DEFINE m == [kind |-> "change", uri |-> u, version |-> ops, changes |-> changes]
<1>9. copy' = Taken(m, copy) /\ Documents(copy') /\ m.kind = "change"
  BY <1>2, <1>8, ChangeTaken DEF t
<1> HIDE DEF m
<1> QED BY <1>2, <1>9 DEF m

LEMMA SameKept == ASSUME NEW q, IsSeq(q) PROVE Keeps(q, q)
BY DEF Keeps, IsSeq

\* A request once made is kept as it was made.
LEMMA AskedKept == ASSUME AnswerInv, AskedInv, [Next]_vars PROVE AskedInv' /\ Keeps(asked, asked')
<1>1. CASE asked' = asked
  BY <1>1, SameKept DEF AskedInv, AnswerInv
<1>2. ASSUME NEW a, asked' = Append(asked, a),
             a = [method |-> a.method, uri |-> a.uri, doc |-> a.doc, quoted |-> a.quoted, got |-> a.got]
      PROVE  AskedInv' /\ Keeps(asked, asked')
  <2>1. /\ Len(asked') = Len(asked) + 1 /\ Len(asked) \in Nat /\ asked'[Len(asked) + 1] = a
        /\ \A i \in 1..Len(asked) : asked'[i] = asked[i]
    BY <1>2, AppendIsSeq DEF AnswerInv
  <2>2. \A k \in 1..Len(asked') : k \in 1..Len(asked) \/ k = Len(asked) + 1
    BY <2>1
  <2>3. AskedInv'
    BY <1>2, <2>1, <2>2 DEF AskedInv
  <2> QED BY <2>1, <2>3 DEF Keeps
<1>3. CASE \E u \in Uri : Request(u)
  <2>1. PICK ask, u, id, data : asked' = Append(asked, [method |-> ask, uri |-> u, doc |-> id, quoted |-> data, got |-> 0])
    BY <1>3, Zenon DEF Request
  <2> DEFINE a == [method |-> ask, uri |-> u, doc |-> id, quoted |-> data, got |-> 0]
  <2>2. a = [method |-> a.method, uri |-> a.uri, doc |-> a.doc, quoted |-> a.quoted, got |-> a.got]
    OBVIOUS
  <2> HIDE DEF a
  <2> QED BY <1>2, <2>1, <2>2 DEF a
<1>4. CASE Shutdown
  <2> DEFINE a == [method |-> "shutdown", uri |-> CHOOSE u \in Uri : TRUE, doc |-> Closed, quoted |-> <<>>, got |-> 0]
  <2>1. asked' = Append(asked, a)
    BY <1>4, Zenon DEF Shutdown
  <2>2. a = [method |-> a.method, uri |-> a.uri, doc |-> a.doc, quoted |-> a.quoted, got |-> a.got]
    OBVIOUS
  <2> HIDE DEF a
  <2> QED BY <1>2, <2>1, <2>2
<1>5. CASE Receive
  <2>1. PICK msg : msg = Head(s2c) /\ (ReceiveDiagnostics(msg) \/ ReceiveResponse(msg))
    BY <1>5, Zenon DEF Receive
  <2>2. CASE ReceiveDiagnostics(msg)
    BY <1>1, <2>2, Zenon DEF ReceiveDiagnostics
  <2>3. CASE ReceiveResponse(msg)
    <3>1. asked' = [asked EXCEPT ![msg.id].got = @ + 1]
      BY <2>3, Zenon DEF ReceiveResponse
    <3>2. s2c # <<>> /\ msg.kind \in Answers
      <4>1. s2c # <<>> /\ msg.kind # "diagnostics"
        BY <1>5, <2>3, Zenon DEF Receive, ReceiveResponse
      <4>2. msg.kind \in Answers \cup {"diagnostics"}
        <5> DEFINE K == Answers \cup {"diagnostics"}
        <5>1. IsSeq(s2c) /\ \A j \in 1..Len(s2c) : s2c[j].kind \in K
          BY DEF AnswerInv
        <5> HIDE DEF K
        <5>2. msg.kind \in K
          BY <2>1, <4>1, <5>1, SentKinds
        <5> QED BY <5>2 DEF K
      <4> QED BY <4>1, <4>2
    <3>3. msg.id \in 1..Len(asked)
      <4>1. msg.id \in Answering
        BY <2>1, <3>2, TakeIds DEF AnswerInv, Answering
      <4> QED BY <4>1 DEF AnswerInv, Unanswered
    <3>4. PICK id \in 1..Len(asked) : id = msg.id
      BY <3>3
    <3>5. DOMAIN asked = 1..Len(asked) /\ Len(asked) \in Nat
      BY LenProperties DEF AnswerInv, IsSeq
    <3>6. PICK b : b = [asked[id] EXCEPT !.got = @ + 1]
      OBVIOUS
    <3>7. PICK v, w, x, y, z : asked[id] = [method |-> v, uri |-> w, doc |-> x, quoted |-> y, got |-> z]
      BY DEF AskedInv
    <3>8. b = [method |-> v, uri |-> w, doc |-> x, quoted |-> y, got |-> z + 1]
      BY <3>6, <3>7
    <3>9. /\ b = [method |-> b.method, uri |-> b.uri, doc |-> b.doc, quoted |-> b.quoted, got |-> b.got]
          /\ b.uri = w /\ b.doc = x /\ b.quoted = y
      BY <3>8
    <3>10. asked[id].uri = w /\ asked[id].doc = x /\ asked[id].quoted = y
      BY <3>7
    <3>11. asked' = [asked EXCEPT ![id] = b]
      BY <3>1, <3>4, <3>6
    <3>12. Len(asked') = Len(asked)
      <4> DEFINE S == {asked[i] : i \in 1..Len(asked)} \cup {b}
      <4>1. asked \in Seq(S) /\ b \in S
        BY SeqMonotonic DEF AnswerInv, IsSeq
      <4> HIDE DEF S
      <4> QED BY <3>11, <4>1, ExceptSeq
    <3>13. asked'[id] = b /\ \A k \in 1..Len(asked) : k # id => asked'[k] = asked[k]
      BY <3>5, <3>11
    <3>14. AskedInv'
      <4>1. ASSUME NEW k \in 1..Len(asked)
            PROVE  asked'[k] = [method |-> asked'[k].method, uri |-> asked'[k].uri, doc |-> asked'[k].doc,
                                quoted |-> asked'[k].quoted, got |-> asked'[k].got]
        <5>1. CASE k = id
          BY <3>9, <3>13, <5>1
        <5>2. CASE k # id
          BY <3>13, <5>2 DEF AskedInv
        <5> QED BY <5>1, <5>2
      <4> QED BY <3>12, <4>1 DEF AskedInv
    <3>15. \A i \in 1..Len(asked) : asked'[i].uri = asked[i].uri /\ asked'[i].doc = asked[i].doc /\ asked'[i].quoted = asked[i].quoted
      BY <3>9, <3>10, <3>13
    <3> QED BY <3>5, <3>12, <3>14, <3>15 DEF Keeps
  <2> QED BY <2>1, <2>2, <2>3
<1>6. asked' = asked \/ (\E u \in Uri : Request(u)) \/ Shutdown \/ Receive
  BY Zenon DEF Next, Serve, OpenDocument, CloseDocument, ReplaceText, vars, cvars
<1> QED BY <1>1, <1>3, <1>4, <1>5, <1>6

LEMMA PlainUsable == ASSUME NEW id, NEW kind, kind \notin {"edits", "actions"}, NEW body, NEW k
                     PROVE  \E x : respond(id, kind, body) = <<x>> /\ Usable(x, k)
<1> DEFINE x == [kind |-> kind, id |-> id, body |-> body]
<1>1. respond(id, kind, body) = <<x>> /\ x.kind = kind
  BY DEF respond
<1> HIDE DEF x
<1>2. Usable(x, k)
  BY <1>1 DEF Usable
<1> QED BY <1>1, <1>2

\* The answers that carry edits carry them for the text that was asked about.
LEMMA RequestUsable ==
    ASSUME FixesApart, PrettyTexts, Documents(docs), NEW msg, Concerns(msg, docs, asked), handle_request(msg)
    PROVE  \E x : s2c' = s2c \o <<x>> /\ Usable(x, asked)
<1> DEFINE Good(out) == \E x : out = <<x>> /\ Usable(x, asked)
<1>1. \A kind, body : kind \notin {"edits", "actions"} => Good(respond(msg.id, kind, body))
  BY PlainUsable
<1>2. Good(NotOpen(msg.id)) /\ Good(FullTokens(msg))
  BY <1>1 DEF NotOpen, FullTokens
<1>3. PICK doc : doc = docs[msg.uri] /\ Document(doc) /\ asked[msg.id].doc = doc /\ asked[msg.id].uri \in Uri /\ msg.id \in 1..Len(asked)
  BY DEF Concerns, Documents
<1>4. Clean(doc.text)
  BY <1>3 DEF Document
<1>5. \A out : s2c' = s2c \o out /\ Good(out) => \E x : s2c' = s2c \o <<x>> /\ Usable(x, asked)
  OBVIOUS
<1>6. CASE InvalidParams(msg)
  <2>1. s2c' = s2c \o respond(msg.id, "error", <<"InvalidParams">>)
    BY <1>6 DEF InvalidParams, Send
  <2> HIDE DEF Good
  <2> QED BY <1>1, <1>5, <2>1
<1>7. CASE SemanticTokensFull(msg)
  <2>1. s2c' = s2c \o NotOpen(msg.id) \/ s2c' = s2c \o FullTokens(msg)
    BY <1>7, Zenon DEF SemanticTokensFull, HandOut, Send
  <2> HIDE DEF Good
  <2> QED BY <1>2, <1>5, <2>1
<1>8. CASE SemanticTokensFullDelta(msg)
  <2>1. PICK body : \/ s2c' = s2c \o NotOpen(msg.id) \/ s2c' = s2c \o FullTokens(msg)
                    \/ s2c' = s2c \o respond(msg.id, "delta", body)
    <3> DEFINE body == [id |-> Tokens(msg).id,
                        edits |-> IF tokens[msg.uri].data = Tokens(msg).data THEN <<>>
                                  ELSE <<token_edit(tokens[msg.uri].data, Tokens(msg).data)>>]
               full == tokens[msg.uri].id = 0 \/ tokens[msg.uri].id # msg.previous
               answer == IF full THEN FullTokens(msg) ELSE respond(msg.id, "delta", body)
    <3>1. HandOut(msg, answer)
      BY <1>8 DEF SemanticTokensFullDelta
    <3>2. answer = FullTokens(msg) \/ answer = respond(msg.id, "delta", body)
      <4> HIDE DEF body, full
      <4> QED OBVIOUS
    <3> HIDE DEF answer, body
    <3>3. s2c' = s2c \o NotOpen(msg.id) \/ s2c' = s2c \o answer
      BY <3>1, Zenon DEF HandOut, Send
    <3> QED BY <3>2, <3>3
  <2> HIDE DEF Good
  <2> QED BY <1>1, <1>2, <1>5, <2>1
<1>9. CASE Read(msg)
  <2>1. s2c' = s2c \o NotOpen(msg.id) \/ \E body : s2c' = s2c \o respond(msg.id, "read", body)
    BY <1>9, Zenon DEF Read, Send
  <2> HIDE DEF Good
  <2> QED BY <1>1, <1>2, <1>5, <2>1
<1>10. CASE Formatting(msg)
  <2> DEFINE new == Pretty(doc.text)
             body == IF new[1] = doc.text THEN <<>> ELSE <<whole_doc_edit(doc.text, new[1])>>
  <2>1. s2c' = s2c \o (IF ~doc.open \/ doc.lang # "turtle" \/ new = <<>> THEN NotOpen(msg.id)
                       ELSE respond(msg.id, "edits", body))
    BY <1>3, <1>10, Zenon DEF Formatting, Send
  <2>2. CASE ~doc.open \/ doc.lang # "turtle" \/ new = <<>>
    <3> HIDE DEF Good
    <3> QED BY <1>2, <1>5, <2>1, <2>2
  <2>3. CASE ~(~doc.open \/ doc.lang # "turtle" \/ new = <<>>)
    <3>1. Clean(new[1])
      BY <1>4, <2>3 DEF PrettyTexts, Printable
    <3>2. Proposes(doc.text, <<whole_doc_edit(doc.text, new[1])>>)
      BY <1>4, <3>1, WholeEditing
    <3>3. body # <<>> => Proposes(doc.text, body)
      BY <3>2
    <3> DEFINE x == [kind |-> "edits", id |-> msg.id, body |-> body]
    <3>4. s2c' = s2c \o <<x>>
      BY <2>1, <2>3 DEF respond
    <3>5. x.kind = "edits" /\ x.id = msg.id /\ x.body = body
      OBVIOUS
    <3> HIDE DEF x, body
    <3>6. Usable(x, asked)
      BY <1>3, <1>4, <3>3, <3>5 DEF Usable
    <3> QED BY <3>4, <3>6
  <2> QED BY <2>2, <2>3, ZenonT(40)
<1>11. CASE CodeAction(msg)
  <2> DEFINE body == actions(doc, msg.range, msg.only)
  <2>1. s2c' = s2c \o (IF doc.open THEN respond(msg.id, "actions", body) ELSE NotOpen(msg.id))
    BY <1>3, <1>11 DEF CodeAction, Send
  <2>2. CASE ~doc.open
    <3> HIDE DEF Good, body
    <3> QED BY <1>2, <1>5, <2>1, <2>2
  <2>3. CASE doc.open
    <3>1. Offers(doc.text, body)
      BY <1>4, ActionsPropose
    <3> HIDE DEF body
    <3> DEFINE x == [kind |-> "actions", id |-> msg.id, body |-> body]
    <3>2. s2c' = s2c \o <<x>>
      BY <2>1, <2>3 DEF respond
    <3>3. x.kind = "actions" /\ x.id = msg.id /\ x.body = body
      OBVIOUS
    <3> HIDE DEF x
    <3>4. Usable(x, asked)
      BY <1>3, <1>4, <3>1, <3>3 DEF Usable
    <3> QED BY <3>2, <3>4
  <2> QED BY <2>2, <2>3
<1>12. CASE Send(respond(msg.id, "error", <<"MethodNotFound">>))
  <2>1. s2c' = s2c \o respond(msg.id, "error", <<"MethodNotFound">>)
    BY <1>12 DEF Send
  <2> HIDE DEF Good
  <2> QED BY <1>1, <1>5, <2>1
<1> QED BY <1>6, <1>7, <1>8, <1>9, <1>10, <1>11, <1>12 DEF handle_request

\* Usable answers, as one is sent or taken.
LEMMA UsableSent ==
    ASSUME IsSeq(s2c), \A j \in 1..Len(s2c) : Usable(s2c[j], asked), NEW x, s2c' = s2c \o <<x>>, Usable(x, asked), asked' = asked
    PROVE  \A j \in 1..Len(s2c') : Usable(s2c'[j], asked')
<1>1. /\ Len(s2c') = Len(s2c) + 1 /\ Len(s2c) \in Nat /\ s2c'[Len(s2c) + 1] = x
      /\ \A i \in 1..Len(s2c) : s2c'[i] = s2c[i]
  BY SendIsAppend, AppendIsSeq
<1>2. \A j \in 1..Len(s2c') : j \in 1..Len(s2c) \/ j = Len(s2c) + 1
  BY <1>1
<1> QED BY <1>1, <1>2

LEMMA UsableReceived ==
    ASSUME IsSeq(s2c), s2c # <<>>, \A j \in 1..Len(s2c) : Usable(s2c[j], asked), s2c' = Tail(s2c), Keeps(asked, asked')
    PROVE  Usable(Head(s2c), asked) /\ \A j \in 1..Len(s2c') : Usable(s2c'[j], asked')
<1>1. /\ Len(s2c) \in Nat \ {0} /\ Len(s2c') = Len(s2c) - 1 /\ Head(s2c) = s2c[1]
      /\ \A i \in 1..Len(s2c') : s2c'[i] = s2c[i + 1]
  BY TailIsSeq
<1>2. 1 \in 1..Len(s2c) /\ \A i \in 1..Len(s2c') : i + 1 \in 1..Len(s2c)
  BY <1>1
<1>3. \A i \in 1..Len(s2c) : Usable(s2c[i], asked')
  BY KeepsUsable
<1> QED BY <1>1, <1>2, <1>3

LEMMA SyncServe == ASSUME FixesApart, PrettyTexts, AnswerInv, SyncInv, Serve PROVE SyncInv'
<1>1. PICK D : D[0] = docs /\ D[Len(c2s)] = copy /\ Chain(D, c2s, asked)
  BY DEF SyncInv
<1>2. c2s # <<>> /\ c2s' = Tail(c2s) /\ copy' = copy /\ asked' = asked
  BY Zenon DEF Serve, cvars
<1>3. docs' = Taken(Head(c2s), docs)
  BY ServeTakes
<1>4. IsSeq(c2s) /\ IsSeq(s2c) /\ IsSeq(asked)
  BY DEF AnswerInv
<1>5. /\ \E E : E[0] = docs' /\ E[Len(c2s')] = copy' /\ Chain(E, c2s', asked')
      /\ Documents(docs) /\ (Head(c2s).kind = "request" => Concerns(Head(c2s), docs, asked))
  BY <1>1, <1>2, <1>3, <1>4, Shifts
<1>6. \/ s2c' = s2c
      \/ \E x : s2c' = s2c \o <<x>> /\ Usable(x, asked)
  <2>1. PICK msg : msg = Head(c2s)
    OBVIOUS
  <2>2. \/ msg.kind = "request" /\ handle_request(msg)
        \/ DidOpen(msg) \/ DidChange(msg) \/ DidClose(msg) \/ ShutDown(msg)
    BY <2>1, Zenon DEF Serve
  <2>3. CASE msg.kind = "request" /\ handle_request(msg)
    BY <1>5, <2>1, <2>3, RequestUsable
  <2>4. CASE DidOpen(msg) \/ DidChange(msg) \/ DidClose(msg)
    <3>1. CASE s2c' = s2c
      BY <3>1
    <3>2. CASE \E out : s2c' = s2c \o out /\ Publishes(out)
      <4>1. PICK x : s2c' = s2c \o <<x>> /\ x.kind = "diagnostics"
        BY <3>2 DEF Publishes
      <4>2. Usable(x, asked)
        BY <4>1 DEF Usable
      <4> QED BY <4>1, <4>2
    <3> QED BY <2>4, <3>1, <3>2, NotificationPublishes
  <2>5. CASE ShutDown(msg)
    <3>1. s2c' = s2c \o respond(msg.id, "null", <<>>)
      BY <2>5 DEF ShutDown, Send
    <3>2. \E x : respond(msg.id, "null", <<>>) = <<x>> /\ Usable(x, asked)
      BY PlainUsable
    <3> QED BY <3>1, <3>2
  <2> QED BY <2>2, <2>3, <2>4, <2>5
<1>7. \A j \in 1..Len(s2c') : Usable(s2c'[j], asked')
  <2>1. \A j \in 1..Len(s2c) : Usable(s2c[j], asked)
    BY DEF SyncInv
  <2>2. CASE s2c' = s2c
    BY <1>2, <2>1, <2>2
  <2>3. CASE \E x : s2c' = s2c \o <<x>> /\ Usable(x, asked)
    BY <1>2, <1>4, <2>1, <2>3, UsableSent
  <2> QED BY <1>6, <2>2, <2>3
<1> QED BY <1>5, <1>7 DEF SyncInv

LEMMA SyncReceive == ASSUME AnswerInv, AskedInv, SyncInv, Receive PROVE SyncInv'
<1>1. PICK D : D[0] = docs /\ D[Len(c2s)] = copy /\ Chain(D, c2s, asked)
  BY DEF SyncInv
<1>2. AskedInv' /\ Keeps(asked, asked')
  BY AskedKept DEF Next
<1>3. PICK msg : msg = Head(s2c) /\ (ReceiveDiagnostics(msg) \/ ReceiveResponse(msg))
  BY Zenon DEF Receive
<1>4. s2c # <<>> /\ s2c' = Tail(s2c) /\ docs' = docs
  BY Zenon DEF Receive, svars
<1>5. IsSeq(c2s) /\ IsSeq(s2c) /\ IsSeq(asked)
  BY DEF AnswerInv
<1>6. Usable(msg, asked) /\ \A j \in 1..Len(s2c') : Usable(s2c'[j], asked')
  BY <1>2, <1>3, <1>4, <1>5, UsableReceived DEF SyncInv
<1>7. Documents(copy)
  <2>1. Len(c2s) \in 0..Len(c2s)
    BY <1>5 DEF IsSeq
  <2> QED BY <1>1, <2>1 DEF Chain
<1>8. \/ c2s' = c2s /\ copy' = copy
      \/ \E m : c2s' = Append(c2s, m) /\ copy' = Taken(m, copy) /\ Documents(copy') /\ m.kind = "change"
  <2>1. CASE ReceiveDiagnostics(msg)
    BY <2>1, Zenon DEF ReceiveDiagnostics
  <2>2. CASE ReceiveResponse(msg)
    <3>1. PICK ask : ask = asked[msg.id]
      OBVIOUS
    <3>2. \/ c2s' = c2s /\ copy' = copy
          \/ /\ msg.kind = "edits" /\ copy[ask.uri].open /\ copy[ask.uri] = ask.doc
             /\ ApplyEdits(ask.uri, msg.body, FALSE)
          \/ /\ msg.kind = "actions" /\ copy[ask.uri].open /\ copy[ask.uri] = ask.doc
             /\ \E i \in 1..Len(msg.body) :
                  ApplyEdits(ask.uri, msg.body[i].edits, msg.body[i].kind = "source.fixAll")
      BY <2>2, <3>1, Zenon DEF ReceiveResponse
    <3>3. CASE /\ msg.kind = "edits" /\ copy[ask.uri].open /\ copy[ask.uri] = ask.doc
               /\ ApplyEdits(ask.uri, msg.body, FALSE)
      <4>1. msg.body # <<>>
        BY <3>3, Zenon DEF ApplyEdits
      <4>2. ask.uri \in Uri /\ Proposes(copy[ask.uri].text, msg.body)
        BY <1>6, <3>1, <3>3, <4>1 DEF Usable
      <4> QED BY <1>7, <3>3, <4>2, EditsTaken
    <3>4. CASE /\ msg.kind = "actions" /\ copy[ask.uri].open /\ copy[ask.uri] = ask.doc
               /\ \E i \in 1..Len(msg.body) :
                    ApplyEdits(ask.uri, msg.body[i].edits, msg.body[i].kind = "source.fixAll")
      <4>1. PICK i \in 1..Len(msg.body) : ApplyEdits(ask.uri, msg.body[i].edits, msg.body[i].kind = "source.fixAll")
        BY <3>4
      <4>2. ask.uri \in Uri /\ Offers(copy[ask.uri].text, msg.body)
        BY <1>6, <3>1, <3>4 DEF Usable
      <4>3. Proposes(copy[ask.uri].text, msg.body[i].edits)
        BY <4>2 DEF Offers
      <4> QED BY <1>7, <3>4, <4>1, <4>2, <4>3, EditsTaken
    <3> QED BY <3>2, <3>3, <3>4
  <2> QED BY <1>3, <2>1, <2>2
<1>9. CASE c2s' = c2s /\ copy' = copy
  <2>1. Chain(D, c2s, asked')
    BY <1>1, <1>2, KeepsChain
  <2> QED BY <1>1, <1>4, <1>6, <1>9, <2>1 DEF SyncInv
<1>10. CASE \E m : c2s' = Append(c2s, m) /\ copy' = Taken(m, copy) /\ Documents(copy') /\ m.kind = "change"
  <2>1. PICK m : c2s' = Append(c2s, m) /\ copy' = Taken(m, copy) /\ Documents(copy') /\ m.kind = "change"
    BY <1>10
  <2>2. m.kind # "request"
    BY <2>1
  <2>3. \E E : E[0] = D[0] /\ E[Len(c2s')] = copy' /\ Chain(E, c2s', asked')
    BY <1>1, <1>2, <1>5, <2>1, <2>2, Extends
  <2> QED BY <1>1, <1>4, <1>6, <2>3 DEF SyncInv
<1> QED BY <1>8, <1>9, <1>10

\* What the client posts of its own.
LEMMA ClientPosts ==
    ASSUME AnswerInv, Documents(copy), NEW u, u \in Uri, OpenDocument(u) \/ CloseDocument(u) \/ ReplaceText(u) \/ Request(u)
    PROVE  \E m : /\ c2s' = Append(c2s, m) /\ copy' = Taken(m, copy) /\ Documents(copy')
                  /\ m.kind = "request" => Concerns(m, copy, asked')
<1>1. CASE OpenDocument(u)
  <2>1. PICK lang \in Languages, text \in Texts :
          /\ copy' = [copy EXCEPT ![u] = [open |-> TRUE, lang |-> lang, text |-> text, version |-> ops]]
          /\ c2s' = Append(c2s, [kind |-> "open", uri |-> u, lang |-> lang, text |-> text, version |-> ops])
    BY <1>1, Zenon DEF OpenDocument, Post
  <2> DEFINE m == [kind |-> "open", uri |-> u, lang |-> lang, text |-> text, version |-> ops]
             doc == [open |-> TRUE, lang |-> lang, text |-> text, version |-> ops]
  <2>2. m.kind = "open" /\ m.uri = u /\ m.lang = lang /\ m.text = text /\ m.version = ops
    OBVIOUS
  <2>3. Clean(text)
    BY InputsAssumption DEF CleanInputs
  <2>4. Document(doc)
    BY <2>3 DEF Document
  <2> HIDE DEF m
  <2>5. copy' = Taken(m, copy)
    BY <2>1, <2>2 DEF Taken
  <2> HIDE DEF doc
  <2>6. Documents([copy EXCEPT ![u] = doc])
    BY <2>4, DocumentsExcept
  <2>7. m.kind # "request"
    BY <2>2
  <2> QED BY <2>1, <2>5, <2>6, <2>7 DEF m, doc
<1>2. CASE CloseDocument(u)
  <2>1. copy' = [copy EXCEPT ![u] = Closed] /\ c2s' = Append(c2s, [kind |-> "close", uri |-> u])
    BY <1>2, Zenon DEF CloseDocument, Post
  <2> DEFINE m == [kind |-> "close", uri |-> u]
  <2>2. m.kind = "close" /\ m.uri = u
    OBVIOUS
  <2> HIDE DEF m
  <2>3. copy' = Taken(m, copy)
    BY <2>1, <2>2 DEF Taken
  <2>4. Documents([copy EXCEPT ![u] = Closed])
    BY ClosedDocument, DocumentsExcept
  <2>5. m.kind # "request"
    BY <2>2
  <2> QED BY <2>1, <2>3, <2>4, <2>5 DEF m
<1>3. CASE ReplaceText(u)
  <2>1. PICK m : c2s' = Append(c2s, m) /\ copy' = Taken(m, copy) /\ Documents(copy') /\ m.kind = "change"
    BY <1>3, ReplaceTaken
  <2>2. m.kind # "request"
    BY <2>1, SMTT(40)
  <2> QED BY <2>1, <2>2
<1>4. CASE Request(u)
  <2>1. PICK ask \in Asks(ops) :
          /\ asked' = Append(asked, [method |-> ask.method, uri |-> u, doc |-> copy[u],
                                     quoted |-> baseline[u].data, got |-> 0])
          /\ Post([kind |-> "request", id |-> Len(asked) + 1, uri |-> u, method |-> ask.method,
                   malformed |-> ask.malformed, only |-> ask.only, previous |-> baseline[u].id,
                   range |-> byte_range(copy[u].text, 0, Len(copy[u].text))])
    BY <1>4, Zenon DEF Request
  <2>2. copy' = copy
    BY <1>4, Zenon DEF Request
  <2> DEFINE a == [method |-> ask.method, uri |-> u, doc |-> copy[u], quoted |-> baseline[u].data, got |-> 0]
             m == [kind |-> "request", id |-> Len(asked) + 1, uri |-> u, method |-> ask.method,
                   malformed |-> ask.malformed, only |-> ask.only, previous |-> baseline[u].id,
                   range |-> byte_range(copy[u].text, 0, Len(copy[u].text))]
  <2>3. asked' = Append(asked, a) /\ c2s' = Append(c2s, m)
    BY <2>1, Zenon DEF Post
  <2>4. a.uri = u /\ a.doc = copy[u] /\ m.kind = "request" /\ m.id = Len(asked) + 1 /\ m.uri = u
    OBVIOUS
  <2> HIDE DEF a, m
  <2>5. Len(asked') = Len(asked) + 1 /\ Len(asked) \in Nat /\ asked'[Len(asked) + 1] = a
    BY <2>3, AppendIsSeq DEF AnswerInv
  <2>6. m.id \in 1..Len(asked')
    BY <2>4, <2>5
  <2>7. Concerns(m, copy, asked')
    BY <2>4, <2>5, <2>6 DEF Concerns
  <2>8. copy' = Taken(m, copy)
    BY <2>2, <2>4 DEF Taken
  <2> QED BY <2>2, <2>3, <2>7, <2>8
<1> QED BY <1>1, <1>2, <1>3, <1>4

LEMMA SyncClient ==
    ASSUME AnswerInv, AskedInv, SyncInv, [Next]_vars,
           (\E u \in Uri : OpenDocument(u) \/ CloseDocument(u) \/ ReplaceText(u) \/ Request(u)) \/ Shutdown
    PROVE  SyncInv'
<1>1. PICK D : D[0] = docs /\ D[Len(c2s)] = copy /\ Chain(D, c2s, asked)
  BY DEF SyncInv
<1>2. Keeps(asked, asked')
  BY AskedKept
<1>3. docs' = docs /\ s2c' = s2c
  BY ZenonT(40) DEF OpenDocument, CloseDocument, ReplaceText, Request, Shutdown, Post, svars
<1>4. IsSeq(c2s)
  BY DEF AnswerInv
<1>5. Documents(copy)
  <2>1. Len(c2s) \in 0..Len(c2s)
    BY <1>4 DEF IsSeq
  <2> QED BY <1>1, <2>1 DEF Chain
<1>6. \E m : /\ c2s' = Append(c2s, m) /\ copy' = Taken(m, copy) /\ Documents(copy')
             /\ m.kind = "request" => Concerns(m, copy, asked')
  <2>1. CASE Shutdown
    <3> DEFINE m == [kind |-> "shutdown", id |-> Len(asked) + 1]
    <3>1. c2s' = Append(c2s, m) /\ copy' = copy
      BY <2>1, Zenon DEF Shutdown
    <3>2. m.kind = "shutdown"
      OBVIOUS
    <3> HIDE DEF m
    <3>3. Taken(m, copy) = copy /\ m.kind # "request"
      BY <3>2 DEF Taken
    <3> QED BY <1>5, <3>1, <3>3
  <2> QED BY <1>5, <2>1, ClientPosts
<1>7. PICK m : /\ c2s' = Append(c2s, m) /\ copy' = Taken(m, copy) /\ Documents(copy')
               /\ m.kind = "request" => Concerns(m, copy, asked')
  BY <1>6
<1>8. \E E : E[0] = D[0] /\ E[Len(c2s')] = copy' /\ Chain(E, c2s', asked')
  BY <1>1, <1>2, <1>4, <1>7, Extends
<1>9. \A j \in 1..Len(s2c') : Usable(s2c'[j], asked')
  BY <1>2, <1>3, KeepsUsable DEF SyncInv
<1> QED BY <1>1, <1>3, <1>8, <1>9 DEF SyncInv

LEMMA SyncInit == Init => AskedInv /\ SyncInv
<1> SUFFICES ASSUME Init PROVE AskedInv /\ SyncInv
  OBVIOUS
<1>1. Len(c2s) = 0 /\ Len(s2c) = 0 /\ Len(asked) = 0 /\ 1..0 = {}
  BY EmptySeq DEF Init
<1>2. docs = [u \in Uri |-> Closed] /\ copy = docs
  BY DEF Init
<1>3. Documents(docs)
  BY <1>2, ClosedDocument DEF Documents
<1>4. PICK d : d = docs
  OBVIOUS
<1> DEFINE D == [i \in 0..0 |-> d]
<1>5. D[0] = docs /\ \A i \in 0..0 : D[i] = docs
  BY <1>4
<1> HIDE DEF D
<1>6. Chain(D, c2s, asked)
  BY <1>1, <1>3, <1>5 DEF Chain
<1> QED BY <1>1, <1>2, <1>5, <1>6 DEF AskedInv, SyncInv

LEMMA SyncStep == ASSUME FixesApart, PrettyTexts, AnswerInv, AskedInv, SyncInv, [Next]_vars PROVE AskedInv' /\ SyncInv'
<1>1. AskedInv'
  BY AskedKept
<1>2. CASE UNCHANGED vars
  <2>1. docs' = docs /\ c2s' = c2s /\ s2c' = s2c /\ copy' = copy /\ asked' = asked
    BY <1>2 DEF vars, svars, cvars
  <2> QED BY <1>1, <2>1 DEF SyncInv
<1>3. SyncInv'
  BY <1>2, SyncServe, SyncReceive, SyncClient DEF Next
<1> QED BY <1>1, <1>3

LEMMA SyncAlways == ASSUME FixesApart, PrettyTexts PROVE Spec => [](AskedInv /\ SyncInv)
<1>1. AnswerInv /\ AskedInv /\ SyncInv /\ [Next]_vars => AskedInv' /\ SyncInv'
  BY SyncStep
<1> QED BY <1>1, SyncInit, AnswerAlways, PTL DEF Spec

\* Once the server has taken every message, its documents are the client's:
\* whatever the order of the edits, opens and closes, a position in UTF-16
\* units names the same character on both sides, a column past the line is its
\* end, and the changes of one notification fall on the texts they were meant
\* for (position_to_char, Doc::apply, did_change).
THEOREM StaysSynced == ASSUME FixesApart, PrettyTexts PROVE Spec => []Synced
<1>1. SyncInv => Synced
  <2> SUFFICES ASSUME SyncInv, c2s = <<>>, NEW u \in Uri PROVE docs[u] = copy[u]
    BY DEF Synced
  <2>1. Len(c2s) = 0
    BY EmptySeq
  <2> QED BY <2>1 DEF SyncInv
<1> QED BY <1>1, SyncAlways, PTL

\* And the client shows the diagnostics of the text it has, once nothing is
\* under way (publish_diagnostics).
THEOREM DiagnosticsOwn == ASSUME FixesApart, PrettyTexts PROVE Spec => []DiagnosticsCurrent
BY StaysSynced, DiagnosticsFollow, PTL

-----------------------------------------------------------------------------
(* Semantic tokens: five integers each.                                    *)

Data(d) == IsSeq(d) /\ \E n \in Nat : Len(d) = 5 * n
\* The analyses give tokens in sequence.
TokensInOrder == \A lang, t : Clean(t) => IsSeq(Analyze(lang, t))

LEMMA PushIs == ASSUME NEW t, IsSeq(t), NEW tok PROVE IsSeq(push(t, tok))
<1> DEFINE breaks == {i \in Newlines(t) : tok.from < i /\ i <= tok.to}
           starts == {tok.from} \cup breaks
           stop(s) == LET later == {b \in breaks : b > s}
                          nl == CHOOSE b \in later : \A c \in later : b <= c
                      IN IF later = {} THEN tok.to
                         ELSE IF nl - 1 > s /\ t[nl - 1] = CR THEN nl - 2 ELSE nl - 1
           S == {s \in starts : stop(s) > s}
           pieces == Ascending(S)
           p == push(t, tok)
<1>1. p = [k \in 1..Len(pieces) |->
             [at |-> position(t, pieces[k]), kind |-> tok.kind,
              len |-> utf16_len(SubSeq(t, pieces[k] + 1, stop(pieces[k])))]]
  BY DEF push
<1>2. Cardinality(S) \in Nat
  <2>1. Newlines(t) \in SUBSET (1..Len(t)) /\ Len(t) \in Int
    BY DEF Newlines, IsSeq
  <2>2. IsFiniteSet(1..Len(t))
    BY <2>1, FS_Interval
  <2>3. IsFiniteSet(Newlines(t))
    BY <2>1, <2>2, FS_Subset
  <2>4. IsFiniteSet(Newlines(t) \cup {tok.from})
    BY <2>3, FS_AddElement
  <2>5. S \in SUBSET (Newlines(t) \cup {tok.from})
    OBVIOUS
  <2> HIDE DEF S
  <2>6. IsFiniteSet(S)
    BY <2>4, <2>5, FS_Subset
  <2> QED BY <2>6, FS_CardinalityType
<1> HIDE DEF S, stop
<1>3. Len(pieces) \in Nat
  <2> DEFINE at(k) == CHOOSE x \in S : Cardinality({y \in S : y < x}) = k - 1
  <2>0. pieces = [k \in 1..Cardinality(S) |-> at(k)]
    BY DEF Ascending
  <2> HIDE DEF pieces, at
  <2>1. pieces = [k \in 1..Cardinality(S) |-> pieces[k]]
    BY <2>0
  <2>2. Len(pieces) = Cardinality(S)
    BY <1>2, <2>1, FunctionIsSeq
  <2> QED BY <1>2, <2>2
<1> HIDE DEF pieces, p
<1>4. p = [k \in 1..Len(pieces) |-> p[k]]
  BY <1>1
<1>5. IsSeq(p)
  BY <1>3, <1>4, FunctionIsSeq
<1> QED BY <1>5 DEF p

LEMMA TokensIs == ASSUME TokensInOrder, NEW lang, NEW t, Clean(t) PROVE IsSeq(SemTokens(lang, t))
<1> DEFINE toks == Analyze(lang, t)
           seqs == [i \in 1..Len(toks) |-> push(t, toks[i])]
<1>1. IsSeq(toks) /\ Len(toks) \in Nat
  BY DEF TokensInOrder, IsSeq
<1>2. IsSeq(t)
  BY DEF Clean
<1>3. SemTokens(lang, t) = FlattenSeq(seqs)
  BY DEF SemTokens
<1> HIDE DEF toks
<1>4. seqs = [i \in 1..Len(toks) |-> seqs[i]] /\ \A i \in 1..Len(toks) : seqs[i] = push(t, toks[i])
  OBVIOUS
<1> HIDE DEF seqs
<1>5. IsSeq(seqs) /\ Len(seqs) = Len(toks)
  BY <1>1, <1>4, FunctionIsSeq
<1>6. \A i \in 1..Len(seqs) : IsSeq(seqs[i])
  BY <1>2, <1>4, <1>5, PushIs
<1> QED BY <1>3, <1>5, <1>6, FlattenOrigins

LEMMA EncodeIs == ASSUME NEW toks, IsSeq(toks) PROVE Data(encode(toks))
<1> DEFINE prev(i) == IF i = 1 THEN <<0, 0>> ELSE toks[i - 1].at
           line(i) == toks[i].at[1] - prev(i)[1]
           quint(i) == <<line(i), IF line(i) = 0 THEN toks[i].at[2] - prev(i)[2] ELSE toks[i].at[2],
                         toks[i].len, toks[i].kind, 0>>
           seqs == [i \in 1..Len(toks) |-> quint(i)]
<1>1. Len(toks) \in Nat
  BY DEF IsSeq
<1>2. encode(toks) = FlattenSeq(seqs)
  BY DEF encode
<1>3. \A i : IsSeq(quint(i)) /\ Len(quint(i)) = 5
  <2>1. ASSUME NEW a, NEW b, NEW c, NEW d, NEW e PROVE IsSeq(<<a, b, c, d, e>>) /\ Len(<<a, b, c, d, e>>) = 5
    <3> DEFINE q == <<a, b, c, d, e>>
    <3>1. q \in Seq({a, b, c, d, e}) /\ Len(q) = 5
      OBVIOUS
    <3> HIDE DEF q
    <3>2. IsSeq(q)
      BY <3>1, SeqIsSeq
    <3> QED BY <3>1, <3>2 DEF q
  <2> HIDE DEF line
  <2> QED BY <2>1
<1> HIDE DEF quint
<1>4. seqs = [i \in 1..Len(toks) |-> seqs[i]] /\ \A i \in 1..Len(toks) : seqs[i] = quint(i)
  OBVIOUS
<1> HIDE DEF seqs
<1>5. IsSeq(seqs) /\ Len(seqs) = Len(toks)
  BY <1>1, <1>4, FunctionIsSeq
<1>6. \A i \in 1..Len(seqs) : IsSeq(seqs[i]) /\ Len(seqs[i]) = 5
  BY <1>3, <1>4, <1>5
<1>7. IsSeq(FlattenSeq(seqs))
  BY <1>5, <1>6, FlattenOrigins
<1>8. Len(FlattenSeq(seqs)) = 5 * Len(seqs)
  BY <1>5, <1>6, FlattenFives
<1> QED BY <1>1, <1>2, <1>5, <1>7, <1>8 DEF Data

LEMMA EncodedIs == ASSUME TokensInOrder, NEW lang, NEW t, Clean(t) PROVE Data(Encoded(lang, t))
BY TokensIs, EncodeIs DEF Encoded

\* Whole tokens go on the wire as they are.
LEMMA WireKeeps == ASSUME NEW d, Data(d) PROVE to_wire(d) = d
<1>1. PICK n \in Nat : Len(d) = 5 * n
  BY DEF Data
<1>2. (5 * n) % 5 = 0
  OBVIOUS
<1>3. IsSeq(d) /\ Len(d) \in Nat
  BY DEF Data, IsSeq
<1>4. Len(d) - (Len(d) % Width) = Len(d)
  BY <1>1, <1>2 DEF Width
<1> DEFINE w == SubSeq(d, 1, Len(d))
<1>5. 0 \in 0..Len(d) /\ Len(d) \in 0..Len(d) /\ 0 + 1 = 1 /\ Len(d) - 0 = Len(d) /\ \A i \in 1..Len(d) : 0 + i = i
  BY <1>3
<1>6. IsSeq(SubSeq(d, 0 + 1, Len(d))) /\ Len(SubSeq(d, 0 + 1, Len(d))) = Len(d) - 0
  BY <1>3, <1>5, SubSeqIs
<1>7. \A i \in 1..(Len(d) - 0) : SubSeq(d, 0 + 1, Len(d))[i] = d[0 + i]
  BY <1>3, <1>5, SubSeqIs
<1>8. IsSeq(w) /\ Len(w) = Len(d) /\ \A i \in 1..Len(d) : w[i] = d[i]
  BY <1>5, <1>6, <1>7
<1> HIDE DEF w
<1>9. w = d
  BY <1>3, <1>8, SeqSame
<1> QED BY <1>4, <1>9 DEF to_wire, w

LEMMA GreatestIs ==
    ASSUME NEW n \in Nat, NEW S, \A k \in S : k \in 0..n, S # {}
    PROVE  Greatest(S) \in S /\ \A k \in S : k <= Greatest(S)
<1> DEFINE U == {n - k : k \in S}
<1>1. U \in SUBSET Nat /\ U # {}
  OBVIOUS
<1>2. PICK x \in U : \A y \in U : x <= y
  <2> HIDE DEF U
  <2> QED BY <1>1, LeastNumber
<1>3. PICK k \in S : x = n - k
  BY <1>2
<1>4. \A j \in S : k >= j
  <2>1. ASSUME NEW j \in S PROVE k >= j
    <3>1. n - k <= n - j
      BY <1>2, <1>3
    <3>2. k \in 0..n /\ j \in 0..n
      OBVIOUS
    <3> QED BY <3>1, <3>2
  <2> QED BY <2>1
<1>5. \E a \in S : \A j \in S : a >= j
  BY <1>4
<1>6. Greatest(S) \in S /\ \A j \in S : Greatest(S) >= j
  BY <1>5, Zenon DEF Greatest
<1> QED BY <1>6

\* A number cut back to whole tokens.
LEMMA CutIs == ASSUME NEW k \in Nat PROVE k - (k % 5) \in 0..k /\ \E n \in Nat : k - (k % 5) = 5 * n
<1>1. k % 5 \in 0..4 /\ k = 5 * (k \div 5) + (k % 5) /\ k \div 5 \in Nat
  OBVIOUS
<1> QED BY <1>1

\* The prefix and the suffix two sequences share, in whole tokens.
Shared(old, new, p, s, n) ==
    /\ p + s <= Len(old) /\ p + s + 5 * n = Len(new)
    /\ \A i \in 1..p : old[i] = new[i]
    /\ \A i \in 0..(s - 1) : old[Len(old) - i] = new[Len(new) - i]
    /\ token_edit(old, new) = [start |-> p, delete |-> Len(old) - p - s,
                               data |-> to_wire(SubSeq(new, p + 1, Len(new) - s))]

LEMMA EditIs ==
    ASSUME NEW old, Data(old), NEW new, Data(new)
    PROVE  \E p, s, n \in Nat : Shared(old, new, p, s, n)
<1>1. PICK l \in Nat, m \in Nat : Len(old) = 5 * l /\ Len(new) = 5 * m
  BY DEF Data
<1> DEFINE cut(k) == k - (k % 5)
           common == IF Len(old) < Len(new) THEN Len(old) ELSE Len(new)
           P == {k \in 0..common : \A i \in 1..k : old[i] = new[i]}
           p == cut(Greatest(P))
           S == {k \in 0..(common - p) : \A i \in 0..(k - 1) : old[Len(old) - i] = new[Len(new) - i]}
           s == cut(Greatest(S))
<1>2. token_edit(old, new) = [start |-> p, delete |-> Len(old) - p - s,
                              data |-> to_wire(SubSeq(new, p + 1, Len(new) - s))]
  BY DEF token_edit, Edit, Width
<1>3. common \in Nat /\ common <= Len(old) /\ common <= Len(new) /\ Len(old) \in Nat /\ Len(new) \in Nat
  BY <1>1
<1> HIDE DEF common
<1>4. Greatest(P) \in P
  <2>1. 0 \in P
    BY <1>3
  <2>2. \A k \in P : k \in 0..common
    OBVIOUS
  <2> HIDE DEF P
  <2> QED BY <1>3, <2>1, <2>2, GreatestIs
<1>5. Greatest(P) \in 0..common /\ \A i \in 1..Greatest(P) : old[i] = new[i]
  <2> DEFINE g == Greatest(P)
  <2>1. g \in P
    BY <1>4
  <2> HIDE DEF g
  <2> QED BY <2>1 DEF g
<1>6. PICK a \in 0..common : a = Greatest(P) /\ \A i \in 1..a : old[i] = new[i]
  BY <1>5
<1>7. p = cut(a)
  BY <1>6
<1> HIDE DEF P, p
<1>8. PICK x \in Nat : p = 5 * x /\ p \in 0..a
  BY <1>3, <1>6, <1>7, CutIs, SMTT(40)
<1>9. p \in Nat /\ common - p \in Nat
  BY <1>3, <1>6, <1>8
<1>10. Greatest(S) \in S
  <2>1. 0 \in S
    BY <1>9
  <2>2. \A k \in S : k \in 0..(common - p)
    OBVIOUS
  <2> HIDE DEF S
  <2>3. PICK n \in Nat : n = common - p
    BY <1>9
  <2> QED BY <2>1, <2>2, <2>3, GreatestIs
<1>11. Greatest(S) \in 0..(common - p) /\ \A i \in 0..(Greatest(S) - 1) : old[Len(old) - i] = new[Len(new) - i]
  <2> DEFINE g == Greatest(S)
  <2>1. g \in S
    BY <1>10
  <2> HIDE DEF g
  <2> QED BY <2>1 DEF g
<1>12. PICK b \in 0..(common - p) : b = Greatest(S) /\ \A i \in 0..(b - 1) : old[Len(old) - i] = new[Len(new) - i]
  BY <1>11
<1>13. s = cut(b)
  BY <1>12
<1> HIDE DEF S, s
<1>14. PICK y \in Nat : s = 5 * y /\ s \in 0..b
  BY <1>9, <1>12, <1>13, CutIs, SMTT(40)
<1>15. s \in Nat /\ p + s <= common
  BY <1>3, <1>9, <1>12, <1>14
<1>16. p + s <= Len(old) /\ m - x - y \in Nat /\ p + s + 5 * (m - x - y) = Len(new)
  BY <1>1, <1>3, <1>8, <1>9, <1>14, <1>15
<1>17. \A i \in 1..p : old[i] = new[i]
  BY <1>6, <1>8
<1>18. \A i \in 0..(s - 1) : old[Len(old) - i] = new[Len(new) - i]
  <2>1. \A i \in 0..(s - 1) : i \in 0..(b - 1)
    BY <1>12, <1>14
  <2> QED BY <1>12, <2>1
<1>19. PICK n \in Nat : n = m - x - y
  BY <1>16
<1>20. Shared(old, new, p, s, n)
  BY <1>2, <1>16, <1>17, <1>18, <1>19 DEF Shared
<1> QED BY <1>9, <1>15, <1>20

\* The splice a delta carries makes the new tokens of the old.
LEMMA EditRebuilds ==
    ASSUME NEW old, Data(old), NEW new, Data(new)
    PROVE  ApplyDelta(old, <<token_edit(old, new)>>) = new
<1>0. PICK p \in Nat, s \in Nat, n \in Nat : Shared(old, new, p, s, n)
  BY EditIs
<1>1. /\ \A i \in 1..p : old[i] = new[i]
      /\ \A i \in 0..(s - 1) : old[Len(old) - i] = new[Len(new) - i]
      /\ token_edit(old, new) = [start |-> p, delete |-> Len(old) - p - s,
                                 data |-> to_wire(SubSeq(new, p + 1, Len(new) - s))]
  BY <1>0 DEF Shared
<1>2. /\ IsSeq(old) /\ IsSeq(new) /\ Len(old) \in Nat /\ Len(new) \in Nat
      /\ p + s <= Len(old) /\ p + s + 5 * n = Len(new)
  BY <1>0 DEF Data, IsSeq, Shared
<1>21. PICK to \in p..Len(old) : to = Len(old) - s
  <2>1. Len(old) - s \in p..Len(old)
    BY <1>2
  <2> QED BY <2>1
<1> DEFINE mid == SubSeq(new, p + 1, Len(new) - s)
           y == Splice(old, p, to, mid)
<1>22. IsSeq(old) /\ IsSeq(new) /\ p \in 0..Len(old)
  BY <1>2
<1>23. p \in 0..Len(new) /\ Len(new) - s \in p..Len(new)
  BY <1>2
<1>3. (Len(new) - s) - p = 5 * n
  BY <1>2
<1>24. IsSeq(mid)
  BY <1>22, <1>23, SubSeqIs
<1>4. IsSeq(mid) /\ Len(mid) = (Len(new) - s) - p
  BY <1>22, <1>23, SubSeqIs
<1>5. \A i \in 1..((Len(new) - s) - p) : mid[i] = new[p + i]
  BY <1>22, <1>23, SubSeqIs
<1> HIDE DEF mid
<1>6. Data(mid)
  BY <1>3, <1>4 DEF Data
<1>7. to_wire(mid) = mid
  BY <1>6, WireKeeps
<1>8. p + (Len(old) - p - s) = to /\ Len(old) - to = s
  BY <1>2, <1>21
<1>9. ApplyDelta(old, <<token_edit(old, new)>>) = y
  <2> DEFINE e == [start |-> p, delete |-> Len(old) - p - s, data |-> mid]
             es == <<e>>
  <2>1. token_edit(old, new) = e
    BY <1>1, <1>7 DEF mid
  <2>2. e.start = p /\ e.delete = Len(old) - p - s /\ e.data = mid
    OBVIOUS
  <2> HIDE DEF e
  <2>3. es # <<>> /\ es[1] = e
    OBVIOUS
  <2> HIDE DEF es
  <2>4. ApplyDelta(old, es) = Splice(old, p, p + (Len(old) - p - s), mid)
    BY <2>2, <2>3 DEF ApplyDelta
  <2> QED BY <1>8, <2>1, <2>4 DEF es
<1>25. Spliced(y, old, p, to, mid)
  BY <1>22, <1>24, SpliceIs
<1> HIDE DEF y
<1>10. IsSeq(y) /\ Len(y) = p + Len(mid) + (Len(old) - to)
  BY <1>25 DEF Spliced
<1>11. \A i \in 1..p : y[i] = old[i]
  BY <1>25 DEF Spliced
<1>12. \A i \in 1..Len(mid) : y[p + i] = mid[i]
  BY <1>25 DEF Spliced
<1>13. \A i \in 1..(Len(old) - to) : y[p + Len(mid) + i] = old[to + i]
  BY <1>25 DEF Spliced
<1>14. Len(mid) = 5 * n /\ Len(y) = Len(new)
  BY <1>2, <1>3, <1>4, <1>8, <1>10
<1>15. ASSUME NEW j \in 1..Len(new) PROVE y[j] = new[j]
  <2>1. CASE j <= p
    BY <1>1, <1>11, <2>1
  <2>2. CASE p < j /\ j <= p + 5 * n
    <3>1. j - p \in 1..(5 * n) /\ p + (j - p) = j
      BY <2>2
    <3> QED BY <1>3, <1>5, <1>12, <1>14, <3>1
  <2>3. CASE p + 5 * n < j
    <3>1. PICK i \in 1..s : j = p + 5 * n + i
      <4>1. j - p - 5 * n \in 1..s /\ j = p + 5 * n + (j - p - 5 * n)
        BY <1>2, <2>3
      <4> QED BY <4>1
    <3>2. y[j] = old[to + i]
      BY <1>8, <1>13, <1>14, <3>1
    <3>3. PICK k \in 0..(s - 1) : k = s - i
      BY <3>1
    <3>4. to + i = Len(old) - k
      BY <1>2, <1>21, <3>3
    <3>5. j = Len(new) - k
      BY <1>2, <3>1, <3>3
    <3>6. old[Len(old) - k] = new[Len(new) - k]
      BY <1>1
    <3> QED BY <3>2, <3>4, <3>5, <3>6
  <2> QED BY <2>1, <2>2, <2>3
<1>16. y = new
  BY <1>2, <1>10, <1>14, <1>15, SeqSame
<1> QED BY <1>9, <1>16

-----------------------------------------------------------------------------
(* The tokens of the two sides.                                            *)

EncodedOf(doc) == Encoded(doc.lang, doc.text)
\* H[id] is the data the server handed out as its id-th result.
Known(H, n, id, data) == id \in 1..n /\ H[id] = data
\* A request quotes a result by its id, and the client has kept its data.
Quoting(m, H, n, k) ==
    m.kind = "request" => m.id \in 1..Len(k) /\ (m.previous # 0 => Known(H, n, m.previous, k[m.id].quoted))
\* What an answer makes of the data it was asked with.
Handing(m, H, n, k) ==
    /\ m.kind = "tokens" => /\ m.id \in 1..Len(k) /\ Known(H, n, m.body.id, m.body.data)
                            /\ m.body.data = EncodedOf(k[m.id].doc)
    /\ m.kind = "delta" => /\ m.id \in 1..Len(k)
                           /\ Known(H, n, m.body.id, ApplyDelta(k[m.id].quoted, m.body.edits))
                           /\ ApplyDelta(k[m.id].quoted, m.body.edits) = EncodedOf(k[m.id].doc)
Handed(H, n, toks) == toks.id # 0 => Known(H, n, toks.id, toks.data) /\ Data(toks.data)
Held(H, n, held) == held.id # 0 => Known(H, n, held.id, held.data) /\ held.data = EncodedOf(held.doc)
Results(H) ==
    /\ \A u \in Uri : Handed(H, result_ids, tokens[u]) /\ Held(H, result_ids, baseline[u])
    /\ \A j \in 1..Len(c2s) : Quoting(c2s[j], H, result_ids, asked)
    /\ \A j \in 1..Len(s2c) : Handing(s2c[j], H, result_ids, asked)
TokensInv ==
    /\ result_ids \in Nat /\ DOMAIN tokens = Uri /\ DOMAIN baseline = Uri
    /\ \E H : Results(H)

\* Results are handed out under new ids only.
Grown(H, n, G, o) == n \in Nat /\ o \in Nat /\ n <= o /\ \A i \in 1..n : G[i] = H[i]

LEMMA GrownKnows ==
    ASSUME NEW H, NEW n, NEW G, NEW o, Grown(H, n, G, o)
    PROVE  /\ \A id, data : Known(H, n, id, data) => Known(G, o, id, data)
           /\ \A toks : Handed(H, n, toks) => Handed(G, o, toks)
           /\ \A held : Held(H, n, held) => Held(G, o, held)
           /\ \A m, k, l : Keeps(k, l) /\ Quoting(m, H, n, k) => Quoting(m, G, o, l)
           /\ \A m, k, l : Keeps(k, l) /\ Handing(m, H, n, k) => Handing(m, G, o, l)
<1>1. \A id, data : Known(H, n, id, data) => Known(G, o, id, data)
  <2>1. \A i \in 1..n : i \in 1..o
    BY DEF Grown
  <2> QED BY <2>1 DEF Known, Grown
<1>2. \A toks : Handed(H, n, toks) => Handed(G, o, toks)
  BY <1>1 DEF Handed
<1>3. \A held : Held(H, n, held) => Held(G, o, held)
  BY <1>1 DEF Held
<1>4. ASSUME NEW k, NEW l, Keeps(k, l)
      PROVE  \A i \in 1..Len(k) : i \in 1..Len(l) /\ l[i].doc = k[i].doc /\ l[i].quoted = k[i].quoted
  BY <1>4 DEF Keeps
<1>5. \A m, k, l : Keeps(k, l) /\ Quoting(m, H, n, k) => Quoting(m, G, o, l)
  <2>1. ASSUME NEW m, NEW k, NEW l, Keeps(k, l), Quoting(m, H, n, k), m.kind = "request"
        PROVE  m.id \in 1..Len(l) /\ (m.previous # 0 => Known(G, o, m.previous, l[m.id].quoted))
    <3>1. m.id \in 1..Len(k) /\ (m.previous # 0 => Known(H, n, m.previous, k[m.id].quoted))
      BY <2>1 DEF Quoting
    <3>2. m.id \in 1..Len(l) /\ l[m.id].quoted = k[m.id].quoted
      BY <1>4, <2>1, <3>1
    <3> QED BY <1>1, <3>1, <3>2
  <2> QED BY <2>1 DEF Quoting
<1>6. \A m, k, l : Keeps(k, l) /\ Handing(m, H, n, k) => Handing(m, G, o, l)
  <2>1. ASSUME NEW m, NEW k, NEW l, Keeps(k, l), Handing(m, H, n, k)
        PROVE  Handing(m, G, o, l)
    <3>1. CASE m.kind = "tokens"
      <4>1. m.id \in 1..Len(k) /\ Known(H, n, m.body.id, m.body.data) /\ m.body.data = EncodedOf(k[m.id].doc)
        BY <2>1, <3>1 DEF Handing
      <4>2. m.id \in 1..Len(l) /\ l[m.id].doc = k[m.id].doc
        BY <1>4, <2>1, <4>1
      <4>3. m.id \in 1..Len(l) /\ Known(G, o, m.body.id, m.body.data) /\ m.body.data = EncodedOf(l[m.id].doc)
        BY <1>1, <4>1, <4>2
      <4> QED BY <3>1, <4>3 DEF Handing
    <3>2. CASE m.kind = "delta"
      <4>1. /\ m.id \in 1..Len(k)
            /\ Known(H, n, m.body.id, ApplyDelta(k[m.id].quoted, m.body.edits))
            /\ ApplyDelta(k[m.id].quoted, m.body.edits) = EncodedOf(k[m.id].doc)
        BY <2>1, <3>2 DEF Handing
      <4>2. m.id \in 1..Len(l) /\ l[m.id].doc = k[m.id].doc /\ l[m.id].quoted = k[m.id].quoted
        BY <1>4, <2>1, <4>1
      <4>3. /\ m.id \in 1..Len(l)
            /\ Known(G, o, m.body.id, ApplyDelta(l[m.id].quoted, m.body.edits))
            /\ ApplyDelta(l[m.id].quoted, m.body.edits) = EncodedOf(l[m.id].doc)
        BY <1>1, <4>1, <4>2
      <4> QED BY <3>2, <4>3 DEF Handing
    <3> QED BY <3>1, <3>2 DEF Handing
  <2> QED BY <2>1
<1> QED BY <1>1, <1>2, <1>3, <1>5, <1>6

\* A request answered with tokens: whole, or as a splice of the ones quoted.
LEMMA Hands ==
    ASSUME TokensInOrder, AnswerInv, TokensInv, NEW msg, msg.kind = "request", Documents(docs),
           Concerns(msg, docs, asked), msg = Head(c2s), c2s # <<>>,
           SemanticTokensFull(msg) \/ SemanticTokensFullDelta(msg), docs[msg.uri].open,
           NEW H, Results(H)
    PROVE  \E G, x : /\ result_ids' \in Nat /\ Grown(H, result_ids, G, result_ids')
                     /\ DOMAIN tokens' = Uri /\ \A u \in Uri : Handed(G, result_ids', tokens'[u])
                     /\ s2c' = s2c \o <<x>> /\ Handing(x, G, result_ids', asked)
<1>1. PICK u, doc : /\ u \in Uri /\ u = msg.uri /\ doc = docs[u] /\ Document(doc) /\ asked[msg.id].doc = doc
                     /\ msg.id \in 1..Len(asked)
  BY DEF Concerns, Documents
<1>2. PICK n \in Nat : n = result_ids
  BY DEF TokensInv
<1>3. PICK new : new = EncodedOf(doc) /\ Data(new)
  <2>1. Clean(doc.text)
    BY <1>1 DEF Document
  <2> QED BY <2>1, EncodedIs DEF EncodedOf
<1>4. Tokens(msg) = [id |-> n + 1, data |-> new]
  BY <1>1, <1>2, <1>3 DEF Tokens, EncodedOf
<1> DEFINE G == [i \in 1..(n + 1) |-> IF i <= n THEN H[i] ELSE new]
           toks == [id |-> n + 1, data |-> new]
<1>5. (\A i \in 1..n : G[i] = H[i]) /\ G[n + 1] = new
  OBVIOUS
<1> HIDE DEF G
<1>6. Known(G, n + 1, n + 1, new)
  BY <1>5 DEF Known
<1>7. \E answer : HandOut(msg, answer)
  BY Zenon DEF SemanticTokensFull, SemanticTokensFullDelta
<1>8. result_ids' = n + 1 /\ tokens' = [tokens EXCEPT ![u] = toks]
  BY <1>1, <1>2, <1>4, <1>7 DEF HandOut
<1>9. Grown(H, result_ids, G, result_ids') /\ result_ids' \in Nat
  BY <1>2, <1>5, <1>8 DEF Grown
<1>10. DOMAIN tokens' = Uri /\ \A v \in Uri : Handed(G, result_ids', tokens'[v])
  <2>1. tokens'[u] = toks /\ DOMAIN tokens' = Uri /\ \A v \in Uri : v # u => tokens'[v] = tokens[v]
    BY <1>1, <1>8 DEF TokensInv
  <2>2. toks.id = n + 1 /\ toks.data = new
    OBVIOUS
  <2> HIDE DEF toks
  <2>3. Handed(G, n + 1, toks)
    BY <1>3, <1>6, <2>2 DEF Handed
  <2>4. \A v \in Uri : Handed(H, result_ids, tokens[v])
    BY DEF Results
  <2>5. \A v \in Uri : Handed(G, result_ids', tokens[v])
    BY <1>9, <2>4, GrownKnows
  <2> QED BY <1>8, <2>1, <2>3, <2>5
<1>11. ASSUME s2c' = s2c \o FullTokens(msg) PROVE \E x : s2c' = s2c \o <<x>> /\ Handing(x, G, n + 1, asked)
  <2> DEFINE body == [id |-> n + 1, data |-> new]
             x == [kind |-> "tokens", id |-> msg.id, body |-> body]
  <2>1. [Tokens(msg) EXCEPT !.data = to_wire(@)] = body
    BY <1>3, <1>4, WireKeeps
  <2>2. body.id = n + 1 /\ body.data = new
    OBVIOUS
  <2> HIDE DEF body
  <2>3. s2c' = s2c \o <<x>>
    BY <1>11, <2>1, Zenon DEF FullTokens, respond
  <2>4. x.kind = "tokens" /\ x.id = msg.id /\ x.body = body
    OBVIOUS
  <2> HIDE DEF x
  <2>5. Handing(x, G, n + 1, asked)
    BY <1>1, <1>3, <1>6, <2>2, <2>4 DEF Handing
  <2> QED BY <2>3, <2>5
<1>12. CASE SemanticTokensFull(msg)
  <2>1. s2c' = s2c \o FullTokens(msg)
    BY <1>12, Zenon DEF SemanticTokensFull, HandOut, Send
  <2> QED BY <1>8, <1>9, <1>10, <1>11, <2>1
<1>13. CASE SemanticTokensFullDelta(msg)
  <2> DEFINE prev == tokens[msg.uri]
             edits == IF prev.data = new THEN <<>> ELSE <<token_edit(prev.data, new)>>
             full == prev.id = 0 \/ prev.id # msg.previous
             body == [id |-> n + 1, edits |-> edits]
             answer == IF full THEN FullTokens(msg) ELSE respond(msg.id, "delta", body)
  <2>1. HandOut(msg, answer)
    <3>1. Tokens(msg).id = n + 1 /\ Tokens(msg).data = new
      BY <1>4
    <3> QED BY <1>13, <3>1 DEF SemanticTokensFullDelta
  <2> HIDE DEF answer
  <2>2. s2c' = s2c \o answer
    BY <2>1, ZenonT(40) DEF HandOut, Send
  <2>3. CASE full
    <3>1. s2c' = s2c \o FullTokens(msg)
      BY <2>2, <2>3, Zenon DEF answer
    <3> QED BY <1>8, <1>9, <1>10, <1>11, <3>1
  <2>4. CASE ~full
    <3>1. prev.id # 0 /\ msg.previous = prev.id
      BY <2>4
    <3>2. Known(H, n, prev.id, prev.data) /\ Data(prev.data)
      BY <1>1, <1>2, <3>1 DEF Results, Handed
    <3>3. Quoting(msg, H, n, asked)
      <4>1. 1 \in 1..Len(c2s) /\ c2s[1] = msg
        BY TailIsSeq DEF AnswerInv
      <4> QED BY <1>2, <4>1 DEF Results
    <3>4. asked[msg.id].quoted = prev.data
      BY <3>1, <3>2, <3>3 DEF Quoting, Known
    <3> HIDE DEF prev
    <3>5. ApplyDelta(prev.data, edits) = new
      <4>1. CASE prev.data = new
        BY <4>1 DEF ApplyDelta
      <4>2. CASE prev.data # new
        BY <1>3, <3>2, <4>2, EditRebuilds
      <4> QED BY <4>1, <4>2
    <3> DEFINE x == [kind |-> "delta", id |-> msg.id, body |-> body]
    <3>6. s2c' = s2c \o <<x>>
      BY <2>2, <2>4 DEF answer, respond
    <3> HIDE DEF edits
    <3>7. x.kind = "delta" /\ x.id = msg.id /\ x.body.id = n + 1 /\ x.body.edits = edits
      OBVIOUS
    <3> HIDE DEF x
    <3>8. Handing(x, G, n + 1, asked)
      BY <1>1, <1>3, <1>6, <3>4, <3>5, <3>7 DEF Handing
    <3> QED BY <1>8, <1>9, <1>10, <3>6, <3>8
  <2> QED BY <2>3, <2>4
<1> QED BY <1>12, <1>13

Plain(out) == \E x : out = <<x>> /\ x.kind \notin {"tokens", "delta"}

LEMMA PlainResponse == ASSUME NEW id, NEW kind, kind \notin {"tokens", "delta"}, NEW body PROVE Plain(respond(id, kind, body))
<1> DEFINE x == [kind |-> kind, id |-> id, body |-> body]
<1>1. respond(id, kind, body) = <<x>> /\ x.kind = kind
  BY DEF respond
<1> HIDE DEF x
<1> QED BY <1>1 DEF Plain

\* Every other message leaves the results alone.
LEMMA PlainServe ==
    ASSUME NEW msg, \/ DidOpen(msg) \/ DidChange(msg) \/ DidClose(msg) \/ ShutDown(msg)
                    \/ handle_request(msg) /\ ~SemanticTokensFull(msg) /\ ~SemanticTokensFullDelta(msg)
                    \/ (SemanticTokensFull(msg) \/ SemanticTokensFullDelta(msg)) /\ ~docs[msg.uri].open
    PROVE  /\ result_ids' = result_ids
           /\ tokens' = tokens \/ tokens' = [tokens EXCEPT ![msg.uri] = NoTokens]
           /\ s2c' = s2c \/ \E x : s2c' = s2c \o <<x>> /\ x.kind \notin {"tokens", "delta"}
<1>1. \A kind, body : kind \notin {"tokens", "delta"} => Plain(respond(msg.id, kind, body))
  BY PlainResponse
<1>2. Plain(NotOpen(msg.id))
  BY <1>1 DEF NotOpen
<1>3. CASE DidOpen(msg) \/ DidChange(msg) \/ DidClose(msg)
  <2>1. result_ids' = result_ids
    BY <1>3, Zenon DEF DidOpen, DidChange, DidClose, svars
  <2>2. tokens' = tokens \/ tokens' = [tokens EXCEPT ![msg.uri] = NoTokens]
    BY <1>3, Zenon DEF DidOpen, DidChange, DidClose, svars
  <2>3. ASSUME NEW out, s2c' = s2c \o out, Publishes(out)
        PROVE  \E x : s2c' = s2c \o <<x>> /\ x.kind \notin {"tokens", "delta"}
    BY <2>3 DEF Publishes
  <2> QED BY <1>3, <2>1, <2>2, <2>3, NotificationPublishes
<1>4. CASE \/ ShutDown(msg)
           \/ handle_request(msg) /\ ~SemanticTokensFull(msg) /\ ~SemanticTokensFullDelta(msg)
           \/ (SemanticTokensFull(msg) \/ SemanticTokensFullDelta(msg)) /\ ~docs[msg.uri].open
  <2>1. result_ids' = result_ids /\ tokens' = tokens
    BY <1>4, Zenon DEF handle_request, InvalidParams, SemanticTokensFull, SemanticTokensFullDelta, HandOut, Read, Formatting,
             CodeAction, ShutDown, svars
  <2>2. \/ \E kind, body : kind \notin {"tokens", "delta"} /\ s2c' = s2c \o respond(msg.id, kind, body)
        \/ s2c' = s2c \o NotOpen(msg.id)
    <3>1. CASE InvalidParams(msg)
      <4>1. s2c' = s2c \o respond(msg.id, "error", <<"InvalidParams">>)
        BY <3>1 DEF InvalidParams, Send
      <4>2. "error" \notin {"tokens", "delta"}
        OBVIOUS
      <4> QED BY <4>1, <4>2
    <3>2. CASE Read(msg)
      <4>1. s2c' = s2c \o NotOpen(msg.id) \/ \E body : s2c' = s2c \o respond(msg.id, "read", body)
        BY <3>2, Zenon DEF Read, Send
      <4>2. "read" \notin {"tokens", "delta"}
        OBVIOUS
      <4> QED BY <4>1, <4>2
    <3>3. CASE Formatting(msg)
      <4>1. s2c' = s2c \o NotOpen(msg.id) \/ \E body : s2c' = s2c \o respond(msg.id, "edits", body)
        <5> DEFINE doc == docs[msg.uri]
                   new == Pretty(doc.text)
                   body == IF new[1] = doc.text THEN <<>> ELSE <<whole_doc_edit(doc.text, new[1])>>
        <5>1. s2c' = s2c \o (IF ~doc.open \/ doc.lang # "turtle" \/ new = <<>> THEN NotOpen(msg.id)
                             ELSE respond(msg.id, "edits", body))
          BY <3>3, Zenon DEF Formatting, Send
        <5> HIDE DEF doc, new, body
        <5> QED BY <5>1, SMTT(40)
      <4>2. "edits" \notin {"tokens", "delta"}
        OBVIOUS
      <4> QED BY <4>1, <4>2
    <3>4. CASE CodeAction(msg)
      <4>1. s2c' = s2c \o NotOpen(msg.id) \/ \E body : s2c' = s2c \o respond(msg.id, "actions", body)
        BY <3>4, Zenon DEF CodeAction, Send
      <4>2. "actions" \notin {"tokens", "delta"}
        OBVIOUS
      <4> QED BY <4>1, <4>2
    <3>5. CASE Send(respond(msg.id, "error", <<"MethodNotFound">>))
      <4>1. s2c' = s2c \o respond(msg.id, "error", <<"MethodNotFound">>)
        BY <3>5 DEF Send
      <4>2. "error" \notin {"tokens", "delta"}
        OBVIOUS
      <4> QED BY <4>1, <4>2
    <3>6. CASE ShutDown(msg)
      <4>1. s2c' = s2c \o respond(msg.id, "null", <<>>)
        BY <3>6 DEF ShutDown, Send
      <4>2. "null" \notin {"tokens", "delta"}
        OBVIOUS
      <4> QED BY <4>1, <4>2
    <3>7. CASE (SemanticTokensFull(msg) \/ SemanticTokensFullDelta(msg)) /\ ~docs[msg.uri].open
      <4>1. s2c' = s2c \o NotOpen(msg.id)
        BY <3>7, Zenon DEF SemanticTokensFull, SemanticTokensFullDelta, HandOut, Send
      <4> QED BY <4>1
    <3>8. \/ InvalidParams(msg) \/ Read(msg) \/ Formatting(msg) \/ CodeAction(msg) \/ ShutDown(msg)
          \/ Send(respond(msg.id, "error", <<"MethodNotFound">>))
          \/ (SemanticTokensFull(msg) \/ SemanticTokensFullDelta(msg)) /\ ~docs[msg.uri].open
      BY <1>4, Zenon DEF handle_request
    <3> QED BY <3>1, <3>2, <3>3, <3>4, <3>5, <3>6, <3>7, <3>8
  <2>3. \E out : s2c' = s2c \o out /\ Plain(out)
    BY <1>1, <1>2, <2>2
  <2>4. \E x : s2c' = s2c \o <<x>> /\ x.kind \notin {"tokens", "delta"}
    BY <2>3 DEF Plain
  <2> QED BY <2>1, <2>4
<1> QED BY <1>3, <1>4

LEMMA TokensServe ==
    ASSUME TokensInOrder, AnswerInv, SyncInv, TokensInv, Serve
    PROVE  TokensInv'
<1>1. PICK msg : msg = Head(c2s)
  OBVIOUS
<1>2. /\ c2s # <<>> /\ c2s' = Tail(c2s) /\ copy' = copy /\ asked' = asked /\ baseline' = baseline
  BY Zenon DEF Serve, cvars
<1>3. IsSeq(c2s) /\ IsSeq(s2c) /\ IsSeq(asked) /\ Keeps(asked, asked)
  BY SameKept DEF AnswerInv
<1>4. PICK H : Results(H)
  BY DEF TokensInv
<1>5. result_ids \in Nat /\ DOMAIN tokens = Uri /\ DOMAIN baseline = Uri
  BY DEF TokensInv
<1>6. Documents(docs) /\ (msg.kind = "request" => Concerns(msg, docs, asked))
  <2>1. PICK D : D[0] = docs /\ D[Len(c2s)] = copy /\ Chain(D, c2s, asked)
    BY DEF SyncInv
  <2>2. docs' = Taken(Head(c2s), docs)
    BY ServeTakes
  <2> QED BY <1>1, <1>2, <1>3, <2>1, <2>2, Shifts
<1>7. \/ /\ msg.kind = "request" /\ docs[msg.uri].open
         /\ SemanticTokensFull(msg) \/ SemanticTokensFullDelta(msg)
      \/ DidOpen(msg) \/ DidChange(msg) \/ DidClose(msg) \/ ShutDown(msg)
      \/ handle_request(msg) /\ ~SemanticTokensFull(msg) /\ ~SemanticTokensFullDelta(msg)
      \/ (SemanticTokensFull(msg) \/ SemanticTokensFullDelta(msg)) /\ ~docs[msg.uri].open
  <2>1. \/ msg.kind = "request" /\ handle_request(msg)
        \/ DidOpen(msg) \/ DidChange(msg) \/ DidClose(msg) \/ ShutDown(msg)
    BY <1>1, Zenon DEF Serve
  <2> QED BY <2>1
<1>8. \E G : /\ result_ids' \in Nat /\ Grown(H, result_ids, G, result_ids')
             /\ DOMAIN tokens' = Uri /\ \A u \in Uri : Handed(G, result_ids', tokens'[u])
             /\ s2c' = s2c \/ \E x : s2c' = s2c \o <<x>> /\ Handing(x, G, result_ids', asked)
  <2>1. CASE /\ msg.kind = "request" /\ docs[msg.uri].open
             /\ SemanticTokensFull(msg) \/ SemanticTokensFullDelta(msg)
    BY <1>1, <1>2, <1>4, <1>6, <2>1, Hands
  <2>2. CASE \/ DidOpen(msg) \/ DidChange(msg) \/ DidClose(msg) \/ ShutDown(msg)
             \/ handle_request(msg) /\ ~SemanticTokensFull(msg) /\ ~SemanticTokensFullDelta(msg)
             \/ (SemanticTokensFull(msg) \/ SemanticTokensFullDelta(msg)) /\ ~docs[msg.uri].open
    <3>1. /\ result_ids' = result_ids
          /\ tokens' = tokens \/ tokens' = [tokens EXCEPT ![msg.uri] = NoTokens]
          /\ s2c' = s2c \/ \E x : s2c' = s2c \o <<x>> /\ x.kind \notin {"tokens", "delta"}
      BY <2>2, PlainServe
    <3>2. \A x : x.kind \notin {"tokens", "delta"} => Handing(x, H, result_ids', asked)
      BY DEF Handing
    <3>3. Handed(H, result_ids', NoTokens)
      BY DEF Handed, NoTokens
    <3>4. \A u \in Uri : Handed(H, result_ids', tokens[u])
      BY <1>4, <3>1 DEF Results
    <3>5. DOMAIN tokens' = Uri /\ \A u \in Uri : tokens'[u] = tokens[u] \/ tokens'[u] = NoTokens
      BY <1>5, <3>1
    <3>6. Grown(H, result_ids, H, result_ids') /\ result_ids' \in Nat
      BY <1>5, <3>1 DEF Grown
    <3> QED BY <3>1, <3>2, <3>3, <3>4, <3>5, <3>6
  <2> QED BY <1>7, <2>1, <2>2
<1>9. PICK G : /\ result_ids' \in Nat /\ Grown(H, result_ids, G, result_ids')
               /\ DOMAIN tokens' = Uri /\ \A u \in Uri : Handed(G, result_ids', tokens'[u])
               /\ s2c' = s2c \/ \E x : s2c' = s2c \o <<x>> /\ Handing(x, G, result_ids', asked)
  BY <1>8
<1>10. /\ \A held : Held(H, result_ids, held) => Held(G, result_ids', held)
       /\ \A m : Quoting(m, H, result_ids, asked) => Quoting(m, G, result_ids', asked)
       /\ \A m : Handing(m, H, result_ids, asked) => Handing(m, G, result_ids', asked)
  BY <1>3, <1>9, GrownKnows
<1>11. \A u \in Uri : Held(G, result_ids', baseline'[u])
  BY <1>2, <1>4, <1>10 DEF Results
<1>12. \A j \in 1..Len(c2s') : Quoting(c2s'[j], G, result_ids', asked')
  <2>1. /\ Len(c2s) \in Nat \ {0} /\ Len(c2s') = Len(c2s) - 1
        /\ \A i \in 1..Len(c2s') : c2s'[i] = c2s[i + 1]
    BY <1>2, <1>3, TailIsSeq
  <2>2. \A i \in 1..Len(c2s') : i + 1 \in 1..Len(c2s)
    BY <2>1
  <2>3. \A i \in 1..Len(c2s) : Quoting(c2s[i], G, result_ids', asked)
    BY <1>4, <1>10 DEF Results
  <2> QED BY <1>2, <2>1, <2>2, <2>3
<1>13. \A j \in 1..Len(s2c') : Handing(s2c'[j], G, result_ids', asked')
  <2>1. \A j \in 1..Len(s2c) : Handing(s2c[j], G, result_ids', asked)
    BY <1>4, <1>10 DEF Results
  <2>2. CASE s2c' = s2c
    BY <1>2, <2>1, <2>2
  <2>3. CASE \E x : s2c' = s2c \o <<x>> /\ Handing(x, G, result_ids', asked)
    <3>1. PICK x : s2c' = s2c \o <<x>> /\ Handing(x, G, result_ids', asked)
      BY <2>3
    <3>2. /\ Len(s2c') = Len(s2c) + 1 /\ Len(s2c) \in Nat /\ s2c'[Len(s2c) + 1] = x
          /\ \A i \in 1..Len(s2c) : s2c'[i] = s2c[i]
      BY <1>3, <3>1, SendIsAppend, AppendIsSeq
    <3>3. \A j \in 1..Len(s2c') : j \in 1..Len(s2c) \/ j = Len(s2c) + 1
      BY <3>2
    <3> QED BY <1>2, <2>1, <3>1, <3>2, <3>3
  <2> QED BY <1>9, <2>2, <2>3
<1>14. Results(G)'
  BY <1>9, <1>11, <1>12, <1>13 DEF Results
<1> QED BY <1>2, <1>5, <1>9, <1>14 DEF TokensInv

LEMMA TokensReceive ==
    ASSUME AnswerInv, AskedInv, TokensInv, Receive
    PROVE  TokensInv'
<1>1. PICK msg : msg = Head(s2c) /\ (ReceiveDiagnostics(msg) \/ ReceiveResponse(msg))
  BY Zenon DEF Receive
<1>2. s2c # <<>> /\ s2c' = Tail(s2c) /\ tokens' = tokens /\ result_ids' = result_ids
  BY Zenon DEF Receive, svars
<1>3. IsSeq(c2s) /\ IsSeq(s2c) /\ IsSeq(asked) /\ Keeps(asked, asked')
  BY AskedKept DEF AnswerInv, Next
<1>4. PICK H : Results(H)
  BY DEF TokensInv
<1>5. PICK n \in Nat : n = result_ids /\ Grown(H, n, H, n)
  BY DEF TokensInv, Grown
<1>6. /\ \A m : Quoting(m, H, n, asked) => Quoting(m, H, n, asked')
      /\ \A m : Handing(m, H, n, asked) => Handing(m, H, n, asked')
  BY <1>3, <1>5, GrownKnows
<1>7. Handing(msg, H, n, asked) /\ \A j \in 1..Len(s2c') : Handing(s2c'[j], H, n, asked')
  <2>1. /\ Len(s2c) \in Nat \ {0} /\ Len(s2c') = Len(s2c) - 1 /\ Head(s2c) = s2c[1]
        /\ \A i \in 1..Len(s2c') : s2c'[i] = s2c[i + 1]
    BY <1>2, <1>3, TailIsSeq
  <2>2. 1 \in 1..Len(s2c) /\ \A i \in 1..Len(s2c') : i + 1 \in 1..Len(s2c)
    BY <2>1
  <2>3. \A j \in 1..Len(s2c) : Handing(s2c[j], H, n, asked)
    BY <1>4, <1>5 DEF Results
  <2> QED BY <1>1, <1>6, <2>1, <2>2, <2>3
<1>8. \A j \in 1..Len(c2s') : Quoting(c2s'[j], H, n, asked')
  <2>1. \A j \in 1..Len(c2s) : Quoting(c2s[j], H, n, asked')
    BY <1>4, <1>5, <1>6 DEF Results
  <2>2. c2s' = c2s \/ \E m : c2s' = Append(c2s, m) /\ m.kind = "change"
    <3>1. ASSUME NEW u, NEW edits, NEW all, ApplyEdits(u, edits, all)
          PROVE  \E m : c2s' = Append(c2s, m) /\ m.kind = "change"
      <4>1. PICK changes : c2s' = Append(c2s, [kind |-> "change", uri |-> u, version |-> ops, changes |-> changes])
        BY <3>1, Zenon DEF ApplyEdits
      <4>2. [kind |-> "change", uri |-> u, version |-> ops, changes |-> changes].kind = "change"
        OBVIOUS
      <4> QED BY <4>1, <4>2
    <3>2. c2s' = c2s \/ \E u, edits, all : ApplyEdits(u, edits, all)
      BY <1>1, Zenon DEF ReceiveDiagnostics, ReceiveResponse
    <3> QED BY <3>1, <3>2
  <2>3. CASE c2s' = c2s
    BY <2>1, <2>3
  <2>4. CASE \E m : c2s' = Append(c2s, m) /\ m.kind = "change"
    <3>1. PICK m : c2s' = Append(c2s, m) /\ m.kind = "change"
      BY <2>4
    <3>2. /\ Len(c2s') = Len(c2s) + 1 /\ Len(c2s) \in Nat /\ c2s'[Len(c2s) + 1] = m
          /\ \A i \in 1..Len(c2s) : c2s'[i] = c2s[i]
      BY <1>3, <3>1, AppendIsSeq
    <3>3. \A j \in 1..Len(c2s') : j \in 1..Len(c2s) \/ j = Len(c2s) + 1
      BY <3>2
    <3>4. Quoting(m, H, n, asked')
      BY <3>1 DEF Quoting
    <3> QED BY <2>1, <3>2, <3>3, <3>4
  <2> QED BY <2>2, <2>3, <2>4
<1>9. DOMAIN baseline' = Uri /\ \A u \in Uri : Held(H, n, baseline'[u])
  <2>1. DOMAIN baseline = Uri /\ \A u \in Uri : Held(H, n, baseline[u])
    BY <1>4, <1>5 DEF TokensInv, Results
  <2>2. ASSUME NEW u, NEW held, Held(H, n, held), baseline' = [baseline EXCEPT ![u] = held]
        PROVE  DOMAIN baseline' = Uri /\ \A v \in Uri : Held(H, n, baseline'[v])
    <3>1. DOMAIN baseline' = Uri /\ \A v \in Uri : baseline'[v] = baseline[v] \/ baseline'[v] = held
      BY <2>1, <2>2
    <3> QED BY <2>1, <2>2, <3>1
  <2>3. PICK ask : ask = asked[msg.id]
    OBVIOUS
  <2>4. \/ baseline' = baseline
        \/ /\ msg.kind = "tokens"
           /\ baseline' = [baseline EXCEPT ![ask.uri] = [id |-> msg.body.id, data |-> msg.body.data, doc |-> ask.doc]]
        \/ /\ msg.kind = "delta"
           /\ baseline' = [baseline EXCEPT ![ask.uri] =
                             [id |-> msg.body.id, data |-> ApplyDelta(ask.quoted, msg.body.edits), doc |-> ask.doc]]
    BY <1>1, <2>3, Zenon DEF ReceiveDiagnostics, ReceiveResponse
  <2>5. ASSUME NEW id, NEW data, Known(H, n, id, data), data = EncodedOf(ask.doc)
        PROVE  Held(H, n, [id |-> id, data |-> data, doc |-> ask.doc])
    <3> DEFINE held == [id |-> id, data |-> data, doc |-> ask.doc]
    <3>1. held.id = id /\ held.data = data /\ held.doc = ask.doc
      OBVIOUS
    <3> HIDE DEF held
    <3>2. Held(H, n, held)
      BY <2>5, <3>1 DEF Held
    <3> QED BY <3>2 DEF held
  <2>6. msg.kind = "tokens" => Held(H, n, [id |-> msg.body.id, data |-> msg.body.data, doc |-> ask.doc])
    BY <1>7, <2>3, <2>5 DEF Handing
  <2>7. msg.kind = "delta" => Held(H, n, [id |-> msg.body.id, data |-> ApplyDelta(ask.quoted, msg.body.edits), doc |-> ask.doc])
    BY <1>7, <2>3, <2>5 DEF Handing
  <2> QED BY <2>1, <2>2, <2>4, <2>6, <2>7
<1>10. \A u \in Uri : Handed(H, n, tokens'[u])
  BY <1>2, <1>4, <1>5 DEF Results
<1>11. Results(H)'
  BY <1>2, <1>5, <1>7, <1>8, <1>9, <1>10 DEF Results
<1> QED BY <1>2, <1>5, <1>9, <1>11 DEF TokensInv

LEMMA TokensClient ==
    ASSUME AnswerInv, AskedInv, TokensInv, [Next]_vars,
           (\E u \in Uri : OpenDocument(u) \/ CloseDocument(u) \/ ReplaceText(u) \/ Request(u)) \/ Shutdown
    PROVE  TokensInv'
<1>1. tokens' = tokens /\ result_ids' = result_ids /\ s2c' = s2c /\ baseline' = baseline
  BY ZenonT(40) DEF OpenDocument, CloseDocument, ReplaceText, Request, Shutdown, Post, svars
<1>2. IsSeq(c2s) /\ IsSeq(asked) /\ Keeps(asked, asked')
  BY AskedKept DEF AnswerInv
<1>3. PICK H : Results(H)
  BY DEF TokensInv
<1>4. PICK n \in Nat : n = result_ids /\ Grown(H, n, H, n)
  BY DEF TokensInv, Grown
<1>5. /\ \A m : Quoting(m, H, n, asked) => Quoting(m, H, n, asked')
      /\ \A m : Handing(m, H, n, asked) => Handing(m, H, n, asked')
  BY <1>2, <1>4, GrownKnows
<1>6. \E m : c2s' = Append(c2s, m) /\ Quoting(m, H, n, asked')
  <2>1. CASE \E u \in Uri : Request(u)
    <3>1. PICK u \in Uri : Request(u)
      BY <2>1
    <3>2. PICK doc, id, method, malformed, only, range :
            /\ asked' = Append(asked, [method |-> method, uri |-> u, doc |-> doc, quoted |-> baseline[u].data, got |-> 0])
            /\ c2s' = Append(c2s, [kind |-> "request", id |-> Len(asked) + 1, uri |-> u, method |-> method,
                                   malformed |-> malformed, only |-> only, previous |-> baseline[u].id, range |-> range])
      BY <3>1, Zenon DEF Request, Post
    <3> DEFINE a == [method |-> method, uri |-> u, doc |-> doc, quoted |-> baseline[u].data, got |-> 0]
               m == [kind |-> "request", id |-> Len(asked) + 1, uri |-> u, method |-> method,
                     malformed |-> malformed, only |-> only, previous |-> baseline[u].id, range |-> range]
    <3>3. a.quoted = baseline[u].data /\ m.id = Len(asked) + 1 /\ m.previous = baseline[u].id
      OBVIOUS
    <3> HIDE DEF a, m
    <3>4. Len(asked') = Len(asked) + 1 /\ Len(asked) \in Nat /\ asked'[Len(asked) + 1] = a
      BY <1>2, <3>2, AppendIsSeq DEF a
    <3>5. m.id \in 1..Len(asked') /\ asked'[m.id].quoted = baseline[u].data
      BY <3>3, <3>4
    <3>6. baseline[u].id # 0 => Known(H, n, baseline[u].id, baseline[u].data)
      BY <1>3, <1>4 DEF Results, Held
    <3>7. Quoting(m, H, n, asked')
      BY <3>3, <3>5, <3>6 DEF Quoting
    <3> QED BY <3>2, <3>7 DEF m
  <2>2. CASE (\E u \in Uri : OpenDocument(u) \/ CloseDocument(u) \/ ReplaceText(u)) \/ Shutdown
    <3>1. \/ \E u, lang, text : c2s' = Append(c2s, [kind |-> "open", uri |-> u, lang |-> lang, text |-> text, version |-> ops])
          \/ \E u : c2s' = Append(c2s, [kind |-> "close", uri |-> u])
          \/ \E u, changes : c2s' = Append(c2s, [kind |-> "change", uri |-> u, version |-> ops, changes |-> changes])
          \/ \E id : c2s' = Append(c2s, [kind |-> "shutdown", id |-> id])
      BY <2>2, Zenon DEF OpenDocument, CloseDocument, ReplaceText, Shutdown, Post
    <3>2. /\ \A u, lang, text : [kind |-> "open", uri |-> u, lang |-> lang, text |-> text, version |-> ops].kind # "request"
          /\ \A u : [kind |-> "close", uri |-> u].kind # "request"
          /\ \A u, changes : [kind |-> "change", uri |-> u, version |-> ops, changes |-> changes].kind # "request"
          /\ \A id : [kind |-> "shutdown", id |-> id].kind # "request"
      OBVIOUS
    <3>3. \E m : c2s' = Append(c2s, m) /\ m.kind # "request"
      BY <3>1, <3>2
    <3> QED BY <3>3 DEF Quoting
  <2> QED BY <2>1, <2>2
<1>7. PICK m : c2s' = Append(c2s, m) /\ Quoting(m, H, n, asked')
  BY <1>6
<1>8. \A j \in 1..Len(c2s') : Quoting(c2s'[j], H, n, asked')
  <2>1. \A j \in 1..Len(c2s) : Quoting(c2s[j], H, n, asked')
    BY <1>3, <1>4, <1>5 DEF Results
  <2>2. /\ Len(c2s') = Len(c2s) + 1 /\ Len(c2s) \in Nat /\ c2s'[Len(c2s) + 1] = m
        /\ \A i \in 1..Len(c2s) : c2s'[i] = c2s[i]
    BY <1>2, <1>7, AppendIsSeq
  <2>3. \A j \in 1..Len(c2s') : j \in 1..Len(c2s) \/ j = Len(c2s) + 1
    BY <2>2
  <2> QED BY <1>7, <2>1, <2>2, <2>3
<1>9. \A j \in 1..Len(s2c') : Handing(s2c'[j], H, n, asked')
  BY <1>1, <1>3, <1>4, <1>5 DEF Results
<1>10. Results(H)'
  BY <1>1, <1>3, <1>4, <1>8, <1>9 DEF Results
<1> QED BY <1>1, <1>10 DEF TokensInv

LEMMA TokensInit == Init => TokensInv
<1> SUFFICES ASSUME Init PROVE TokensInv
  OBVIOUS
<1>1. Len(c2s) = 0 /\ Len(s2c) = 0 /\ 1..0 = {}
  BY EmptySeq DEF Init
<1>2. NoTokens.id = 0 /\ [id |-> 0, data |-> <<>>, doc |-> Closed].id = 0
  BY DEF NoTokens
<1>3. \A u \in Uri : tokens[u].id = 0 /\ baseline[u].id = 0
  BY <1>2 DEF Init
<1>4. Results(0)
  BY <1>1, <1>3 DEF Results, Handed, Held
<1> QED BY <1>4 DEF Init, TokensInv

LEMMA TokensStep ==
    ASSUME TokensInOrder, AnswerInv, AskedInv, SyncInv, TokensInv, [Next]_vars
    PROVE  TokensInv'
<1>1. CASE UNCHANGED vars
  <2>1. tokens' = tokens /\ result_ids' = result_ids /\ c2s' = c2s /\ s2c' = s2c /\ baseline' = baseline /\ asked' = asked
    BY <1>1 DEF vars, svars, cvars
  <2> QED BY <2>1 DEF TokensInv, Results
<1> QED BY <1>1, TokensServe, TokensReceive, TokensClient DEF Next

\* The tokens the client holds are those of the document at the request they
\* answer, however many splices they came as: a result id names one list, the
\* splice between the common whole-token prefix and suffix makes the new list
\* of the one quoted, and a quoted id that is not the server's last is answered
\* in full (semantic_tokens_delta, token_edit, SemBuilder::encode).
THEOREM DeltasFaithful == ASSUME FixesApart, PrettyTexts, TokensInOrder PROVE Spec => []DeltaFaithful
<1>1. TokensInv => DeltaFaithful
  BY DEF TokensInv, Results, Held, DeltaFaithful, EncodedOf
<1>2. AnswerInv /\ AskedInv /\ SyncInv /\ TokensInv /\ [Next]_vars => TokensInv'
  BY TokensStep
<1> QED BY <1>1, <1>2, TokensInit, AnswerAlways, SyncAlways, PTL DEF Spec

=============================================================================
