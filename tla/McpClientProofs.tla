-------------------------- MODULE McpClientProofs --------------------------
(***************************************************************************)
(* Safety of the MCP client for any number of requests and any guarded     *)
(* steps: answers go to their requests, no reply is lost or doubled,       *)
(* nobody waits for a dead server, no started server is left behind, and   *)
(* the client implements Calls.                                            *)
(***************************************************************************)
EXTENDS McpCalls, TLAPS

(* What the queue and the pipe hold after a message is put or taken.       *)
LEMMA InAppend ==
    ASSUME NEW S, NEW seq \in Seq(S), NEW m \in S, NEW i
    PROVE  In(i, Append(seq, m)) <=> In(i, seq) \/ i = m
<1>1. /\ Len(Append(seq, m)) = Len(seq) + 1
      /\ Len(seq) \in Nat
      /\ \A k \in 1 .. Len(seq) : Append(seq, m)[k] = seq[k]
      /\ Append(seq, m)[Len(seq) + 1] = m
  OBVIOUS
<1> QED  BY <1>1 DEF In

LEMMA InTail ==
    ASSUME NEW S, NEW seq \in Seq(S), seq # <<>>, NEW i
    PROVE  /\ In(i, seq) <=> i = Head(seq) \/ In(i, Tail(seq))
           /\ Once(seq) /\ Head(seq) # Eof => ~In(Head(seq), Tail(seq))
<1>1. /\ Len(seq) \in Nat /\ Len(seq) > 0
      /\ Len(Tail(seq)) = Len(seq) - 1
      /\ \A k \in 1 .. Len(seq) - 1 : Tail(seq)[k] = seq[k + 1]
      /\ Head(seq) = seq[1]
  OBVIOUS
<1>2. ASSUME In(i, seq), i # Head(seq)
      PROVE  In(i, Tail(seq))
  <2>1. PICK k \in 1 .. Len(seq) : seq[k] = i
    BY <1>2 DEF In
  <2>2. k - 1 \in 1 .. Len(seq) - 1 /\ Tail(seq)[k - 1] = i
    BY <1>1, <1>2, <2>1
  <2> QED  BY <1>1, <2>2 DEF In
<1>3. In(Head(seq), seq)
  BY <1>1 DEF In
<1>4. ASSUME NEW j, In(j, Tail(seq))
      PROVE  \E k \in 2 .. Len(seq) : seq[k] = j
  <2>1. PICK k \in 1 .. Len(seq) - 1 : Tail(seq)[k] = j
    BY <1>1, <1>4 DEF In
  <2> QED  BY <1>1, <2>1
<1>5. In(i, Tail(seq)) => In(i, seq)
  BY <1>1, <1>4 DEF In
<1>6. Once(seq) /\ Head(seq) # Eof => ~In(Head(seq), Tail(seq))
  BY <1>1, <1>4 DEF Once
<1> QED  BY <1>2, <1>3, <1>5, <1>6

LEMMA OnceAppend ==
    ASSUME NEW S, NEW seq \in Seq(S), NEW m \in S, Once(seq),
           m = Eof \/ ~In(m, seq)
    PROVE  Once(Append(seq, m))
<1>1. /\ Len(Append(seq, m)) = Len(seq) + 1
      /\ Len(seq) \in Nat
      /\ \A k \in 1 .. Len(seq) : Append(seq, m)[k] = seq[k]
      /\ Append(seq, m)[Len(seq) + 1] = m
  OBVIOUS
<1> QED  BY <1>1 DEF Once, In

LEMMA OnceTail ==
    ASSUME NEW S, NEW seq \in Seq(S), seq # <<>>, Once(seq)
    PROVE  Once(Tail(seq))
<1>1. /\ Len(seq) \in Nat
      /\ Len(Tail(seq)) = Len(seq) - 1
      /\ \A k \in 1 .. Len(seq) - 1 : Tail(seq)[k] = seq[k + 1]
  OBVIOUS
<1> QED  BY <1>1 DEF Once
-----------------------------------------------------------------------------
(* The end mark is no request number.                                      *)
LEMMA EofIsNoId == Eof \notin Ids /\ 0 .. MaxRequests \subseteq Nat
  BY McpAssumption DEF Eof, Ids

LEMMA HeadTail ==
    ASSUME NEW S, NEW seq \in Seq(S), seq # <<>>
    PROVE  Head(seq) \in S /\ Tail(seq) \in Seq(S)
  OBVIOUS

(* Every variable keeps its type.                                          *)
LEMMA TypeStep == TypeOK /\ [Next]_vars => TypeOK'
<1> SUFFICES ASSUME TypeOK, [Next]_vars PROVE TypeOK'
  OBVIOUS
<1> USE EofIsNoId, McpAssumption DEF TypeOK, callerVars, serverVars
<1>1. CASE Send
  <2>1. ident' \in 0 .. MaxRequests /\ ident' \in Ids /\ ident' # 0
    BY <1>1 DEF Send, Ids
  <2> QED  BY <1>1, <2>1 DEF Send
<1>2. CASE Initialized
  BY <1>2 DEF Initialized
<1>3. ASSUME NEW m \in Ids \cup {Eof}, Get(m)
      PROVE  /\ ident \in 0 .. MaxRequests /\ ident # 0 /\ ident' = ident
             /\ responses' \in Seq(Ids \cup {Eof})
             /\ entered' = entered /\ status' = status /\ server' = server
             /\ inbox' = inbox /\ stdout' = stdout /\ reading' = reading
  BY <1>3, HeadTail DEF Get
<1>4. CASE Receive
  <2>1. ident \in Ids
    BY <1>4 DEF Receive, Get, Ids
  <2>2. <<ident, ident>> \in Ids \X Ids
    BY <2>1
  <2>3. given' \subseteq Ids \X Ids /\ ident # 0
    BY <1>4, <2>1, <2>2 DEF Receive, Ids
  <2>4. /\ at' \in {"idle", "initialized", "raised"}
        /\ failed' \in BOOLEAN
    BY <1>4 DEF Receive, Use
  <2> QED  BY <1>3, <1>4, <2>1, <2>3, <2>4 DEF Receive
<1>5. CASE SetAside
  BY <1>3, <1>5 DEF SetAside, Get
<1>6. CASE ReceiveEof
  BY <1>3, <1>6 DEF ReceiveEof, Raise
<1>7. CASE Timeout
  BY <1>7 DEF Timeout, Raise
<1>8. CASE BadInput
  BY <1>8 DEF BadInput
<1>9. CASE Finish
  BY <1>9 DEF Finish, Leave, Statuses
<1>10. CASE GiveUp
  BY <1>10 DEF GiveUp, Leave, Statuses
<1>11. CASE QuietExit
  BY <1>11 DEF QuietExit, Leave, Statuses
<1>12. CASE ReadLine
  <2>1. Head(stdout) \in Ids /\ stdout' \in Seq(Ids)
    BY <1>12, HeadTail DEF ReadLine
  <2> QED  BY <1>12, <2>1 DEF ReadLine
<1>13. CASE ReadEof
  <2>1. responses' \in Seq(Ids \cup {Eof})
    BY <1>13 DEF ReadEof
  <2> QED  BY <1>13, <2>1 DEF ReadEof
<1>14. ASSUME NEW i \in Ids, Answer(i) PROVE TypeOK'
  BY <1>14 DEF Answer
<1>15. CASE ServerExits
  BY <1>15 DEF ServerExits
<1>16. CASE UNCHANGED vars
  BY <1>16 DEF vars
<1> QED
  BY <1>1, <1>2, <1>4, <1>5, <1>6, <1>7, <1>8, <1>9, <1>10, <1>11, <1>12,
     <1>13, <1>14, <1>15, <1>16 DEF Next, Caller, Reader

(* The sets of replies in the pipe and in the queue after a message is     *)
(* read, taken, sent or marked.                                            *)
LEMMA LineRead ==
    ASSUME TypeOK, Once(stdout), ReadLine
    PROVE  \E h \in InPipe : InPipe' = InPipe \ {h} /\ Queued' = Queued \cup {h}
<1> DEFINE h == Head(stdout)
<1> USE DEF TypeOK
<1>1. stdout # <<>> /\ h \in Ids /\ h # Eof
  BY HeadTail, EofIsNoId DEF ReadLine
<1>2. h \in InPipe /\ InPipe' = InPipe \ {h}
  BY <1>1, InTail DEF ReadLine, InPipe
<1>3. Queued' = Queued \cup {h}
  <2>1. h \in Ids \cup {Eof}
    BY <1>1
  <2>2. \A i : In(i, Append(responses, h)) <=> In(i, responses) \/ i = h
    BY <2>1, InAppend
  <2>3. responses' = Append(responses, h)
    BY DEF ReadLine
  <2> QED  BY <1>1, <2>2, <2>3 DEF Queued
<1> QED  BY <1>2, <1>3

LEMMA MessageTaken ==
    ASSUME TypeOK, Once(responses), NEW m \in Ids \cup {Eof}, Get(m)
    PROVE  /\ m \in Ids => m \in Queued /\ Queued' = Queued \ {m}
           /\ m = Eof => Queued' = Queued
           /\ m # Eof /\ In(Eof, responses) => In(Eof, responses')
<1> USE DEF TypeOK
<1>1. \A i : /\ In(i, responses) <=> i = m \/ In(i, responses')
             /\ m # Eof => ~In(m, responses')
  BY InTail DEF Get
<1> QED  BY <1>1, EofIsNoId DEF Queued

LEMMA MarkPut ==
    ASSUME TypeOK, ReadEof
    PROVE  Queued' = Queued /\ In(Eof, responses')
<1>1. \A i : In(i, responses') <=> In(i, responses) \/ i = Eof
  BY InAppend DEF TypeOK, ReadEof
<1> QED  BY <1>1, EofIsNoId DEF Queued

LEMMA Answered ==
    ASSUME TypeOK, NEW i \in Ids, Answer(i)
    PROVE  InPipe' = InPipe \cup {i}
<1>1. \A j : In(j, stdout') <=> In(j, stdout) \/ j = i
  BY InAppend DEF TypeOK, Answer
<1> QED  BY <1>1 DEF InPipe

(* No reply gets into the pipe or the queue twice.                         *)
LEMMA OnceStep ==
    TypeOK /\ NoReplyLost /\ Once(stdout) /\ Once(responses) /\ [Next]_vars
        => Once(stdout)' /\ Once(responses)'
<1> SUFFICES ASSUME TypeOK, NoReplyLost, Once(stdout), Once(responses),
                    [Next]_vars
             PROVE  Once(stdout)' /\ Once(responses)'
  OBVIOUS
<1> USE DEF TypeOK
<1>1. CASE ReadLine
  <2>1. stdout # <<>> /\ Head(stdout) \in Ids
    BY <1>1, HeadTail DEF ReadLine
  <2>2. Head(stdout) \in InPipe
    BY <2>1, InTail DEF InPipe
  <2>3. ~In(Head(stdout), responses)
    BY <2>1, <2>2 DEF NoReplyLost, Queued
  <2>4. Head(stdout) \in Ids \cup {Eof}
    BY <2>1
  <2>5. Once(Append(responses, Head(stdout)))
    BY <2>3, <2>4, OnceAppend
  <2>6. Once(Tail(stdout))
    BY <2>1, OnceTail
  <2> QED  BY <1>1, <2>5, <2>6 DEF ReadLine, Once
<1>2. CASE ReadEof
  <2>1. Once(Append(responses, Eof))
    BY OnceAppend
  <2> QED  BY <1>2, <2>1 DEF ReadEof, Once
<1>3. ASSUME NEW i \in Ids, Answer(i)
      PROVE  Once(stdout)' /\ Once(responses)'
  <2>1. ~In(i, stdout)
    BY <1>3 DEF Answer, NoReplyLost, InPipe
  <2>2. Once(Append(stdout, i))
    BY <2>1, OnceAppend
  <2> QED  BY <1>3, <2>2 DEF Answer, Once
<1>4. ASSUME NEW m, Get(m), stdout' = stdout
      PROVE  Once(stdout)' /\ Once(responses)'
  <2>1. Once(Tail(responses))
    BY <1>4, OnceTail DEF Get
  <2> QED  BY <1>4, <2>1 DEF Get, Once
<1>5. CASE Receive \/ SetAside \/ ReceiveEof
  BY <1>4, <1>5 DEF Receive, SetAside, ReceiveEof, Get
<1>6. ASSUME UNCHANGED <<stdout, responses>>
      PROVE  Once(stdout)' /\ Once(responses)'
  BY <1>6 DEF Once
<1> QED
  BY <1>1, <1>2, <1>3, <1>5, <1>6 DEF Next, Caller, Reader, Send, Initialized,
     Timeout, BadInput, Finish, GiveUp, QuietExit, Leave, ServerExits, vars

(* The reader stops only at a dead server's last line.                     *)
LEMMA ReaderStep ==
    (~reading => server = "exited") /\ [Next]_vars
        => (~reading => server = "exited")'
<1> SUFFICES ASSUME ~reading => server = "exited", [Next]_vars
             PROVE  ~reading' => server' = "exited"
  OBVIOUS
<1> USE DEF callerVars, serverVars
<1>1. CASE ReadEof
  BY <1>1 DEF ReadEof
<1>2. ASSUME reading' = reading, server' \in {server, "exited"}
      PROVE  ~reading' => server' = "exited"
  BY <1>2
<1> QED
  BY <1>1, <1>2 DEF Next, Caller, Reader, Send, Initialized, Receive, SetAside,
     ReceiveEof, Get, Timeout, BadInput, Finish, GiveUp, QuietExit, Leave,
     ReadLine, Answer, ServerExits, vars

(* The end mark is there for the request that waits.                       *)
LEMMA WaitStep ==
    ASSUME TypeOK, Once(responses), NeverWaitsForTheDead,
           ~reading => server = "exited", [Next]_vars
    PROVE  NeverWaitsForTheDead'
<1> SUFFICES ASSUME at' = "waiting"
             PROVE  reading' \/ server' # "exited" \/ In(Eof, responses)'
  BY DEF NeverWaitsForTheDead
<1> USE DEF callerVars, serverVars
<1>1. CASE Send
  BY <1>1 DEF Send, TypeOK
<1>2. CASE SetAside
  <2>1. PICK m \in Ids \ {ident} : Get(m)
    BY <1>2 DEF SetAside
  <2>2. at = "waiting" /\ server' = server /\ reading' = reading
    BY <2>1 DEF Get, serverVars
  <2>3. In(Eof, responses) => In(Eof, responses)'
    BY <2>1, MessageTaken, EofIsNoId
  <2> QED  BY <2>2, <2>3 DEF NeverWaitsForTheDead
<1>3. CASE ReadLine
  <2>1. Head(stdout) \in Ids \cup {Eof}
    BY <1>3, HeadTail DEF ReadLine, TypeOK
  <2>2. In(Eof, responses) => In(Eof, responses)'
    BY <1>3, <2>1, InAppend DEF ReadLine, TypeOK
  <2> QED  BY <1>3, <2>2 DEF ReadLine, NeverWaitsForTheDead
<1>4. CASE ReadEof
  BY <1>4, MarkPut
<1>5. ASSUME at = "waiting", UNCHANGED <<reading, responses>>,
             server' = server \/ reading
      PROVE  reading' \/ server' # "exited" \/ In(Eof, responses)'
  BY <1>5 DEF NeverWaitsForTheDead
<1>6. CASE ServerExits
  BY <1>5, <1>6 DEF ServerExits
<1>7. ASSUME NEW i \in Ids, Answer(i)
      PROVE  reading' \/ server' # "exited" \/ In(Eof, responses)'
  BY <1>5, <1>7 DEF Answer
<1>8. CASE UNCHANGED vars
  BY <1>5, <1>8 DEF vars
<1>9. /\ ~Initialized /\ ~Receive /\ ~ReceiveEof /\ ~Timeout
      /\ ~BadInput /\ ~Finish /\ ~GiveUp /\ ~QuietExit
  BY DEF Initialized, Receive, Use, ReceiveEof, Raise, Timeout, BadInput,
     Finish, GiveUp, QuietExit, Leave
<1> QED
  BY <1>1, <1>2, <1>3, <1>4, <1>6, <1>7, <1>8, <1>9 DEF Next, Caller, Reader

(* Only replies to the very request are returned.                          *)
LEMMA OwnStep == OwnAnswers /\ [Next]_vars => OwnAnswers'
<1> SUFFICES ASSUME OwnAnswers, [Next]_vars PROVE OwnAnswers'
  OBVIOUS
<1> USE DEF OwnAnswers
<1>1. CASE Receive
  BY <1>1 DEF Receive
<1>2. CASE given' = given
  BY <1>2
<1> QED
  BY <1>1, <1>2 DEF Next, Caller, Reader, Send, Initialized, SetAside,
     ReceiveEof, Get, Timeout, BadInput, Finish, GiveUp, QuietExit, Leave,
     ReadLine, ReadEof, Answer, ServerExits, vars

(* A request that has returned does not wait any more.                     *)
LEMMA WaitingStep ==
    ASSUME TypeOK, NoReplyLost, at = "waiting" => ident \notin Returned,
           [Next]_vars
    PROVE  (at = "waiting" => ident \notin Returned)'
<1> SUFFICES ASSUME at' = "waiting" PROVE (ident \notin Returned)'
  OBVIOUS
<1> USE DEF callerVars, serverVars
<1>1. CASE Send
  <2>1. ident' \notin 1 .. ident /\ given' = given
    BY <1>1 DEF Send, TypeOK
  <2> QED  BY <2>1 DEF NoReplyLost, Accounted, Returned
<1>2. ASSUME at = "waiting", UNCHANGED <<ident, given>>
      PROVE  (ident \notin Returned)'
  BY <1>2 DEF Returned
<1>3. CASE SetAside
  BY <1>2, <1>3 DEF SetAside, Get
<1>4. CASE Reader
  BY <1>2, <1>4 DEF Reader, ReadLine, ReadEof
<1>5. CASE ServerExits \/ (\E i \in Ids : Answer(i)) \/ UNCHANGED vars
  BY <1>2, <1>5 DEF ServerExits, Answer, vars
<1>6. /\ ~Initialized /\ ~Receive /\ ~ReceiveEof /\ ~Timeout
      /\ ~BadInput /\ ~Finish /\ ~GiveUp /\ ~QuietExit
  BY DEF Initialized, Receive, Use, ReceiveEof, Raise, Timeout, BadInput,
     Finish, GiveUp, QuietExit, Leave
<1> QED  BY <1>1, <1>3, <1>4, <1>5, <1>6 DEF Next, Caller

(* Every exit of a started client closes it.                               *)
LEMMA OrphanStep == NoOrphans /\ [Next]_vars => NoOrphans'
<1> SUFFICES ASSUME NoOrphans, [Next]_vars, at' = "done", server' = "up"
             PROVE  ~entered'
  BY DEF NoOrphans
<1> USE DEF callerVars, serverVars
<1>1. CASE Finish \/ GiveUp \/ QuietExit
  BY <1>1 DEF Finish, GiveUp, QuietExit, Leave
<1>2. CASE UNCHANGED callerVars /\ (server' = server \/ server' = "exited")
  BY <1>2 DEF NoOrphans
<1>3. /\ ~Send /\ ~Initialized /\ ~Receive /\ ~SetAside /\ ~ReceiveEof
      /\ ~Timeout /\ ~BadInput
  BY DEF Send, Initialized, Receive, Use, SetAside, Get, ReceiveEof, Raise,
     Timeout, BadInput
<1> QED
  BY <1>1, <1>2, <1>3 DEF Next, Caller, Reader, ReadLine, ReadEof, Answer,
     ServerExits, vars

(* Every step moves a reply from one place to the next, or leaves it.      *)
LEMMA LostStep ==
    ASSUME TypeOK, Once(stdout), Once(responses), NoReplyLost, [Next]_vars
    PROVE  NoReplyLost'
<1> USE DEF callerVars, serverVars
<1>1. ASSUME ident' = ident, stdout' = stdout, responses' = responses,
             aside' = aside, given' = given,
             \/ server' = server /\ inbox' = inbox
             \/ server' = "exited" /\ inbox' = {}
      PROVE  NoReplyLost'
  <2>1. InPipe' = InPipe /\ Queued' = Queued /\ Returned' = Returned
    BY <1>1 DEF InPipe, Queued, Returned, In
  <2> QED  BY <1>1, <2>1 DEF NoReplyLost, Accounted
<1>2. CASE Send
  <2>1. InPipe' = InPipe /\ Queued' = Queued /\ Returned' = Returned
    BY <1>2 DEF Send, InPipe, Queued, Returned, In
  <2>2. 1 .. ident' = (1 .. ident) \cup {ident'} /\ ident' \notin 1 .. ident
    BY <1>2 DEF Send, TypeOK
  <2>3. CASE server = "up" /\ inbox' = inbox \cup {ident'}
    <3>1. /\ ident' \notin inbox \cup InPipe \cup Queued \cup aside \cup Returned
          /\ aside' = aside /\ server' = server
      BY <1>2, <2>2 DEF Send, NoReplyLost, Accounted
    <3> QED  BY <2>1, <2>2, <2>3, <3>1 DEF NoReplyLost, Accounted
  <2>4. CASE server = "exited" /\ UNCHANGED inbox
    BY <1>2, <2>1, <2>2, <2>4 DEF Send, NoReplyLost, Accounted
  <2> QED  BY <1>2, <2>3, <2>4 DEF Send
<1>3. CASE Receive
  <2>1. ident \in Ids /\ Get(ident)
    BY <1>3, HeadTail DEF Receive, Get, TypeOK, Ids
  <2>2. ident \in Queued /\ Queued' = Queued \ {ident}
    BY <2>1, MessageTaken
  <2>3. InPipe' = InPipe /\ Returned' = Returned \cup {ident}
    BY <1>3, <2>1 DEF Receive, Get, InPipe, Returned, In
  <2>4. UNCHANGED <<ident, inbox, aside, server>>
    BY <1>3 DEF Receive, Get
  <2> QED  BY <2>2, <2>3, <2>4 DEF NoReplyLost, Accounted
<1>4. CASE SetAside
  <2>1. PICK m \in Ids \ {ident} : Get(m) /\ aside' = aside \cup {m}
    BY <1>4 DEF SetAside
  <2>2. m \in Queued /\ Queued' = Queued \ {m}
    BY <2>1, MessageTaken
  <2>3. InPipe' = InPipe /\ Returned' = Returned
    BY <1>4, <2>1 DEF SetAside, Get, InPipe, Returned, In
  <2>4. UNCHANGED <<ident, inbox, server>>
    BY <2>1 DEF Get
  <2> QED  BY <2>1, <2>2, <2>3, <2>4 DEF NoReplyLost, Accounted
<1>5. CASE ReceiveEof
  <2>1. Queued' = Queued
    BY <1>5, MessageTaken DEF ReceiveEof
  <2>2. InPipe' = InPipe /\ Returned' = Returned
    BY <1>5 DEF ReceiveEof, Get, InPipe, Returned, In
  <2>3. UNCHANGED <<ident, inbox, server, aside>>
    BY <1>5 DEF ReceiveEof, Get
  <2> QED  BY <2>1, <2>2, <2>3 DEF NoReplyLost, Accounted
<1>6. CASE ReadLine
  <2>1. PICK h \in InPipe : InPipe' = InPipe \ {h} /\ Queued' = Queued \cup {h}
    BY <1>6, LineRead
  <2>2. Returned' = Returned /\ UNCHANGED <<ident, inbox, server, aside>>
    BY <1>6 DEF ReadLine, Returned
  <2> QED  BY <2>1, <2>2 DEF NoReplyLost, Accounted
<1>7. CASE ReadEof
  <2>1. Queued' = Queued
    BY <1>7, MarkPut
  <2>2. InPipe' = InPipe /\ Returned' = Returned
    BY <1>7 DEF ReadEof, InPipe, Returned, In
  <2>3. UNCHANGED <<ident, inbox, server, aside>>
    BY <1>7 DEF ReadEof
  <2> QED  BY <2>1, <2>2, <2>3 DEF NoReplyLost, Accounted
<1>8. ASSUME NEW i \in Ids, Answer(i) PROVE NoReplyLost'
  <2>1. InPipe' = InPipe \cup {i}
    BY <1>8, Answered
  <2>2. Queued' = Queued /\ Returned' = Returned
    BY <1>8 DEF Answer, Queued, Returned, In
  <2>3. i \in inbox /\ inbox' = inbox \ {i} /\ UNCHANGED <<ident, server, aside>>
    BY <1>8 DEF Answer
  <2> QED  BY <2>1, <2>2, <2>3 DEF NoReplyLost, Accounted
<1>9. CASE Initialized \/ Timeout \/ BadInput
  BY <1>1, <1>9 DEF Initialized, Timeout, BadInput
<1>10. CASE Finish \/ GiveUp \/ QuietExit
  BY <1>1, <1>10 DEF Finish, GiveUp, QuietExit, Leave
<1>11. CASE ServerExits \/ UNCHANGED vars
  BY <1>1, <1>11 DEF ServerExits, vars
<1> QED
  BY <1>2, <1>3, <1>4, <1>5, <1>6, <1>7, <1>8, <1>9, <1>10, <1>11
     DEF Next, Caller, Reader

-----------------------------------------------------------------------------
(* ClientInv is inductive: what the pipe, the queue and the end mark hold  *)
(* makes the four safety properties hold in every reachable state.         *)
THEOREM ClientInvariant == Spec => []ClientInv
<1>1. Init => ClientInv
  <2> SUFFICES ASSUME Init PROVE ClientInv
    OBVIOUS
  <2>1. TypeOK
    <3>1. 0 \in 0 .. MaxRequests
      BY McpAssumption
    <3>2. stdout \in Seq(Ids) /\ responses \in Seq(Ids \cup {Eof})
      BY DEF Init
    <3> QED  BY <3>1, <3>2 DEF Init, TypeOK, Statuses
  <2>2. InPipe = {} /\ Queued = {} /\ Returned = {}
    BY DEF Init, InPipe, Queued, Returned, In
  <2>3. NoReplyLost
    BY <2>2 DEF Init, NoReplyLost, Accounted
  <2> QED
    BY <2>1, <2>3 DEF Init, ClientInv, Once, NeverWaitsForTheDead,
       OwnAnswers, NoOrphans
<1>2. ClientInv /\ [Next]_vars => ClientInv'
  <2> SUFFICES ASSUME ClientInv, [Next]_vars PROVE ClientInv'
    OBVIOUS
  <2>1. TypeOK'
    BY TypeStep DEF ClientInv
  <2>2. Once(stdout)' /\ Once(responses)'
    BY OnceStep DEF ClientInv
  <2>3. (~reading => server = "exited")'
    BY ReaderStep DEF ClientInv
  <2>4. NeverWaitsForTheDead'
    BY WaitStep DEF ClientInv
  <2>5. NoReplyLost'
    BY LostStep DEF ClientInv
  <2>6. OwnAnswers' /\ NoOrphans'
    BY OwnStep, OrphanStep DEF ClientInv
  <2>7. (at = "waiting" => ident \notin Returned)'
    BY WaitingStep DEF ClientInv
  <2> QED
    BY <2>1, <2>2, <2>3, <2>4, <2>5, <2>6, <2>7 DEF ClientInv
<1> QED  BY <1>1, <1>2, PTL DEF Spec

(* request() returns the reply to its own request, however late the others *)
(* come (mcp_client.py:210).                                               *)
THEOREM AnswersAreOwn == Spec => []OwnAnswers
<1>1. ClientInv => OwnAnswers
  BY DEF ClientInv
<1> QED  BY <1>1, ClientInvariant, PTL

(* No reply is lost or doubled between the server, the reader and the      *)
(* caller.                                                                 *)
THEOREM RepliesAreKept == Spec => []NoReplyLost
<1>1. ClientInv => NoReplyLost
  BY DEF ClientInv
<1> QED  BY <1>1, ClientInvariant, PTL

(* No request waits for a dead server without the end mark to wake it.     *)
THEOREM DeadAreNotAwaited == Spec => []NeverWaitsForTheDead
<1>1. ClientInv => NeverWaitsForTheDead
  BY DEF ClientInv
<1> QED  BY <1>1, ClientInvariant, PTL

(* A server that was started up does not outlive its caller.               *)
THEOREM NoneLeftBehind == Spec => []NoOrphans
<1>1. ClientInv => NoOrphans
  BY DEF ClientInv
<1> QED  BY <1>1, ClientInvariant, PTL

-----------------------------------------------------------------------------
(* The client implements Calls.                                            *)

replies == InPipe \cup Queued \cup aside \cup Returned

(* The replies that count stay when the caller alone takes a step that     *)
(* takes nothing from the queue.                                           *)
LEMMA RepliesStay ==
    ASSUME UNCHANGED <<stdout, responses, aside, given>>
    PROVE  replies' = replies
  BY DEF replies, InPipe, Queued, Returned, In

(* A call stands where it stood when no request begins, returns or fails.  *)
LEMMA CallsStay ==
    ASSUME UNCHANGED <<ident, given>>, at' = "waiting" <=> at = "waiting"
    PROVE  callOf' = callOf
  BY DEF callOf

(* What the mapping makes of the request that waits: an open call, and it  *)
(* is the only one.                                                        *)
LEMMA TheOpenCall ==
    ASSUME ClientInv, at = "waiting"
    PROVE  ident \in Ids /\ callOf[ident] = "open"
<1>1. ident \in Ids
  BY McpAssumption DEF ClientInv, TypeOK, Ids
<1> QED  BY <1>1, McpAssumption DEF callOf, Ids

(* A request that is given up has failed, and the other calls stay.        *)
LEMMA CallFails ==
    ASSUME ClientInv, at = "waiting", at' # "waiting",
           UNCHANGED <<ident, given, server>>, replies' = replies
    PROVE  Abstract!Fail(ident)
<1>1. ident \in Ids /\ callOf[ident] = "open"
  BY TheOpenCall
<1>2. ~ \E g \in given : g[1] = ident
  BY <1>1 DEF ClientInv, OwnAnswers, Returned, TypeOK
<1>3. callOf' = [callOf EXCEPT ![ident] = "failed"]
  BY <1>1, <1>2, McpAssumption DEF callOf, Ids
<1> QED  BY <1>1, <1>3 DEF Abstract!Fail, replies

(* A request is the next call, made when all before it are over.           *)
LEMMA SendMakes ==
    ASSUME ClientInv, Send
    PROVE  \E i \in Ids : Abstract!Make(i)
<1>1. ident + 1 \in Ids /\ ident' = ident + 1 /\ ident \in Nat
  BY McpAssumption DEF ClientInv, TypeOK, Ids, Send
<1>2. callOf[ident + 1] = "unmade"
  BY <1>1, McpAssumption DEF callOf, Ids
<1>3. \A j \in 1 .. ident : j \in Ids /\ callOf[j] \in {"answered", "failed"}
  BY <1>1, McpAssumption DEF callOf, Ids, Send
<1>4. \A g \in given : g[1] # ident + 1
  <2>1. ident + 1 \notin Returned
    BY <1>1 DEF ClientInv, NoReplyLost, Accounted
  <2>2. \A g \in given : g = <<g[1], g[1]>>
    BY DEF ClientInv, OwnAnswers, TypeOK
  <2> QED  BY <1>1, <2>1, <2>2 DEF Returned
<1>5. callOf' = [callOf EXCEPT ![ident + 1] =
                    IF server = "up" THEN "open" ELSE "failed"]
  <2>1. at = "idle" /\ given' = given
        /\ at' = (IF server = "up" THEN "waiting" ELSE "broken")
    BY DEF Send, ClientInv, TypeOK
  <2>2. \A i \in Ids : callOf'[i] = [callOf EXCEPT ![ident + 1] =
                    IF server = "up" THEN "open" ELSE "failed"][i]
    BY <1>1, <1>4, <2>1, McpAssumption DEF callOf, Ids
  <2> QED  BY <2>2 DEF callOf
<1>6. replies' = replies /\ UNCHANGED <<given, server>>
  BY RepliesStay DEF Send
<1>7. Abstract!Make(ident + 1)
  BY <1>1, <1>2, <1>3, <1>5, <1>6
     DEF Abstract!Make, Abstract!Over, replies
<1> QED  BY <1>1, <1>7

(* The request returns the reply made to it.                               *)
LEMMA ReceiveReturns ==
    ASSUME ClientInv, Receive
    PROVE  \E i \in Ids : Abstract!Return(i)
<1>1. at = "waiting" /\ at' # "waiting" /\ Get(ident)
      /\ UNCHANGED <<ident, server, aside, stdout>>
      /\ given' = given \cup {<<ident, ident>>}
  BY DEF Receive, Get, Use, serverVars
<1>2. ident \in Ids /\ callOf[ident] = "open"
  BY <1>1, TheOpenCall
<1>3. ident \in Queued /\ Queued' = Queued \ {ident}
  BY <1>1, <1>2, MessageTaken DEF ClientInv
<1>4. replies' = replies /\ ident \in replies
  <2>1. InPipe' = InPipe /\ Returned' = Returned \cup {ident}
    BY <1>1, <1>2 DEF InPipe, Returned, In
  <2> QED  BY <1>1, <1>3, <2>1 DEF replies
<1>5. callOf' = [callOf EXCEPT ![ident] = "answered"]
  <2>1. <<ident, ident>> \in given' /\ <<ident, ident>>[1] = ident
    BY <1>1
  <2>2. \A i \in Ids : i # ident =>
           ((\E g \in given' : g[1] = i) <=> (\E g \in given : g[1] = i))
    BY <1>1
  <2>3. \A i \in Ids : callOf'[i] = [callOf EXCEPT ![ident] = "answered"][i]
    BY <1>1, <1>2, <2>1, <2>2, McpAssumption DEF callOf, Ids
  <2> QED  BY <2>3 DEF callOf
<1>6. Abstract!Return(ident)
  BY <1>1, <1>2, <1>4, <1>5 DEF Abstract!Return, replies
<1> QED  BY <1>2, <1>6

(* The server replies to a call it has, once.                              *)
LEMMA AnswerReplies ==
    ASSUME ClientInv, NEW i \in Ids, Answer(i)
    PROVE  Abstract!Reply(i)
<1>1. i \in inbox /\ server = "up" /\ UNCHANGED <<callerVars, server, given>>
      /\ UNCHANGED <<responses, aside>>
  BY DEF Answer
<1>2. InPipe' = InPipe \cup {i} /\ Queued' = Queued /\ Returned' = Returned
  BY <1>1, Answered DEF ClientInv, Queued, Returned, In
<1>3. i \notin replies /\ replies' = replies \cup {i}
  BY <1>1, <1>2 DEF ClientInv, NoReplyLost, replies
<1>4. callOf' = callOf
  BY <1>1, CallsStay DEF callerVars
<1>5. callOf[i] # "unmade"
  <2>1. i \in 1 .. ident
    BY <1>1 DEF ClientInv, NoReplyLost, Accounted
  <2> QED  BY <2>1, McpAssumption DEF ClientInv, TypeOK, callOf, Ids
<1> QED  BY <1>1, <1>3, <1>4, <1>5 DEF Abstract!Reply, replies

(* Every step of the client is a step of Calls, or leaves it alone.        *)
LEMMA ClientStep ==
    ClientInv /\ [Next]_vars
        => [Abstract!CallsNext]_(Abstract!callsVars)
<1> SUFFICES ASSUME ClientInv, [Next]_vars
             PROVE  Abstract!CallsNext \/ UNCHANGED Abstract!callsVars
  OBVIOUS
<1> USE DEF callerVars, serverVars
<1>0. Abstract!Numbers = Ids
  BY DEF Abstract!Numbers, Ids
<1>1. ASSUME callOf' = callOf, replies' = replies, UNCHANGED <<given, server>>
      PROVE  UNCHANGED Abstract!callsVars
  BY <1>1 DEF Abstract!callsVars, replies
<1>2. CASE Send
  BY <1>0, <1>2, SendMakes DEF Abstract!CallsNext
<1>3. CASE Receive
  BY <1>0, <1>3, ReceiveReturns DEF Abstract!CallsNext
<1>4. CASE SetAside
  <2>1. PICK m \in Ids \ {ident} : Get(m) /\ aside' = aside \cup {m}
    BY <1>4 DEF SetAside
  <2>2. m \in Queued /\ Queued' = Queued \ {m}
    BY <2>1, MessageTaken DEF ClientInv
  <2>3. UNCHANGED <<at, ident, stdout, given, server>>
    BY <1>4, <2>1 DEF SetAside, Get
  <2>4. InPipe' = InPipe /\ Returned' = Returned
    BY <2>3 DEF InPipe, Returned, In
  <2>5. replies' = replies
    BY <2>1, <2>2, <2>4 DEF replies
  <2> QED  BY <1>1, <2>3, <2>5, CallsStay
<1>5. CASE ReceiveEof
  <2>1. Get(Eof) /\ at = "waiting" /\ at' # "waiting"
        /\ UNCHANGED <<ident, stdout, aside, given, server>>
    BY <1>5 DEF ReceiveEof, Get, Raise
  <2>2. Queued' = Queued /\ InPipe' = InPipe /\ Returned' = Returned
    BY <2>1, MessageTaken DEF ClientInv, InPipe, Returned, In
  <2>3. Abstract!Fail(ident)
    BY <2>1, <2>2, CallFails DEF replies
  <2> QED  BY <1>0, <2>1, <2>3, TheOpenCall DEF Abstract!CallsNext
<1>6. CASE Timeout
  <2>1. /\ at = "waiting" /\ at' # "waiting" /\ replies' = replies
        /\ UNCHANGED <<ident, given, server>>
    BY <1>6, RepliesStay DEF Timeout, Raise
  <2> QED  BY <1>0, <2>1, CallFails, TheOpenCall DEF Abstract!CallsNext
<1>7. CASE Initialized \/ BadInput
  <2>1. /\ at # "waiting" /\ at' # "waiting" /\ replies' = replies
        /\ UNCHANGED <<ident, given, server>>
    BY <1>7, RepliesStay DEF Initialized, BadInput
  <2> QED  BY <1>1, <2>1, CallsStay
<1>8. CASE Finish \/ GiveUp \/ QuietExit
  <2>1. /\ callOf' = callOf /\ replies' = replies
        /\ UNCHANGED given /\ server' \in {server, "exited"}
    BY <1>8, CallsStay, RepliesStay DEF Finish, GiveUp, QuietExit, Leave
  <2>2. CASE server' = server
    BY <1>1, <2>1, <2>2
  <2>3. CASE server' = "exited"
    BY <2>1, <2>3 DEF Abstract!CallsNext, Abstract!Exit, replies
  <2> QED  BY <2>1, <2>2, <2>3
<1>9. CASE ReadLine
  <2>1. \E h \in InPipe : InPipe' = InPipe \ {h} /\ Queued' = Queued \cup {h}
    BY <1>9, LineRead DEF ClientInv
  <2>2. /\ Returned' = Returned /\ callOf' = callOf
        /\ UNCHANGED <<aside, given, server>>
    BY <1>9, CallsStay DEF ReadLine, Returned
  <2>3. replies' = replies
    BY <2>1, <2>2 DEF replies
  <2> QED  BY <1>1, <2>2, <2>3
<1>10. CASE ReadEof
  <2>1. Queued' = Queued
    BY <1>10, MarkPut DEF ClientInv
  <2>2. /\ InPipe' = InPipe /\ Returned' = Returned /\ callOf' = callOf
        /\ UNCHANGED <<aside, given, server>>
    BY <1>10, CallsStay DEF ReadEof, InPipe, Returned, In
  <2> QED  BY <1>1, <2>1, <2>2 DEF replies
<1>11. ASSUME NEW i \in Ids, Answer(i)
       PROVE  Abstract!CallsNext
  BY <1>0, <1>11, AnswerReplies DEF Abstract!CallsNext
<1>12. CASE ServerExits
  <2>1. callOf' = callOf /\ replies' = replies /\ UNCHANGED given
        /\ server' = "exited"
    BY <1>12, CallsStay, RepliesStay DEF ServerExits
  <2> QED  BY <2>1 DEF Abstract!CallsNext, Abstract!Exit, replies
<1>13. CASE UNCHANGED vars
  <2>1. callOf' = callOf /\ replies' = replies /\ UNCHANGED <<given, server>>
    BY <1>13, CallsStay, RepliesStay DEF vars
  <2> QED  BY <1>1, <2>1
<1> QED
  BY <1>2, <1>3, <1>4, <1>5, <1>6, <1>7, <1>8, <1>9, <1>10, <1>11, <1>12,
     <1>13 DEF Next, Caller, Reader

(* Through timeouts, late and reordered replies and a server that exits    *)
(* anywhere, calls end one after the other, each in its own reply or in an *)
(* error (request, mcp_client.py).                                         *)
THEOREM ClientKeepsOrder == Spec => CallsEndInOrder
<1>1. Init => Abstract!CallsInit
  <2> SUFFICES ASSUME Init PROVE Abstract!CallsInit
    OBVIOUS
  <2>1. callOf = [i \in Ids |-> "unmade"]
    BY McpAssumption DEF Init, callOf, Ids
  <2>2. InPipe = {} /\ Queued = {} /\ Returned = {}
    BY DEF Init, InPipe, Queued, Returned, In
  <2> QED
    BY <2>1, <2>2 DEF Init, Abstract!CallsInit, Abstract!Numbers, Ids
<1>2. ClientInv /\ [Next]_vars => [Abstract!CallsNext]_(Abstract!callsVars)
  BY ClientStep
<1> QED
  BY <1>1, <1>2, ClientInvariant, PTL
     DEF Spec, CallsEndInOrder, Abstract!CallsSpec
=============================================================================
