----------------------------- MODULE McpClient -----------------------------
(***************************************************************************)
(* The stdio client of OpenROAD-MCP and the programs that drive it         *)
(* (integrations/openroad-mcp/{mcp_client,mcp_console,verify}.py).         *)
(*                                                                         *)
(* The main thread writes numbered requests to a child process and takes   *)
(* replies from a queue; a reader thread fills the queue from the child's  *)
(* stdout and puts an end mark after the last line.  The server answers    *)
(* in any order, late or never, and may exit at any moment.  The caller    *)
(* initializes, makes some requests, and leaves with an exit status.       *)
(* Notifications are left out: they are set aside and nothing reads them.  *)
(***************************************************************************)
EXTENDS Integers, Sequences

CONSTANTS
    MaxRequests,  \* bound: the requests of one session
    Guarded       \* requests whose MCPError the caller survives: verify.py
                  \* skips its nested-image step; the console survives none

ASSUME McpAssumption == MaxRequests \in Nat /\ Guarded \subseteq Nat \ {1}

Ids == 1 .. MaxRequests
Eof == 0          \* the reader's end mark in the queue
Statuses == {"none", "zero", "failures", "error"}

VARIABLES
    at,           \* where the main thread is
    ident,        \* the last request number
    entered,      \* start() has returned: from here on close() is called
    failed,       \* a step of the sweep was reported as failed
    status,       \* the exit status
    server,       \* "up" or "exited"
    inbox,        \* requests the server has and did not answer
    stdout,       \* lines in the pipe from the server
    reading,      \* the reader thread has not met the end of the pipe
    responses,    \* the queue
    aside,        \* replies set aside among the notifications
    given         \* <<request, reply>>: what request() returned

callerVars == <<at, ident, entered, failed, status>>
serverVars == <<server, inbox>>
vars == <<callerVars, serverVars, stdout, reading, responses, aside, given>>

TypeOK ==
    /\ at \in {"idle", "waiting", "initialized", "raised", "broken", "done"}
    /\ ident \in 0 .. MaxRequests 
    /\ ident = 0 => at = "idle" /\ ~entered
    /\ entered \in BOOLEAN /\ failed \in BOOLEAN /\ reading \in BOOLEAN
    /\ status \in Statuses
    /\ server \in {"up", "exited"}
    /\ inbox \subseteq Ids
    /\ stdout \in Seq(Ids)
    /\ responses \in Seq(Ids \cup {Eof})
    /\ aside \subseteq Ids
    /\ given \subseteq Ids \X Ids

(* The child and both reader threads have been started.                    *)
Init ==
    /\ at = "idle" /\ ident = 0 /\ entered = FALSE
    /\ failed = FALSE /\ status = "none"
    /\ server = "up" /\ inbox = {}
    /\ stdout = <<>> /\ reading = TRUE
    /\ responses = <<>> /\ aside = {} /\ given = {}

-----------------------------------------------------------------------------
(* request: take a number and write; a server that has exited breaks the   *)
(* pipe, and BrokenPipeError is no MCPError.  The first is "initialize".   *)
SendUnchecked ==    \* mutant: the broken pipe is not noticed
    /\ at = "idle" /\ ident < MaxRequests
    /\ ident' = ident + 1
    /\ inbox' = IF server = "up" THEN inbox \cup {ident'} ELSE inbox
    /\ at' = "waiting"
    /\ UNCHANGED <<entered, failed, status, server, stdout, reading,
                   responses, aside, given>>

Send ==
    /\ at = "idle" /\ ident < MaxRequests
    /\ ident' = ident + 1
    /\ \/ server = "up" /\ inbox' = inbox \cup {ident'} /\ at' = "waiting"
       \/ server = "exited" /\ UNCHANGED inbox /\ at' = "broken"
    /\ UNCHANGED <<entered, failed, status, server, stdout, reading,
                   responses, aside, given>>

(* notifications/initialized, and start() returns.                         *)
Initialized ==
    /\ at = "initialized"
    /\ \/ server = "up" /\ at' = "idle" /\ entered' = TRUE
       \/ server = "exited" /\ at' = "broken" /\ UNCHANGED entered
    /\ UNCHANGED <<ident, failed, status, serverVars, stdout, reading,
                   responses, aside, given>>

(* The console's user types arguments that are no JSON.                    *)
BadInput ==
    /\ at = "idle" /\ entered
    /\ at' = "raised"
    /\ UNCHANGED <<ident, entered, failed, status, serverVars, stdout,
                   reading, responses, aside, given>>

(* MCPError: the guarded step is skipped, everything else gives up.        *)
Raise == at' = IF ident \in Guarded THEN "idle" ELSE "raised"

Get(message) ==
    /\ at = "waiting" /\ responses # <<>>
    /\ message = Head(responses)
    /\ responses' = Tail(responses)
    /\ UNCHANGED <<ident, entered, status, serverVars, stdout, reading>>

(* request returns the reply.  start() only looks for the server's name;   *)
(* a later reply is good, or reported as failed (not in a guarded step),   *)
(* or cannot be parsed, which no step survives.                            *)
Use ==
    IF ident = 1
    THEN at' = "initialized" /\ UNCHANGED failed
    ELSE \/ at' = "idle" /\ UNCHANGED failed
         \/ at' = "idle" /\ ident \notin Guarded /\ failed' = TRUE
         \/ at' = "raised" /\ UNCHANGED failed

ReceiveAny ==    \* mutant: the reply's id is not compared
    \E m \in Ids :
        /\ Get(m)
        /\ given' = given \cup {<<ident, m>>}
        /\ Use
        /\ UNCHANGED aside

Receive ==
    /\ Get(ident)
    /\ given' = given \cup {<<ident, ident>>}
    /\ Use
    /\ UNCHANGED aside

(* A reply to another request, one that timed out, is set aside.           *)
SetAsideDropped ==    \* mutant: a reply to another request is dropped
    /\ \E m \in Ids \ {ident} : Get(m)
    /\ UNCHANGED <<at, failed, given, aside>>

SetAsideRequeued ==    \* mutant: ... or put back into the queue
    /\ at = "waiting" /\ responses # <<>>
    /\ Head(responses) \in Ids \ {ident}
    /\ responses' = Append(Tail(responses), Head(responses))
    /\ UNCHANGED <<callerVars, serverVars, stdout, reading, aside, given>>

SetAside ==
    /\ \E m \in Ids \ {ident} : Get(m) /\ aside' = aside \cup {m}
    /\ UNCHANGED <<at, failed, given>>

(* "server exited during ...".                                             *)
ReceiveEof == Get(Eof) /\ Raise /\ UNCHANGED <<failed, aside, given>>

(* "no reply to ... within ...": the deadline starts again after each      *)
(* message, so the queue is empty when it expires.                         *)
Timeout ==
    /\ at = "waiting" /\ responses = <<>>
    /\ Raise
    /\ UNCHANGED <<ident, entered, failed, status, serverVars, stdout,
                   reading, responses, aside, given>>

(* The caller leaves.  Only a started client is closed; close() closes     *)
(* stdin, terminates the server and kills it if it does not go.            *)
Leave(s) ==
    /\ at' = "done" /\ status' = s
    /\ IF entered THEN server' = "exited" /\ inbox' = {}
                  ELSE UNCHANGED serverVars
    /\ UNCHANGED <<ident, entered, failed, stdout, reading, responses,
                   aside, given>>

Finish == at = "idle" /\ entered /\ Leave(IF failed THEN "failures" ELSE "zero")

GiveUpOpen ==    \* mutant: no finally around the steps
    /\ at = "raised"
    /\ at' = "done" /\ status' = "error"
    /\ UNCHANGED <<ident, entered, failed, serverVars, stdout, reading,
                   responses, aside, given>>

GiveUp == at = "raised" /\ Leave("error")

(* BrokenPipeError is taken for a closed terminal: exit quietly with 0.    *)
QuietExit == at = "broken" /\ Leave("zero")

-----------------------------------------------------------------------------
(* The reader thread.                                                      *)
ReadLine ==
    /\ reading /\ stdout # <<>>
    /\ responses' = Append(responses, Head(stdout))
    /\ stdout' = Tail(stdout)
    /\ UNCHANGED <<callerVars, serverVars, reading, aside, given>>

ReadEofSilently ==    \* mutant: no end mark is put
    /\ reading /\ stdout = <<>> /\ server = "exited"
    /\ reading' = FALSE
    /\ UNCHANGED <<callerVars, serverVars, stdout, responses, aside, given>>

ReadEof ==
    /\ reading /\ stdout = <<>> /\ server = "exited"
    /\ reading' = FALSE
    /\ responses' = Append(responses, Eof)
    /\ UNCHANGED <<callerVars, serverVars, stdout, aside, given>>

(* The server (external).                                                  *)
Answer(i) ==
    /\ server = "up" /\ i \in inbox
    /\ inbox' = inbox \ {i}
    /\ stdout' = Append(stdout, i)
    /\ UNCHANGED <<callerVars, server, reading, responses, aside, given>>

ServerExits ==
    /\ server = "up"
    /\ server' = "exited" /\ inbox' = {}
    /\ UNCHANGED <<callerVars, stdout, reading, responses, aside, given>>

Caller ==
    \/ Send \/ Initialized
    \/ Receive \/ SetAside \/ ReceiveEof \/ Timeout
    \/ BadInput \/ Finish \/ GiveUp \/ QuietExit

Reader == ReadLine \/ ReadEof

Next ==
    \/ Caller
    \/ Reader
    \/ \E i \in Ids : Answer(i)
    \/ ServerExits

Spec == Init /\ [][Next]_vars

(* A thread that can take a step takes one; of the server nothing is       *)
(* assumed.                                                                *)
FairSpec == Spec /\ WF_vars(Caller) /\ WF_vars(Reader)

-----------------------------------------------------------------------------
(* Properties.                                                             *)

In(i, seq) == \E k \in 1 .. Len(seq) : seq[k] = i

(* request() returns the reply to this very request, though replies to     *)
(* requests that timed out arrive later (mcp_client.py:210).               *)
OwnAnswers == \A g \in given : g[1] = g[2]

InPipe == {i \in Ids : In(i, stdout)}
Queued == {i \in Ids : In(i, responses)}
Returned == {i \in Ids : <<i, i>> \in given}
Accounted == inbox \cup InPipe \cup Queued \cup aside \cup Returned

(* A reply is in one place, and until the server exits every request that  *)
(* was made is: with the server, in the pipe, queued, set aside or         *)
(* returned.                                                               *)
NoReplyLost ==
    /\ inbox \cap (InPipe \cup Queued \cup aside \cup Returned) = {}
    /\ InPipe \cap (Queued \cup aside \cup Returned) = {}
    /\ Queued \cap (aside \cup Returned) = {}
    /\ aside \cap Returned = {}
    /\ Accounted \subseteq 1 .. ident
    /\ server = "up" => 1 .. ident \subseteq Accounted

(* No request waits in vain for a server that has exited: the end mark is  *)
(* still to come, although only one request can take it.  What protects    *)
(* the next one is the broken pipe.                                        *)
NeverWaitsForTheDead ==
    at = "waiting" /\ server = "exited" => reading \/ In(Eof, responses)

(* Whichever way a caller leaves, a server it had started up is gone; one  *)
(* that did not get through initialize is left behind.                     *)
NoOrphans == at = "done" /\ server = "up" => ~entered

(* No reply is twice in the pipe or in the queue, the end mark means what  *)
(* it says, and a request that waits has returned nothing.                 *)
Once(seq) ==
    \A j, k \in 1 .. Len(seq) : seq[j] = seq[k] /\ seq[j] # Eof => j = k

ClientInv ==
    /\ TypeOK
    /\ Once(stdout) /\ Once(responses)
    /\ ~reading => server = "exited"
    /\ at = "waiting" => ident \notin Returned
    /\ NeverWaitsForTheDead
    /\ NoReplyLost
    /\ OwnAnswers
    /\ NoOrphans

(* Every request ends, by its reply, the end mark or its deadline.         *)
RequestsEnd == at = "waiting" ~> at # "waiting"

(* "Exit status is the number of failed steps" (verify.py:11).             *)
ZeroMeansNoFailure == status = "zero" => ~failed
=============================================================================
