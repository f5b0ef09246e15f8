------------------------------- MODULE Calls -------------------------------
(***************************************************************************)
(* What the MCP client promises its callers, with no pipes, threads or     *)
(* queues: calls are made one at a time, in the order of their numbers;    *)
(* each ends once, in its own reply or in an error; a server that has      *)
(* exited takes no call.  McpCalls shows that McpClient implements this.   *)
(***************************************************************************)
EXTENDS Integers

CONSTANTS MaxCalls

Numbers == 1 .. MaxCalls

VARIABLES
    call,        \* how far each call has come
    replied,     \* the calls the server has replied to
    returned,    \* <<call, reply>>: what was returned to the caller
    serving      \* the server has not exited

callsVars == <<call, replied, returned, serving>>

CallsInit ==
    /\ call = [i \in Numbers |-> "unmade"]
    /\ replied = {} /\ returned = {} /\ serving = TRUE

Over(i) == call[i] \in {"answered", "failed"}

Make(i) ==
    /\ call[i] = "unmade" /\ \A j \in 1 .. i - 1 : Over(j)
    /\ call' = [call EXCEPT ![i] = IF serving THEN "open" ELSE "failed"]
    /\ UNCHANGED <<replied, returned, serving>>

(* Late replies count: the call may have failed by then.                   *)
Reply(i) ==
    /\ serving /\ call[i] # "unmade" /\ i \notin replied
    /\ replied' = replied \cup {i}
    /\ UNCHANGED <<call, returned, serving>>

Return(i) ==
    /\ call[i] = "open" /\ i \in replied
    /\ call' = [call EXCEPT ![i] = "answered"]
    /\ returned' = returned \cup {<<i, i>>}
    /\ UNCHANGED <<replied, serving>>

Fail(i) ==
    /\ call[i] = "open"
    /\ call' = [call EXCEPT ![i] = "failed"]
    /\ UNCHANGED <<replied, returned, serving>>

Exit == serving' = FALSE /\ UNCHANGED <<call, replied, returned>>

CallsNext ==
    \/ \E i \in Numbers : Make(i) \/ Reply(i) \/ Return(i) \/ Fail(i)
    \/ Exit

CallsSpec == CallsInit /\ [][CallsNext]_callsVars
=============================================================================
