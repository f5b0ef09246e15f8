------------------------------ MODULE Toolkit ------------------------------
(***************************************************************************)
(* One run of a tool adapter: the process that the execution service       *)
(* starts with --request and --result, that checks its request, writes     *)
(* files into its workspace, runs tools, answers in the result document    *)
(* and exits.  What an adapter does is a set of blocks, the statements of  *)
(* its main function in order, the `except` clauses and the early returns: *)
(* module Adapters has those of src/integrations.  This module is how a    *)
(* Python process runs them: any statement may raise, an exception goes to *)
(* the innermost `try`, the process may be killed between two statements,  *)
(* and a file that is written in place exists before it is complete.       *)
(***************************************************************************)
EXTENDS Integers, Sequences, FiniteSets

CONSTANTS
    Files,        \* the names of the files an adapter writes or its tools emit
    BlockNames,   \* the names of the blocks
    Blocks,       \* block name -> the sequence of its steps
    HandlersOf,   \* block name -> << >> or << the block of its `except` clause >>
    Entries,      \* the blocks a process may start with
    ReturnCodes,  \* the return codes of a tool; a negative one is a signal
    EvidenceOf      \* block name -> the files that its answer owes a failed tool

\* Stands, in an answer and in an exit, for the return code of the last tool.
ToolsOwn == 1000
\* In place of a block to go to: the step raises an exception.
Raises == "raise"
\* The value of exit while the process runs, and after a SIGKILL of its group.
NoExit == 256
Killed == 137

Operations == {"check", "open", "supply", "fill", "swap", "tool", "work",
               "zero", "need", "call", "answer", "gather", "seal", "publish", "exit"}
Contents == {"none", "part", "whole"}
Step == [op: Operations, files: SUBSET Files, uses: SUBSET Files, to: BlockNames \cup {Raises},
         status: {"succeeded", "failed"}, code: 0..255 \cup {ToolsOwn}]

VARIABLES
    block, at,    \* the step the process is at
    handlers,     \* the except clauses of the try statements it is in, innermost first
    files,        \* the content of each file
    result,       \* the result document: how much of it is on disk, and what it says
    rc,           \* the return code of the last tool
    exit          \* the exit code of the process

vars == <<block, at, handlers, files, result, rc, exit>>

Here == Blocks[block][at]
At(op) == exit = NoExit /\ Here.op = op
Overwrite(F, c) == [f \in Files |-> IF f \in F THEN c ELSE files[f]]
\* What the files may hold once a tool has been at F: some of them are left
\* alone, the others have a content of C.
Emitted(F, C) ==
    {[f \in Files |-> IF f \in DOMAIN g THEN g[f] ELSE files[f]] : g \in UNION {[G -> C] : G \in SUBSET F}}
CodeHere == IF Here.code = ToolsOwn THEN rc ELSE Here.code

Init == /\ block \in Entries
        /\ at = 1
        /\ handlers = HandlersOf[block]
        /\ files = [f \in Files |-> "none"]
        /\ result = [text |-> "none", status |-> "failed", code |-> 0, lists |-> {}]
        /\ rc = 0
        /\ exit = NoExit

Pass == at' = at + 1 /\ UNCHANGED <<block, handlers, exit>>
GoTo(b) == block' = b /\ at' = 1 /\ UNCHANGED exit

(***************************************************************************)
(* The steps.                                                              *)
(***************************************************************************)
\* A validation, a read, a directory made, a line printed, a question to git
\* about the source: nothing to remember but that it may raise.
Check == At("check") /\ Pass /\ UNCHANGED <<files, result, rc>>

\* path.write_text and copy2 truncate the file and then fill it.
Open == At("open") /\ Pass /\ files' = Overwrite(Here.files, "part") /\ UNCHANGED <<result, rc>>
Fill == At("fill") /\ Pass /\ files' = Overwrite(Here.files, "whole") /\ UNCHANGED <<result, rc>>

\* The same for a file that is written only when it is not there.
Supply == /\ At("supply") /\ Pass
          /\ files' = Overwrite({f \in Here.files : files[f] = "none"}, "part")
          /\ UNCHANGED <<result, rc>>

\* A temporary file that replaces the file.
Swap == At("swap") /\ Pass /\ files' = Overwrite(Here.files, "whole") /\ UNCHANGED <<result, rc>>

\* subprocess.run of a tool, which emits some of its files; one that reports
\* success has completed those it emits.
Tool == /\ At("tool") /\ Pass
        /\ rc' \in ReturnCodes
        /\ files' \in Emitted(Here.files, IF rc' = 0 THEN {"whole"} ELSE {"part", "whole"})
        /\ UNCHANGED result

\* Upstream code loaded into the process, which emits some of its files.
Work == /\ At("work") /\ Pass
        /\ files' \in Emitted(Here.files, {"whole"})
        /\ UNCHANGED <<result, rc>>

\* if completed.returncode != 0: return fail(...); the raising form is Raise.
Zero == /\ At("zero")
        /\ IF rc = 0 THEN Pass
           ELSE Here.to # Raises /\ GoTo(Here.to) /\ UNCHANGED handlers
        /\ UNCHANGED <<files, result, rc>>

\* if not path.is_file() ...: return fail(...); the raising form is Raise.
Need == /\ At("need")
        /\ IF \A f \in Here.files : files[f] # "none" THEN Pass
           ELSE Here.to # Raises /\ GoTo(Here.to) /\ UNCHANGED handlers
        /\ UNCHANGED <<files, result, rc>>

\* return delegate_main(), inside the try statement of the caller.
Call == /\ At("call")
        /\ GoTo(Here.to)
        /\ handlers' = HandlersOf[Here.to] \o handlers
        /\ UNCHANGED <<files, result, rc>>

Says(text, F) == result' = [text |-> text, status |-> Here.status, code |-> CodeHere, lists |-> F]
Present(F) == {f \in F : files[f] # "none"}

\* The result document written in place, listing what the adapter knows it
\* wrote, or what it finds; and written to a temporary file that replaces it.
Answer  == At("answer")  /\ Pass /\ Says("part", Here.files) /\ UNCHANGED <<files, rc>>
Gather  == At("gather")  /\ Pass /\ Says("part", Present(Here.files)) /\ UNCHANGED <<files, rc>>
Seal    == At("seal")    /\ Pass /\ result' = [result EXCEPT !.text = "whole"] /\ UNCHANGED <<files, rc>>
Publish == At("publish") /\ Pass /\ Says("whole", Here.files) /\ UNCHANGED <<files, rc>>

\* raise SystemExit(main()): the parent sees the code modulo 256.
Exit == /\ At("exit")
        /\ exit' = CodeHere % 256
        /\ UNCHANGED <<block, at, handlers, files, result, rc>>

\* A tool or upstream code that does not come to its end leaves files as they are.
Disturbed == Emitted(IF Here.op \in {"tool", "work"} THEN Here.files ELSE {}, {"part", "whole"})

MayRaise == CASE Here.op = "exit" -> FALSE
              [] Here.op = "zero" -> rc # 0 /\ Here.to = Raises
              [] OTHER            -> TRUE

\* An exception of a class that the except clause names, and any other.
Raise == /\ exit = NoExit /\ MayRaise
         /\ files' \in Disturbed
         /\ \/ handlers # << >> /\ GoTo(Head(handlers)) /\ handlers' = Tail(handlers)
            \/ exit' = 1 /\ UNCHANGED <<block, at, handlers>>
         /\ UNCHANGED <<result, rc>>

Kill == /\ exit = NoExit
        /\ exit' = Killed
        /\ files' \in Disturbed
        /\ UNCHANGED <<block, at, handlers, result, rc>>

Next == \/ Check \/ Open \/ Supply \/ Fill \/ Swap \/ Tool \/ Work \/ Zero \/ Need \/ Call
        \/ Answer \/ Gather \/ Seal \/ Publish \/ Exit \/ Raise \/ Kill

Spec == Init /\ [][Next]_vars

(***************************************************************************)
(* The discipline of the blocks, from which the properties follow for any  *)
(* set of adapters.  A block is an excuse (an except clause or an early    *)
(* return, which answers "failed" and cannot end in 0) or a main function. *)
(***************************************************************************)
Ends(b, i) == Blocks[b][i].op \in {"exit", "call"}
Excuses == {b \in BlockNames : \A i \in DOMAIN Blocks[b] :
              /\ Blocks[b][i].op \in {"check", "fill", "answer", "gather", "seal", "publish", "exit"}
              /\ Blocks[b][i].status = "failed"
              /\ Blocks[b][i].op = "exit" => Blocks[b][i].code # 0}
Mains == BlockNames \ Excuses
Answers(b, i) == Blocks[b][i].op \in {"answer", "gather", "publish"}
Borrows(b) == \E i \in DOMAIN Blocks[b] : Blocks[b][i].code = ToolsOwn

\* The files that are complete once the steps before i have passed.
Completed(b, i) == UNION {Blocks[b][j].files : j \in {j \in 1..(i-1) : Blocks[b][j].op \in {"fill", "swap", "need"}}}
\* A zero step after step k has passed before step i.
Vouched(b, k, i) == \E z \in (k+1)..(i-1) : Blocks[b][z].op = "zero"
\* The files that tools have emitted without failing, which are not supplied later.
Vetted(b, i) == LET past == 1..(i-1)  S == Blocks[b] IN
    (UNION {S[k].files : k \in {k \in past : S[k].op = "work" \/ (S[k].op = "tool" /\ Vouched(b, k, i))}})
    \ (UNION {S[j].files : j \in {j \in past : S[j].op = "supply"}})

\* A tool is followed by a look at its return code before the next tool or
\* upstream code, and before the adapter answers; it reads files that are complete, and neither
\* it nor a later write touches a file that was completed or emitted before,
\* but for upstream code, which may complete a file anew.
ToolsInOrder(b) ==
    \A i \in DOMAIN Blocks[b] : LET S == Blocks[b] IN
      /\ S[i].op \in {"tool", "work"} =>
           /\ S[i].uses \subseteq Completed(b, i)
           /\ \A j \in 1..(i-1) : S[j].op \in {"open", "supply", "tool", "work"} =>
                 \/ S[j].files \cap S[i].files = {}
                 \/ S[i].op = "work" /\ S[j].files \subseteq Completed(b, i)
      /\ S[i].op \in {"tool", "work"} => \A j \in 1..(i-1) : S[j].op = "tool" => Vouched(b, j, i)
      /\ S[i].op \in {"open", "tool"} => S[i].files \cap Completed(b, i) = {}
      /\ S[i].op = "open" => \A j \in 1..(i-1) : S[j].op \in {"tool", "work"} => S[j].files \cap S[i].files = {}
      /\ S[i].op = "supply" => \A j \in 1..(i-1) : S[j].op = "tool" => S[j].files \cap S[i].files = {}
      /\ S[i].op = "need" => S[i].files \subseteq Completed(b, i) \cup Vetted(b, i)

\* A main function answers once, with success, when all it lists is complete
\* and every tool was looked at; nothing but its exit with 0 comes after.  One
\* that hands over to another main has done nothing but look.
AnswersInOrder(b) ==
    \A i \in DOMAIN Blocks[b] : LET S == Blocks[b] IN
      /\ S[i].op # "gather" /\ S[i].code = 0
      /\ S[i].op \in {"answer", "publish"} =>
           /\ S[i].status = "succeeded"
           /\ S[i].files \subseteq Completed(b, i)
           /\ \A j \in 1..(i-1) : S[j].op = "tool" => Vouched(b, j, i)
           /\ \A k \in (i+1)..Len(S) : S[k].op \in {"seal", "check", "exit"}
      /\ S[i].op = "seal" => i > 1 /\ S[i-1].op = "answer"
      /\ S[i].op = "call" => \A j \in 1..(i-1) : S[j].op = "check"

\* In any block an answer is completed at once, nothing is answered after it,
\* and what the block exits with is what the answer says; no block exits
\* without one.
AnswersStand(b) ==
    \A i \in DOMAIN Blocks[b] : LET S == Blocks[b] IN
      /\ Answers(b, i) => \A k \in (i+1)..Len(S) :
           S[k].op \in {"seal", "check", "fill"} \/ (S[k].op = "exit" /\ S[k].code = S[i].code)
      /\ S[i].op \in {"answer", "gather"} => i < Len(S) /\ S[i+1].op = "seal"
      /\ S[i].op = "exit" => \E j \in 1..(i-1) : Answers(b, j) /\ (S[j].op = "publish" \/ j + 1 < i)

\* Where a main function goes when something fails in it.
WaysOut(b) == {HandlersOf[b][i] : i \in DOMAIN HandlersOf[b]}
              \cup {Blocks[b][i].to : i \in {i \in DOMAIN Blocks[b] : Blocks[b][i].op \in {"zero", "need"}}}
\* What an excuse owes is complete before any tool of a main it is a way out
\* of, and it lists it.  One that is around another main owes nothing.
EvidenceInOrder ==
    /\ EvidenceOf \in [BlockNames -> SUBSET Files]
    /\ \A b \in Mains : \A i \in DOMAIN Blocks[b] : \A e \in WaysOut(b) \ {Raises} :
          /\ Blocks[b][i].op = "tool" => EvidenceOf[e] \subseteq Completed(b, i)
          /\ Blocks[b][i].op = "call" => EvidenceOf[e] = {}
    /\ \A e \in Excuses : \A i \in DOMAIN Blocks[e] :
          Answers(e, i) => EvidenceOf[e] \subseteq Blocks[e][i].files

Disciplined ==
    /\ ReturnCodes \subseteq -255..255
    /\ Entries \subseteq Mains
    /\ Raises \notin BlockNames
    /\ \A b \in BlockNames :
         /\ Blocks[b] \in Seq(Step) /\ Len(Blocks[b]) > 0
         /\ \A i \in DOMAIN Blocks[b] : Ends(b, i) <=> i = Len(Blocks[b])
         /\ HandlersOf[b] \in Seq({e \in Excuses : ~Borrows(e)})
         /\ AnswersStand(b)
         /\ \A i \in DOMAIN Blocks[b] : LET s == Blocks[b][i] IN
              /\ s.op = "call" => s.to \in Mains
              /\ s.op = "zero" => s.to \in Excuses \cup {Raises}
              /\ s.op = "need" => s.to \in {e \in Excuses : ~Borrows(e)} \cup {Raises}
    /\ \A b \in Mains : ToolsInOrder(b) /\ AnswersInOrder(b)
    /\ EvidenceInOrder

TypeOK ==
    /\ block \in BlockNames
    /\ at \in 1..Len(Blocks[block])
    /\ handlers \in Seq({e \in Excuses : ~Borrows(e)})
    /\ files \in [Files -> Contents]
    /\ result \in [text: Contents, status: {"succeeded", "failed"}, code: Int, lists: SUBSET Files]
    /\ rc \in ReturnCodes \cup {0}
    /\ exit \in 0..256

\* While a main function runs, what it has completed is whole, what its tools
\* emitted without failing is not partial, and only a step that has begun on
\* a file can have left it partial.
FilesInv ==
    exit = NoExit /\ block \in Mains =>
      /\ \A f \in Completed(block, at) : files[f] = "whole"
      /\ \A k \in 1..(at-1) : Blocks[block][k].op = "tool" /\ ~Vouched(block, k, at) /\ rc = 0 =>
            \A f \in Blocks[block][k].files : files[f] # "part"
      /\ \A f \in Vetted(block, at) : files[f] # "part"
      /\ \A f \in Files : files[f] = "part" =>
            \E j \in 1..(at-1) : /\ Blocks[block][j].op \in {"open", "supply", "tool", "work"}
                               /\ f \in Blocks[block][j].files
      /\ rc # 0 => \E k \in 1..(at-1) : Blocks[block][k].op = "tool" /\ ~Vouched(block, k, at)

\* From here on the adapter answers and exits, and no longer writes.
Quiet == \A k \in at..Len(Blocks[block]) :
            Blocks[block][k].op \in {"check", "fill", "answer", "gather", "seal", "publish", "exit"}

ResultInv ==
    /\ result.status = "succeeded" => Quiet /\ rc = 0 /\ \A f \in result.lists : files[f] = "whole"
    /\ result.status = "failed" /\ result.text # "none" => block \in Excuses
    /\ exit = NoExit /\ block \in Mains =>
          \A j \in 1..(at-1) :
            /\ Blocks[block][j].op \in {"answer", "publish"} => result.status = "succeeded"
            /\ Blocks[block][j].op = "publish" => result.text = "whole"
            /\ Blocks[block][j].op = "answer" /\ j + 1 < at => result.text = "whole"
    /\ Borrows(block) => rc # 0

\* What the last answer of the block has said is what the document says.
AnswerInv ==
    \A j \in 1..(at-1) : LET s == Blocks[block][j] IN
      Answers(block, j) =>
        /\ result.code = (IF s.code = ToolsOwn THEN rc ELSE s.code)
        /\ result.status = s.status
        /\ s.op = "publish" \/ j + 1 < at => result.text = "whole"

\* docs/PLUGINS.md:135: "The process exit code must agree with the result."  A
\* process that comes to an exit of its own has left a complete document with
\* that very code, modulo 256 as the parent sees it, and exits with 0 if and
\* only if it says "succeeded": which handler, early return or nested main wrote
\* last, whatever it wrote over, and whatever was raised in between.
ExitAgrees ==
    exit \notin {NoExit, Killed} /\ Here.op = "exit" =>
        result.text = "whole" /\ exit = result.code % 256 /\ (exit = 0 <=> result.status = "succeeded")

\* A process that exits with 0 has left a complete result document that says
\* "succeeded", whatever raised on the way, in whichever of two nested mains;
\* one whose document says "failed" exits with another code.
ZeroExitIsSuccess ==
    exit = 0 => result.text = "whole" /\ result.status = "succeeded"

\* A failed tool leaves evidence: once an except clause or an early return has
\* answered for it, its document lists what it owes, and that is complete,
\* whatever else raised between the tool and the answer (the handler of
\* orfs_agent_reproduction_adapter.main).
EvidenceIsKept ==
    block \in Excuses /\ rc # 0 /\ (\E j \in 1..(at-1) : Answers(block, j)) =>
        \A f \in EvidenceOf[block] : f \in result.lists /\ files[f] = "whole"

\* In an excuse whatever is owed, there or further out, is complete already.
EvidenceInv ==
    /\ block \in Mains => \A i \in DOMAIN handlers : EvidenceOf[handlers[i]] = {} \/ handlers[i] \in WaysOut(block)
    /\ block \in Excuses /\ rc # 0 =>
          \A e \in {block} \cup {handlers[i] : i \in DOMAIN handlers} : \A f \in EvidenceOf[e] : files[f] = "whole"
    /\ EvidenceIsKept

\* The invariant by which the properties are proved: the blocks are in order,
\* as are what the main function has done so far and what it has answered.
ToolInv == /\ Disciplined /\ TypeOK /\ FilesInv /\ ResultInv /\ EvidenceInv /\ AnswerInv
           /\ ZeroExitIsSuccess /\ ExitAgrees

(***************************************************************************)
(* Properties.                                                             *)
(***************************************************************************)
\* A result document that says "succeeded" lists only files that are complete,
\* and was written after every tool of the run had returned 0: the order of
\* writes, tools and early returns in each adapter's main and in what it calls.
ResultsAreBacked ==
    result.status = "succeeded" /\ result.text # "none" =>
        rc = 0 /\ \A f \in result.lists : files[f] = "whole"

\* A tool, and upstream code that runs in the process, starts only when each
\* file of the workspace it reads is complete: the copied and patched flow and
\* the mapped configuration of make, the image of a simulation, the corpus.
ToolsSeeWholeFiles ==
    exit = NoExit /\ Here.op \in {"tool", "work"} => \A f \in Here.uses : files[f] = "whole"

\* A run whose document has said "failed" never says "succeeded" afterwards:
\* no handler, outer main or late write turns the verdict.
VerdictsStand ==
    [][result.text # "none" /\ result.status = "failed" => result'.status = "failed"]_vars
=============================================================================
