---------------------------- MODULE ToolkitProofs ----------------------------
(***************************************************************************)
(* Proofs about Toolkit, for any set of adapters whose blocks are in the   *)
(* order that Disciplined states; a run evaluates it for the adapters of   *)
(* the repository.                                                         *)
(***************************************************************************)
EXTENDS Toolkit, TLAPS

Quiets == {"check", "fill", "answer", "gather", "seal", "publish", "exit"}
Writers == {"open", "supply", "tool", "work"}

(***************************************************************************)
(* Facts about the blocks.                                                 *)
(***************************************************************************)
\* Every position of a block holds a step.
LEMMA StepTyped ==
    ASSUME Disciplined, NEW b \in BlockNames, NEW i \in DOMAIN Blocks[b]
    PROVE  /\ Len(Blocks[b]) \in Nat /\ i \in Int /\ 1 <= i /\ i <= Len(Blocks[b])
           /\ DOMAIN Blocks[b] = 1..Len(Blocks[b])
           /\ Blocks[b][i] \in Step
           /\ Blocks[b][i].op \in Operations
           /\ Blocks[b][i].files \subseteq Files
           /\ Blocks[b][i].code \in 0..255 \cup {ToolsOwn}
           /\ Blocks[b][i].status \in {"succeeded", "failed"}
<1>1. Blocks[b] \in Seq(Step)
  BY DEF Disciplined
<1>2. Blocks[b][i] \in Step /\ DOMAIN Blocks[b] = 1..Len(Blocks[b]) /\ Len(Blocks[b]) \in Nat
  BY <1>1
<1>3. \A s \in Step : /\ s.op \in Operations /\ s.files \subseteq Files
                      /\ s.code \in 0..255 \cup {ToolsOwn} /\ s.status \in {"succeeded", "failed"}
  BY DEF Step
<1>4. i \in Int /\ 1 <= i /\ i <= Len(Blocks[b])
  BY <1>2
<1> QED
  BY <1>2, <1>3, <1>4

\* A step that neither exits nor hands over is followed by another.
LEMMA Continues ==
    ASSUME Disciplined, NEW b \in BlockNames, NEW i \in DOMAIN Blocks[b],
           Blocks[b][i].op \notin {"exit", "call"}
    PROVE  i + 1 \in DOMAIN Blocks[b]
<1>1. i # Len(Blocks[b])
  BY DEF Disciplined, Ends
<1> QED
  BY <1>1, StepTyped

\* What an excuse may do, and how it ends.
LEMMA ExcuseSteps ==
    ASSUME NEW b \in Excuses, NEW i \in DOMAIN Blocks[b]
    PROVE  /\ b \in BlockNames
           /\ Blocks[b][i].op \in Quiets
           /\ Blocks[b][i].status = "failed"
           /\ Blocks[b][i].op = "exit" => Blocks[b][i].code # 0
  BY DEF Excuses, Quiets

LEMMA MainOrExcuse ==
    /\ Mains \subseteq BlockNames /\ Excuses \subseteq BlockNames
    /\ \A b \in BlockNames : b \in Mains <=> b \notin Excuses
  BY DEF Mains, Excuses

\* A main function never takes a tool's return code for its own.
LEMMA MainsDoNotBorrow ==
    ASSUME Disciplined, NEW b \in Mains
    PROVE  ~Borrows(b)
<1>1. \A i \in DOMAIN Blocks[b] : Blocks[b][i].code = 0
  BY DEF Disciplined, AnswersInOrder
<1> QED
  BY <1>1 DEF Borrows, ToolsOwn

\* Taking a step adds to what is completed only what it completes.
LEMMA CompletedStep ==
    ASSUME NEW b, NEW i \in Int, NEW f, f \in Completed(b, i + 1)
    PROVE  \/ f \in Completed(b, i)
           \/ Blocks[b][i].op \in {"fill", "swap", "need"} /\ f \in Blocks[b][i].files
<1>1. PICK j \in 1..i : Blocks[b][j].op \in {"fill", "swap", "need"} /\ f \in Blocks[b][j].files
  BY DEF Completed
<1>2. CASE j = i
  BY <1>1, <1>2
<1>3. CASE j # i
  <2>1. j \in 1..(i-1)
    BY <1>3
  <2> QED
    BY <1>1, <2>1 DEF Completed
<1> QED
  BY <1>2, <1>3

\* Only a zero step vouches for the tools before it.
LEMMA VouchedStep ==
    ASSUME NEW b, NEW i \in Int, NEW k \in Int
    PROVE  /\ Vouched(b, k, i) => Vouched(b, k, i + 1)
           /\ Vouched(b, k, i + 1) => Vouched(b, k, i) \/ Blocks[b][i].op = "zero"
           /\ k < i /\ Blocks[b][i].op = "zero" => Vouched(b, k, i + 1)
           /\ ~Vouched(b, i, i + 1)
<1>1. ASSUME Vouched(b, k, i) PROVE Vouched(b, k, i + 1)
  <2>1. PICK z \in (k+1)..(i-1) : Blocks[b][z].op = "zero"
    BY <1>1 DEF Vouched
  <2>2. z \in (k+1)..(i+1-1)
    OBVIOUS
  <2> QED
    BY <2>1, <2>2 DEF Vouched
<1>2. ASSUME Vouched(b, k, i + 1), ~Vouched(b, k, i) PROVE Blocks[b][i].op = "zero"
  <2>1. PICK z \in (k+1)..(i+1-1) : Blocks[b][z].op = "zero"
    BY <1>2 DEF Vouched
  <2>2. z \notin (k+1)..(i-1)
    BY <1>2, <2>1 DEF Vouched
  <2>3. z = i
    BY <2>2
  <2> QED
    BY <2>1, <2>3
<1>3. ASSUME k < i, Blocks[b][i].op = "zero" PROVE Vouched(b, k, i + 1)
  <2>1. i \in (k+1)..(i+1-1)
    BY <1>3
  <2> QED
    BY <1>3, <2>1 DEF Vouched
<1>4. ~Vouched(b, i, i + 1)
  BY DEF Vouched
<1> QED
  BY <1>1, <1>2, <1>3, <1>4

\* A vetted file was emitted by a step before.
LEMMA VettedFrom ==
    ASSUME NEW b, NEW i \in Int, NEW f \in Vetted(b, i)
    PROVE  \E k \in 1..(i-1) : Blocks[b][k].op \in {"tool", "work"} /\ f \in Blocks[b][k].files
  BY DEF Vetted

\* Upstream code vets what it emits, and a zero step what the tools before it did.
LEMMA VettedStep ==
    ASSUME NEW b, NEW i \in Int, NEW f \in Vetted(b, i + 1)
    PROVE  /\ \/ f \in Vetted(b, i)
              \/ Blocks[b][i].op = "work" /\ f \in Blocks[b][i].files
              \/ /\ Blocks[b][i].op = "zero"
                 /\ \E k \in 1..(i-1) : /\ Blocks[b][k].op = "tool" /\ ~Vouched(b, k, i)
                                        /\ f \in Blocks[b][k].files
           /\ Blocks[b][i].op = "supply" => f \notin Blocks[b][i].files
<1>1. PICK k \in 1..i : /\ f \in Blocks[b][k].files
                        /\ \/ Blocks[b][k].op = "work"
                           \/ Blocks[b][k].op = "tool" /\ Vouched(b, k, i + 1)
  BY DEF Vetted
<1>2. \A j \in 1..i : Blocks[b][j].op = "supply" => f \notin Blocks[b][j].files
  BY DEF Vetted
<1>3. Blocks[b][i].op = "supply" => f \notin Blocks[b][i].files
  <2> SUFFICES ASSUME Blocks[b][i].op = "supply" PROVE f \notin Blocks[b][i].files
    OBVIOUS
  <2>1. 1 <= i
    OBVIOUS
  <2> QED
    BY <1>2, <2>1
<1>4. CASE k = i
  <2>1. ~(Blocks[b][k].op = "tool" /\ Vouched(b, k, i + 1))
    BY <1>4, VouchedStep
  <2> QED
    BY <1>1, <1>3, <1>4, <2>1
<1>5. CASE k # i
  <2>1. k \in 1..(i-1)
    BY <1>5
  <2>2. ASSUME Blocks[b][k].op = "work" \/ Vouched(b, k, i)
        PROVE  f \in Vetted(b, i)
    <3>1. \A j \in 1..(i-1) : Blocks[b][j].op = "supply" => f \notin Blocks[b][j].files
      BY <1>2
    <3>2. \/ Blocks[b][k].op = "work"
          \/ Blocks[b][k].op = "tool" /\ Vouched(b, k, i)
      BY <1>1, <2>2
    <3> QED
      BY <1>1, <2>1, <3>1, <3>2 DEF Vetted
  <2>3. CASE ~(Blocks[b][k].op = "work" \/ Vouched(b, k, i))
    <3>1. Blocks[b][k].op = "tool" /\ Vouched(b, k, i + 1) /\ ~Vouched(b, k, i)
      BY <1>1, <2>3
    <3>2. Blocks[b][i].op = "zero"
      BY <3>1, VouchedStep
    <3> QED
      BY <1>1, <1>3, <2>1, <3>1, <3>2
  <2> QED
    BY <1>3, <2>2, <2>3
<1> QED
  BY <1>4, <1>5

\* A tool leaves a file alone, or the file is its own and has a content of C.
LEMMA EmittedEffect ==
    ASSUME files \in [Files -> Contents], NEW F \in SUBSET Files, NEW C \in SUBSET Contents,
           NEW g \in Emitted(F, C)
    PROVE  /\ g \in [Files -> Contents]
           /\ \A f \in Files : g[f] = files[f] \/ (f \in F /\ g[f] \in C)
           /\ F = {} => g = files
<1>1. PICK h \in UNION {[G -> C] : G \in SUBSET F} :
              g = [f \in Files |-> IF f \in DOMAIN h THEN h[f] ELSE files[f]]
  BY DEF Emitted
<1>2. PICK G \in SUBSET F : h \in [G -> C]
  BY <1>1
<1>3. \A f \in Files : g[f] = files[f] \/ (f \in F /\ g[f] \in C)
  BY <1>1, <1>2
<1>4. g \in [Files -> Contents]
  BY <1>1, <1>2
<1>5. F = {} => g = files
  <2> SUFFICES ASSUME F = {} PROVE g = files
    OBVIOUS
  <2>1. \A f \in Files : g[f] = files[f]
    BY <1>3
  <2> QED
    BY <1>4, <2>1
<1> QED
  BY <1>3, <1>4, <1>5

(***************************************************************************)
(* Types.                                                                  *)
(***************************************************************************)
Innocent == {e \in Excuses : ~Borrows(e)}
PlaceTyped == /\ block \in BlockNames /\ at \in 1..Len(Blocks[block])
              /\ handlers \in Seq(Innocent) /\ exit \in 0..256

\* The process is at a step of its block.
LEMMA HereTyped ==
    ASSUME Disciplined, TypeOK
    PROVE  /\ at \in DOMAIN Blocks[block] /\ at \in Int /\ 1 <= at
           /\ Here \in Step /\ Here.op \in Operations /\ Here.files \subseteq Files
           /\ Here.code \in 0..255 \cup {ToolsOwn} /\ Here.status \in {"succeeded", "failed"}
<1>1. Blocks[block] \in Seq(Step)
  BY DEF Disciplined, TypeOK
<1>2. at \in DOMAIN Blocks[block]
  BY <1>1 DEF TypeOK
<1> QED
  BY <1>2, StepTyped DEF TypeOK, Here

LEMMA PassTyped ==
    ASSUME Disciplined, TypeOK, Pass, exit = NoExit, Here.op \notin {"exit", "call"}
    PROVE  PlaceTyped' /\ block' = block /\ at' = at + 1 /\ exit' = exit
<1>1. at + 1 \in DOMAIN Blocks[block]
  BY HereTyped, Continues DEF TypeOK, Here
<1>2. at + 1 \in 1..Len(Blocks[block])
  BY <1>1, StepTyped DEF TypeOK
<1> QED
  BY <1>2 DEF PlaceTyped, TypeOK, Pass, Innocent

LEMMA CodeTyped ==
    ASSUME Disciplined, TypeOK
    PROVE  CodeHere \in Int
<1>1. ReturnCodes \subseteq -255..255
  BY DEF Disciplined
<1>2. rc \in ReturnCodes \cup {0}
  BY DEF TypeOK
<1>3. rc \in Int
  BY <1>1, <1>2
<1>4. Here.code \in Int
  BY HereTyped DEF ToolsOwn
<1> QED
  BY <1>3, <1>4 DEF CodeHere

\* Going to a block puts the process at its first step.
LEMMA GoToTyped ==
    ASSUME Disciplined, TypeOK, NEW b \in BlockNames, GoTo(b), handlers' \in Seq(Innocent)
    PROVE  PlaceTyped' /\ block' = b /\ at' = 1 /\ exit' = exit
<1>1. Blocks[b] \in Seq(Step) /\ Len(Blocks[b]) > 0
  BY DEF Disciplined
<1>2. 1 \in 1..Len(Blocks[b])
  BY <1>1
<1> QED
  BY <1>2 DEF PlaceTyped, TypeOK, GoTo

LEMMA HandlersTyped ==
    ASSUME Disciplined, TypeOK
    PROVE  /\ handlers \in Seq(Innocent)
           /\ handlers # << >> => Head(handlers) \in Innocent /\ Tail(handlers) \in Seq(Innocent)
           /\ \A b \in BlockNames : HandlersOf[b] \o handlers \in Seq(Innocent)
<1>1. handlers \in Seq(Innocent)
  BY DEF TypeOK, Innocent
<1>2. \A b \in BlockNames : HandlersOf[b] \in Seq(Innocent)
  BY DEF Disciplined, Innocent
<1> QED
  BY <1>1, <1>2

\* Where a failed look leads, and a delegation.
LEMMA Targets ==
    ASSUME Disciplined, TypeOK
    PROVE  /\ Here.op = "call" => Here.to \in Mains
           /\ Here.op = "zero" => Here.to \in Excuses \cup {Raises}
           /\ Here.op = "need" => Here.to \in Innocent \cup {Raises}
  BY HereTyped DEF Disciplined, TypeOK, Here, Innocent

LEMMA OverwriteTyped ==
    ASSUME files \in [Files -> Contents], NEW F, NEW c \in Contents
    PROVE  /\ Overwrite(F, c) \in [Files -> Contents]
           /\ \A f \in Files : Overwrite(F, c)[f] = IF f \in F THEN c ELSE files[f]
  BY DEF Overwrite

LEMMA DisturbedTyped ==
    ASSUME Disciplined, TypeOK, NEW g \in Disturbed
    PROVE  /\ g \in [Files -> Contents]
           /\ Here.op \notin {"tool", "work"} => g = files
<1> DEFINE F == IF Here.op \in {"tool", "work"} THEN Here.files ELSE {}
<1>1. files \in [Files -> Contents] /\ F \in SUBSET Files /\ {"part", "whole"} \in SUBSET Contents
  BY HereTyped DEF TypeOK, Contents
<1>2. g \in Emitted(F, {"part", "whole"})
  BY DEF Disturbed
<1> HIDE DEF F
<1>3. g \in [Files -> Contents] /\ (F = {} => g = files)
  BY <1>1, <1>2, EmittedEffect
<1> QED
  BY <1>3 DEF F

ResultTyped == [text: Contents, status: {"succeeded", "failed"}, code: Int, lists: SUBSET Files]

\* Every action keeps the types.
LEMMA TypeStep ==
    ASSUME Disciplined, TypeOK, Next
    PROVE  TypeOK'
<1> USE HereTyped
<1> DEFINE DataTyped == /\ files \in [Files -> Contents] /\ result \in ResultTyped
                        /\ rc \in ReturnCodes \cup {0}
<1>r. ReturnCodes \cup {0} \subseteq -255..255
  BY DEF Disciplined
<1>d. DataTyped
  BY DEF TypeOK, ResultTyped
<1>s. ASSUME PlaceTyped', DataTyped' PROVE TypeOK'
  BY <1>s DEF PlaceTyped, TypeOK, ResultTyped, Innocent
<1>c. CodeHere \in Int /\ CodeHere % 256 \in 0..256
  BY <1>r, <1>d DEF CodeHere, ToolsOwn
<1>p. ASSUME NEW text \in Contents, NEW F \in SUBSET Files, Says(text, F) PROVE result' \in ResultTyped
  BY <1>p, <1>c DEF Says, ResultTyped
<1>1. CASE Check
  BY <1>1, <1>s, <1>d, PassTyped DEF Check, At
<1>2. CASE Open
  BY <1>2, <1>s, <1>d, PassTyped, OverwriteTyped DEF Open, At, Contents
<1>3. CASE Supply
  BY <1>3, <1>s, <1>d, PassTyped, OverwriteTyped DEF Supply, At, Contents
<1>4. CASE Fill
  BY <1>4, <1>s, <1>d, PassTyped, OverwriteTyped DEF Fill, At, Contents
<1>5. CASE Swap
  BY <1>5, <1>s, <1>d, PassTyped, OverwriteTyped DEF Swap, At, Contents
<1>6. CASE Tool
  <2>1. files' \in [Files -> Contents]
    BY <1>6, <1>d, EmittedEffect DEF Tool, Contents
  <2> QED
    BY <1>6, <2>1, <1>s, <1>d, PassTyped DEF Tool, At
<1>7. CASE Work
  <2>1. files' \in [Files -> Contents]
    BY <1>7, <1>d, EmittedEffect DEF Work, Contents
  <2> QED
    BY <1>7, <2>1, <1>s, <1>d, PassTyped DEF Work, At
<1>8. CASE Zero
  <2>1. PlaceTyped'
    <3>1. CASE rc = 0
      BY <1>8, <3>1, PassTyped DEF Zero, At
    <3>2. CASE rc # 0
      <4>1. Here.to \in BlockNames /\ GoTo(Here.to) /\ handlers' = handlers
        BY <1>8, <3>2, Targets, MainOrExcuse DEF Zero, At
      <4> QED
        BY <4>1, GoToTyped, HandlersTyped
    <3> QED
      BY <3>1, <3>2
  <2> QED
    BY <1>8, <2>1, <1>s, <1>d DEF Zero
<1>9. CASE Need
  <2>1. PlaceTyped'
    <3>1. CASE \A f \in Here.files : files[f] # "none"
      BY <1>9, <3>1, PassTyped DEF Need, At
    <3>2. CASE ~\A f \in Here.files : files[f] # "none"
      <4>1. Here.to \in BlockNames /\ GoTo(Here.to) /\ handlers' = handlers
        BY <1>9, <3>2, Targets, MainOrExcuse DEF Need, At, Innocent
      <4> QED
        BY <4>1, GoToTyped, HandlersTyped
    <3> QED
      BY <3>1, <3>2
  <2> QED
    BY <1>9, <2>1, <1>s, <1>d DEF Need
<1>10. CASE Call
  <2>1. Here.to \in BlockNames
    BY <1>10, Targets, MainOrExcuse DEF Call, At
  <2>2. PlaceTyped'
    BY <1>10, <2>1, GoToTyped, HandlersTyped DEF Call
  <2> QED
    BY <1>10, <2>2, <1>s, <1>d DEF Call
<1>11. CASE Answer
  BY <1>11, <1>p, <1>s, <1>d, PassTyped DEF Answer, At, Contents
<1>12. CASE Gather
  <2>1. Present(Here.files) \in SUBSET Files
    BY DEF Present
  <2> QED
    BY <1>12, <2>1, <1>p, <1>s, <1>d, PassTyped DEF Gather, At, Contents
<1>13. CASE Seal
  <2>1. result' \in ResultTyped
    BY <1>13, <1>d DEF Seal, ResultTyped, Contents
  <2> QED
    BY <1>13, <2>1, <1>s, <1>d, PassTyped DEF Seal, At
<1>14. CASE Publish
  BY <1>14, <1>p, <1>s, <1>d, PassTyped DEF Publish, At, Contents
<1>15. CASE Exit
  <2>1. PlaceTyped'
    BY <1>15, <1>c DEF Exit, PlaceTyped, TypeOK, Innocent
  <2> QED
    BY <1>15, <2>1, <1>s, <1>d DEF Exit
<1>16. CASE Raise
  <2>1. PlaceTyped'
    <3>1. CASE exit' = 1 /\ UNCHANGED <<block, at, handlers>>
      BY <3>1 DEF PlaceTyped, TypeOK, Innocent
    <3>2. CASE handlers # << >> /\ GoTo(Head(handlers)) /\ handlers' = Tail(handlers)
      <4>1. Head(handlers) \in BlockNames /\ Tail(handlers) \in Seq(Innocent)
        BY <3>2, HandlersTyped, MainOrExcuse DEF Innocent
      <4> QED
        BY <3>2, <4>1, GoToTyped
    <3> QED
      BY <1>16, <3>1, <3>2 DEF Raise
  <2> QED
    BY <1>16, <2>1, <1>s, <1>d, DisturbedTyped DEF Raise
<1>17. CASE Kill
  <2>1. PlaceTyped'
    BY <1>17 DEF Kill, PlaceTyped, TypeOK, Killed, Innocent
  <2> QED
    BY <1>17, <2>1, <1>s, <1>d, DisturbedTyped DEF Kill
<1> QED
  BY <1>1, <1>2, <1>3, <1>4, <1>5, <1>6, <1>7, <1>8, <1>9, <1>10, <1>11, <1>12, <1>13, <1>14,
     <1>15, <1>16, <1>17 DEF Next

(***************************************************************************)
(* The files.  What the discipline says of a step of a main function:      *)
(***************************************************************************)
LEMMA OrderOfTools ==
    ASSUME Disciplined, TypeOK, block \in Mains
    PROVE  /\ Here.op \in {"tool", "work"} => Here.uses \subseteq Completed(block, at)
           /\ Here.op \in {"tool", "work"} =>
                \A j \in 1..(at-1) : Blocks[block][j].op \in Writers =>
                    \/ Blocks[block][j].files \cap Here.files = {}
                    \/ Here.op = "work" /\ Blocks[block][j].files \subseteq Completed(block, at)
           /\ Here.op = "tool" => \A j \in 1..(at-1) : Blocks[block][j].op = "tool" => Vouched(block, j, at)
           /\ Here.op \in {"open", "tool"} => Here.files \cap Completed(block, at) = {}
           /\ Here.op = "open" => \A j \in 1..(at-1) :
                Blocks[block][j].op \in {"tool", "work"} => Blocks[block][j].files \cap Here.files = {}
           /\ Here.op = "supply" => \A j \in 1..(at-1) :
                Blocks[block][j].op = "tool" => Blocks[block][j].files \cap Here.files = {}
           /\ Here.op = "need" => Here.files \subseteq Completed(block, at) \cup Vetted(block, at)
<1>1. ToolsInOrder(block) /\ at \in DOMAIN Blocks[block]
  BY HereTyped DEF Disciplined
<1> QED
  BY <1>1 DEF ToolsInOrder, Here, Writers

LEMMA CompletedFiles ==
    ASSUME Disciplined, NEW b \in BlockNames, NEW i \in DOMAIN Blocks[b]
    PROVE  /\ Completed(b, i) \subseteq Files /\ Vetted(b, i) \subseteq Files
           /\ \A j \in 1..(i-1) : j \in DOMAIN Blocks[b] /\ Blocks[b][j].files \subseteq Files
<1>1. \A j \in 1..(i-1) : j \in DOMAIN Blocks[b] /\ Blocks[b][j].files \subseteq Files
  BY StepTyped
<1> QED
  BY <1>1 DEF Completed, Vetted

LEMMA OrderOfAnswers ==
    ASSUME Disciplined, TypeOK, block \in Mains, NEW i \in DOMAIN Blocks[block]
    PROVE  LET S == Blocks[block] IN
           /\ S[i].op # "gather" /\ S[i].code = 0
           /\ S[i].op \in {"answer", "publish"} =>
                /\ S[i].status = "succeeded"
                /\ S[i].files \subseteq Completed(block, i)
                /\ \A j \in 1..(i-1) : S[j].op = "tool" => Vouched(block, j, i)
                /\ \A k \in (i+1)..Len(S) : S[k].op \in {"seal", "check", "exit"}
           /\ S[i].op = "answer" => i < Len(S) /\ S[i+1].op = "seal"
           /\ S[i].op = "seal" => i > 1 /\ S[i-1].op = "answer"
           /\ S[i].op = "exit" => \E j \in 1..(i-1) : S[j].op = "publish" \/ (S[j].op = "answer" /\ j + 1 < i)
           /\ S[i].op = "call" => \A j \in 1..(i-1) : S[j].op = "check"
<1>1. AnswersInOrder(block) /\ AnswersStand(block)
  BY MainOrExcuse DEF Disciplined
<1>2. \A j \in 1..(i-1) : j \in DOMAIN Blocks[block]
  BY MainOrExcuse, CompletedFiles
<1>3. \A j \in DOMAIN Blocks[block] : Blocks[block][j].op # "gather"
  BY <1>1 DEF AnswersInOrder
<1>4. Blocks[block][i].op = "exit" =>
        \E j \in 1..(i-1) : Blocks[block][j].op = "publish" \/ (Blocks[block][j].op = "answer" /\ j + 1 < i)
  BY <1>1, <1>2, <1>3 DEF AnswersStand, Answers
<1>5. Blocks[block][i].op = "answer" => i < Len(Blocks[block]) /\ Blocks[block][i+1].op = "seal"
  BY <1>1 DEF AnswersStand
<1> QED
  BY <1>1, <1>4, <1>5 DEF AnswersInOrder

\* FilesInv, in parts, for step i of block b.
CompletedWhole(b, i) == \A f \in Completed(b, i) : files[f] = "whole"
ToolsWhole(b, i) == \A k \in 1..(i-1) : Blocks[b][k].op = "tool" /\ ~Vouched(b, k, i) /\ rc = 0 =>
                       \A f \in Blocks[b][k].files : files[f] # "part"
VettedWhole(b, i) == \A f \in Vetted(b, i) : files[f] # "part"
PartsBegun(b, i) == \A f \in Files : files[f] = "part" =>
                       \E j \in 1..(i-1) : Blocks[b][j].op \in Writers /\ f \in Blocks[b][j].files
FailureFresh(b, i) == rc # 0 => \E k \in 1..(i-1) : Blocks[b][k].op = "tool" /\ ~Vouched(b, k, i)
FilesSound(b, i) == /\ CompletedWhole(b, i) /\ ToolsWhole(b, i) /\ VettedWhole(b, i)
                    /\ PartsBegun(b, i) /\ FailureFresh(b, i)

LEMMA FilesInvParts ==
    /\ FilesInv <=> (exit = NoExit /\ block \in Mains => FilesSound(block, at))
    /\ FilesInv' <=> (exit' = NoExit /\ block' \in Mains => FilesSound(block, at)')
  BY DEF FilesInv, FilesSound, CompletedWhole, ToolsWhole, VettedWhole, PartsBegun, FailureFresh, Writers

\* A statement that passes and leaves the files, or completes some, keeps FilesSound.
LEMMA FilesKept ==
    ASSUME Disciplined, TypeOK, TypeOK', block \in Mains, block' = block, at' = at + 1, rc' = rc,
           FilesSound(block, at), Here.op \notin {"tool", "work", "supply"},
           \A f \in Files : files'[f] = files[f] \/ files'[f] = "whole",
           Here.op \in {"fill", "swap"} => \A f \in Here.files : files'[f] = "whole",
           Here.op = "need" => files' = files /\ \A f \in Here.files : files[f] # "none",
           Here.op = "zero" => rc = 0
    PROVE  FilesSound(block, at)'
<1> DEFINE b == block  i == at
<1> USE HereTyped DEF Here
<1>t. i \in DOMAIN Blocks[b] /\ b \in BlockNames /\ i \in Int
  BY MainOrExcuse
<1>1. CompletedWhole(block, at)'
  <2> SUFFICES ASSUME NEW f \in Completed(b, i + 1) PROVE files'[f] = "whole"
    BY DEF CompletedWhole
  <2>1. CASE f \in Completed(b, i)
    BY <2>1, <1>t, CompletedFiles DEF FilesSound, CompletedWhole
  <2>2. CASE Blocks[b][i].op \in {"fill", "swap"} /\ f \in Blocks[b][i].files
    BY <2>2
  <2>3. CASE Blocks[b][i].op = "need" /\ f \in Blocks[b][i].files
    <3>1. f \in Completed(b, i) \cup Vetted(b, i)
      BY <2>3, OrderOfTools
    <3>2. f \in Files /\ files[f] \in Contents
      BY <2>3 DEF TypeOK
    <3> QED
      BY <2>3, <3>1, <3>2 DEF FilesSound, CompletedWhole, VettedWhole, Contents
  <2> QED
    BY <2>1, <2>2, <2>3, <1>t, CompletedStep
<1>2. ToolsWhole(block, at)'
  <2> SUFFICES ASSUME NEW k \in 1..i, Blocks[b][k].op = "tool", ~Vouched(b, k, i + 1), rc = 0,
                      NEW f \in Blocks[b][k].files
               PROVE  files'[f] # "part"
    BY DEF ToolsWhole
  <2>1. k \in 1..(i-1) /\ ~Vouched(b, k, i)
    BY <1>t, VouchedStep
  <2>2. f \in Files
    BY <1>t, <2>1, CompletedFiles
  <2> QED
    BY <2>1, <2>2 DEF FilesSound, ToolsWhole
<1>3. VettedWhole(block, at)'
  <2> SUFFICES ASSUME NEW f \in Vetted(b, i + 1) PROVE files'[f] # "part"
    BY DEF VettedWhole
  <2>1. CASE f \in Vetted(b, i)
    BY <2>1, <1>t, CompletedFiles DEF FilesSound, VettedWhole
  <2>2. CASE \E k \in 1..(i-1) : /\ Blocks[b][k].op = "tool" /\ ~Vouched(b, k, i)
                                 /\ f \in Blocks[b][k].files
    BY <2>1, <2>2, <1>t, CompletedFiles, VettedStep DEF FilesSound, ToolsWhole
  <2> QED
    BY <2>1, <2>2, <1>t, VettedStep
<1>4. PartsBegun(block, at)'
  <2>1. \A f \in Files : files'[f] = "part" =>
            \E j \in 1..(i-1) : Blocks[b][j].op \in Writers /\ f \in Blocks[b][j].files
    BY DEF FilesSound, PartsBegun
  <2> QED
    BY <2>1, <1>t DEF PartsBegun
<1>5. FailureFresh(block, at)'
  <2> SUFFICES ASSUME rc # 0
               PROVE  \E k \in 1..i : Blocks[b][k].op = "tool" /\ ~Vouched(b, k, i + 1)
    BY DEF FailureFresh
  <2>1. PICK k \in 1..(i-1) : Blocks[b][k].op = "tool" /\ ~Vouched(b, k, i)
    BY DEF FilesSound, FailureFresh
  <2> QED
    BY <2>1, <1>t, VouchedStep
<1> QED
  BY <1>1, <1>2, <1>3, <1>4, <1>5 DEF FilesSound

\* A statement that begins a file keeps FilesSound, for the file is not one
\* that was completed or emitted before.
LEMMA FilesBegun ==
    ASSUME Disciplined, TypeOK, TypeOK', block \in Mains, block' = block, at' = at + 1, rc' = rc,
           FilesSound(block, at), Here.op \in {"open", "supply"},
           \A f \in Files : files'[f] = files[f] \/ f \in Here.files,
           Here.op = "supply" => \A f \in Files : files[f] = "whole" => files'[f] = "whole"
    PROVE  FilesSound(block, at)'
<1> DEFINE b == block  i == at
<1> USE HereTyped DEF Here
<1>t. i \in DOMAIN Blocks[b] /\ b \in BlockNames /\ i \in Int
  BY MainOrExcuse
<1>1. CompletedWhole(block, at)'
  <2> SUFFICES ASSUME NEW f \in Completed(b, i + 1) PROVE files'[f] = "whole"
    BY DEF CompletedWhole
  <2>1. f \in Completed(b, i)
    BY <1>t, CompletedStep
  <2>2. f \in Files /\ files[f] = "whole"
    BY <2>1, <1>t, CompletedFiles DEF FilesSound, CompletedWhole
  <2>3. Here.op = "open" => f \notin Here.files
    BY <2>1, OrderOfTools
  <2> QED
    BY <2>2, <2>3
<1>2. ToolsWhole(block, at)'
  <2> SUFFICES ASSUME NEW k \in 1..i, Blocks[b][k].op = "tool", ~Vouched(b, k, i + 1), rc = 0,
                      NEW f \in Blocks[b][k].files
               PROVE  files'[f] # "part"
    BY DEF ToolsWhole
  <2>1. k \in 1..(i-1) /\ ~Vouched(b, k, i)
    BY <1>t, VouchedStep
  <2>2. f \in Files /\ files[f] # "part"
    BY <1>t, <2>1, CompletedFiles DEF FilesSound, ToolsWhole
  <2>3. f \notin Here.files
    BY <2>1, OrderOfTools
  <2> QED
    BY <2>2, <2>3
<1>3. VettedWhole(block, at)'
  <2> SUFFICES ASSUME NEW f \in Vetted(b, i + 1) PROVE files'[f] # "part"
    BY DEF VettedWhole
  <2>1. f \in Vetted(b, i) /\ (Here.op = "supply" => f \notin Here.files)
    BY <1>t, VettedStep
  <2>2. f \in Files /\ files[f] # "part"
    BY <2>1, <1>t, CompletedFiles DEF FilesSound, VettedWhole
  <2>3. Here.op = "open" => f \notin Here.files
    <3>1. PICK k \in 1..(i-1) : Blocks[b][k].op \in {"tool", "work"} /\ f \in Blocks[b][k].files
      BY <2>1, <1>t, VettedFrom
    <3> QED
      BY <3>1, OrderOfTools
  <2> QED
    BY <2>1, <2>2, <2>3
<1>4. PartsBegun(block, at)'
  <2> SUFFICES ASSUME NEW f \in Files, files'[f] = "part"
               PROVE  \E j \in 1..i : Blocks[b][j].op \in Writers /\ f \in Blocks[b][j].files
    BY DEF PartsBegun
  <2>1. CASE f \in Here.files
    BY <2>1, <1>t DEF Writers
  <2>2. CASE f \notin Here.files
    BY <2>2, <1>t DEF FilesSound, PartsBegun
  <2> QED
    BY <2>1, <2>2
<1>5. FailureFresh(block, at)'
  <2> SUFFICES ASSUME rc # 0
               PROVE  \E k \in 1..i : Blocks[b][k].op = "tool" /\ ~Vouched(b, k, i + 1)
    BY DEF FailureFresh
  <2>1. PICK k \in 1..(i-1) : Blocks[b][k].op = "tool" /\ ~Vouched(b, k, i)
    BY DEF FilesSound, FailureFresh
  <2> QED
    BY <2>1, <1>t, VouchedStep
<1> QED
  BY <1>1, <1>2, <1>3, <1>4, <1>5 DEF FilesSound

\* A tool or upstream code keeps FilesSound: a file it did not complete was not
\* begun by anyone else either.
LEMMA FilesEmitted ==
    ASSUME Disciplined, TypeOK, TypeOK', block \in Mains, block' = block, at' = at + 1,
           FilesSound(block, at), Here.op \in {"tool", "work"},
           \A f \in Files : files'[f] = files[f] \/ (f \in Here.files /\ files'[f] \in {"part", "whole"}),
           rc' = 0 \/ Here.op = "work" =>
              \A f \in Files : files'[f] = files[f] \/ (f \in Here.files /\ files'[f] = "whole"),
           Here.op = "work" => rc' = rc
    PROVE  FilesSound(block, at)'
<1> DEFINE b == block  i == at
<1> USE HereTyped DEF Here
<1>t. i \in DOMAIN Blocks[b] /\ b \in BlockNames /\ i \in Int
  BY MainOrExcuse
<1>n. \A f \in Here.files : files[f] = "part" => Here.op = "work" /\ f \in Completed(b, i)
  BY OrderOfTools DEF FilesSound, PartsBegun
<1>c. \A f \in Here.files : files[f] # "part"
  BY <1>n DEF FilesSound, CompletedWhole
<1>1. CompletedWhole(block, at)'
  <2> SUFFICES ASSUME NEW f \in Completed(b, i + 1) PROVE files'[f] = "whole"
    BY DEF CompletedWhole
  <2>1. f \in Completed(b, i)
    BY <1>t, CompletedStep
  <2>2. f \in Files /\ files[f] = "whole"
    BY <2>1, <1>t, CompletedFiles DEF FilesSound, CompletedWhole
  <2>3. Here.op = "tool" => f \notin Here.files
    BY <2>1, OrderOfTools
  <2> QED
    BY <2>2, <2>3
<1>2. ToolsWhole(block, at)'
  <2> SUFFICES ASSUME NEW k \in 1..i, Blocks[b][k].op = "tool", ~Vouched(b, k, i + 1), rc' = 0,
                      NEW f \in Blocks[b][k].files
               PROVE  files'[f] # "part"
    BY DEF ToolsWhole
  <2>1. f \in Files
    BY <1>t, CompletedFiles
  <2>2. CASE k = i
    BY <2>1, <2>2, <1>c
  <2>3. CASE k # i
    <3>1. k \in 1..(i-1) /\ ~Vouched(b, k, i)
      BY <2>3, <1>t, VouchedStep
    <3>2. Here.op = "work"
      BY <3>1, OrderOfTools
    <3>3. files[f] # "part"
      BY <3>1, <3>2 DEF FilesSound, ToolsWhole
    <3> QED
      BY <2>1, <3>2, <3>3
  <2> QED
    BY <2>2, <2>3
<1>3. VettedWhole(block, at)'
  <2> SUFFICES ASSUME NEW f \in Vetted(b, i + 1) PROVE files'[f] # "part"
    BY DEF VettedWhole
  <2>1. CASE f \in Vetted(b, i)
    <3>1. f \in Files /\ files[f] # "part"
      BY <2>1, <1>t, CompletedFiles DEF FilesSound, VettedWhole
    <3>2. Here.op = "tool" => f \notin Here.files
      <4>1. PICK k \in 1..(i-1) : Blocks[b][k].op \in {"tool", "work"} /\ f \in Blocks[b][k].files
        BY <2>1, <1>t, VettedFrom
      <4> QED
        BY <4>1, OrderOfTools DEF Writers
    <3> QED
      BY <3>1, <3>2
  <2>2. CASE Here.op = "work" /\ f \in Here.files
    BY <2>2, <1>c
  <2> QED
    BY <2>1, <2>2, <1>t, VettedStep
<1>4. PartsBegun(block, at)'
  <2> SUFFICES ASSUME NEW f \in Files, files'[f] = "part"
               PROVE  \E j \in 1..i : Blocks[b][j].op \in Writers /\ f \in Blocks[b][j].files
    BY DEF PartsBegun
  <2>1. CASE f \in Here.files
    BY <2>1, <1>t DEF Writers
  <2>2. CASE f \notin Here.files
    BY <2>2, <1>t DEF FilesSound, PartsBegun
  <2> QED
    BY <2>1, <2>2
<1>5. FailureFresh(block, at)'
  <2> SUFFICES ASSUME rc' # 0
               PROVE  \E k \in 1..i : Blocks[b][k].op = "tool" /\ ~Vouched(b, k, i + 1)
    BY DEF FailureFresh
  <2>1. CASE Here.op = "tool"
    BY <2>1, <1>t, VouchedStep
  <2>2. CASE Here.op = "work"
    <3>1. PICK k \in 1..(i-1) : Blocks[b][k].op = "tool" /\ ~Vouched(b, k, i)
      BY <2>2 DEF FilesSound, FailureFresh
    <3> QED
      BY <2>2, <3>1, <1>t, VouchedStep
  <2> QED
    BY <2>1, <2>2
<1> QED
  BY <1>1, <1>2, <1>3, <1>4, <1>5 DEF FilesSound

\* A main function starts with no file of its own in the making.
LEMMA FilesAtFirst ==
    ASSUME NEW b, rc' = 0, \A f \in Files : files'[f] # "part", block' = b, at' = 1
    PROVE  FilesSound(block, at)'
<1>1. Completed(b, 1) = {} /\ Vetted(b, 1) = {}
  BY DEF Completed, Vetted
<1> QED
  BY <1>1 DEF FilesSound, CompletedWhole, ToolsWhole, VettedWhole, PartsBegun, FailureFresh

\* Excuses have none of the steps that look, call or run tools.
LEMMA OnlyMains ==
    ASSUME Disciplined, TypeOK, Here.op \notin Quiets
    PROVE  block \in Mains
<1>1. block \notin Excuses
  BY HereTyped, ExcuseSteps DEF Here
<1> QED
  BY <1>1, MainOrExcuse DEF TypeOK

\* Every action keeps FilesInv.
LEMMA FilesStep ==
    ASSUME Disciplined, TypeOK, FilesInv, TypeOK', Next
    PROVE  FilesInv'
<1> SUFFICES ASSUME exit' = NoExit, block' \in Mains PROVE FilesSound(block, at)'
  BY FilesInvParts
<1>n. exit = NoExit
  BY DEF Next, Check, Open, Supply, Fill, Swap, Tool, Work, Zero, Need, Call, Answer, Gather, Seal,
         Publish, Exit, Raise, Kill, At
<1>s. ASSUME block \in Mains PROVE FilesSound(block, at)
  BY <1>s, <1>n, FilesInvParts
<1>e. Excuses \cap Mains = {}
  BY MainOrExcuse
<1>h. handlers # << >> => Head(handlers) \in Excuses
  BY HandlersTyped DEF Innocent
<1>p. ASSUME Pass PROVE block \in Mains /\ block' = block /\ at' = at + 1
  BY <1>p DEF Pass
<1>f. /\ files \in [Files -> Contents]
      /\ Here.files \subseteq Files
  BY HereTyped DEF TypeOK
<1>w. \A F : \A f \in Files : Overwrite(F, "whole")[f] = IF f \in F THEN "whole" ELSE files[f]
  BY DEF Overwrite
<1>1. CASE Check \/ Answer \/ Gather \/ Seal \/ Publish
  BY <1>1, <1>p, <1>s, FilesKept DEF Check, Answer, Gather, Seal, Publish, At
<1>2. CASE Open
  <2>1. \A f \in Files : files'[f] = files[f] \/ f \in Here.files
    BY <1>2 DEF Open, Overwrite
  <2> QED
    BY <1>2, <2>1, <1>p, <1>s, FilesBegun DEF Open, At
<1>3. CASE Supply
  <2>1. \A f \in Files : /\ files'[f] = files[f] \/ f \in Here.files
                         /\ files[f] = "whole" => files'[f] = "whole"
    BY <1>3 DEF Supply, Overwrite
  <2> QED
    BY <1>3, <2>1, <1>p, <1>s, FilesBegun DEF Supply, At
<1>4. CASE Fill \/ Swap
  <2>1. files' = Overwrite(Here.files, "whole") /\ Pass /\ rc' = rc /\ Here.op \in {"fill", "swap"}
    BY <1>4 DEF Fill, Swap, At
  <2>2. \A f \in Files : files'[f] = files[f] \/ files'[f] = "whole"
    BY <2>1, <1>w
  <2>3. \A f \in Here.files : files'[f] = "whole"
    BY <2>1, <1>w, <1>f
  <2> QED
    BY <2>1, <2>2, <2>3, <1>p, <1>s, FilesKept
<1>5. CASE Tool
  <2> DEFINE C == IF rc' = 0 THEN {"whole"} ELSE {"part", "whole"}
  <2>1. files' \in Emitted(Here.files, C) /\ C \in SUBSET Contents
    BY <1>5 DEF Tool, Contents
  <2>f. Here.files \in SUBSET Files
    BY <1>f
  <2> HIDE DEF C
  <2>2. \A f \in Files : files'[f] = files[f] \/ (f \in Here.files /\ files'[f] \in C)
    BY <2>1, <2>f, <1>f, EmittedEffect
  <2> QED
    BY <1>5, <2>2, <1>p, <1>s, FilesEmitted DEF Tool, At, C
<1>6. CASE Work
  <2> DEFINE C == {"whole"}
  <2>1. files' \in Emitted(Here.files, C) /\ C \in SUBSET Contents /\ Here.files \in SUBSET Files
    BY <1>6, <1>f DEF Work, Contents
  <2> HIDE DEF C
  <2>3. \A f \in Files : files'[f] = files[f] \/ (f \in Here.files /\ files'[f] \in C)
    BY <2>1, <1>f, EmittedEffect
  <2>2. \A f \in Files : files'[f] = files[f] \/ (f \in Here.files /\ files'[f] = "whole")
    BY <2>3 DEF C
  <2> QED
    BY <1>6, <2>2, <1>p, <1>s, FilesEmitted DEF Work, At
<1>7. CASE Zero
  <2>1. Pass /\ rc = 0
    BY <1>7, <1>e, Targets DEF Zero, At, GoTo
  <2> QED
    BY <1>7, <2>1, <1>p, <1>s, FilesKept DEF Zero, At
<1>8. CASE Need
  <2>1. Pass /\ \A f \in Here.files : files[f] # "none"
    BY <1>8, <1>e, Targets DEF Need, At, GoTo, Innocent
  <2> QED
    BY <1>8, <2>1, <1>p, <1>s, FilesKept DEF Need, At
<1>9. CASE Call
  <2>1. block \in Mains
    BY <1>9, OnlyMains DEF Call, At, Quiets
  <2>2. \A j \in 1..(at-1) : Blocks[block][j].op = "check"
    BY <1>9, <2>1, HereTyped, OrderOfAnswers DEF Call, At, Here
  <2>3. \A f \in Files : files[f] # "part"
    BY <2>1, <2>2, <1>s DEF FilesSound, PartsBegun, Writers
  <2>4. rc = 0
    BY <2>1, <2>2, <1>s DEF FilesSound, FailureFresh
  <2> QED
    BY <1>9, <2>3, <2>4, FilesAtFirst DEF Call, GoTo
<1>10. CASE Exit \/ Raise \/ Kill
  <2>1. CodeHere \in Int
    BY CodeTyped
  <2>2. CodeHere % 256 \in 0..255
    BY <2>1
  <2>3. ~Exit /\ ~Kill
    BY <2>2 DEF Exit, Kill, NoExit, Killed
  <2>4. exit' = 1 \/ block' \in Excuses
    BY <1>10, <2>3, <1>h DEF Raise, GoTo
  <2> QED
    BY <2>4, <1>e DEF NoExit
<1> QED
  BY <1>1, <1>2, <1>3, <1>4, <1>5, <1>6, <1>7, <1>8, <1>9, <1>10 DEF Next

(***************************************************************************)
(* The result document.                                                    *)
(***************************************************************************)
\* What may be said of the document while step i of block b is due.
Backed == result.status = "succeeded" => rc = 0 /\ \A f \in result.lists : files[f] = "whole"
QuietFrom(b, i) == \A k \in i..Len(Blocks[b]) : Blocks[b][k].op \in Quiets
Said(b, i) == \A j \in 1..(i-1) :
                 /\ Blocks[b][j].op \in {"answer", "publish"} => result.status = "succeeded"
                 /\ Blocks[b][j].op = "publish" => result.text = "whole"
                 /\ Blocks[b][j].op = "answer" /\ j + 1 < i => result.text = "whole"
Reported(b, i) == /\ Backed
                  /\ result.status = "succeeded" => QuietFrom(b, i)
                  /\ result.status = "failed" /\ result.text # "none" => b \in Excuses
                  /\ Borrows(b) => rc # 0

LEMMA ResultInvParts ==
    /\ ResultInv <=> Reported(block, at) /\ (exit = NoExit /\ block \in Mains => Said(block, at))
    /\ ResultInv' <=> Reported(block, at)' /\ (exit' = NoExit /\ block' \in Mains => Said(block, at)')
  BY DEF ResultInv, Reported, Said, Backed, QuietFrom, Quiet, Quiets

\* An excuse is quiet from its first step.
LEMMA ExcusesAreQuiet ==
    ASSUME Disciplined, NEW b \in Excuses, NEW i \in Int, 1 <= i
    PROVE  QuietFrom(b, i)
<1> SUFFICES ASSUME NEW k \in i..Len(Blocks[b]) PROVE Blocks[b][k].op \in Quiets
  BY DEF QuietFrom
<1>1. b \in BlockNames
  BY MainOrExcuse
<1>2. Blocks[b] \in Seq(Step)
  BY <1>1 DEF Disciplined
<1>3. k \in DOMAIN Blocks[b]
  BY <1>2
<1> QED
  BY <1>3, ExcuseSteps

\* A statement that says nothing and stays in its block keeps what is said.
LEMMA SaidKept ==
    ASSUME Disciplined, TypeOK, block \in Mains, Said(block, at), block' = block, at' = at + 1,
           result' = result, Here.op \notin {"answer", "publish", "seal"}
    PROVE  Said(block, at)'
<1> USE HereTyped
<1>1. \A j \in 1..(at-1) : Blocks[block][j].op = "answer" => j + 1 < at
  <2> SUFFICES ASSUME NEW j \in 1..(at-1), Blocks[block][j].op = "answer", j + 1 >= at PROVE FALSE
    OBVIOUS
  <2>1. j + 1 = at /\ j \in DOMAIN Blocks[block]
    BY MainOrExcuse, StepTyped
  <2>2. Blocks[block][at].op = "seal"
    BY <2>1, OrderOfAnswers
  <2> QED
    BY <2>2 DEF Here
<1> QED
  BY <1>1 DEF Said, Here

\* Every action keeps ResultInv.
LEMMA ResultStep ==
    ASSUME Disciplined, TypeOK, FilesInv, ResultInv, TypeOK', Next
    PROVE  ResultInv'
<1> USE HereTyped
<1>n. exit = NoExit
  BY DEF Next, Check, Open, Supply, Fill, Swap, Tool, Work, Zero, Need, Call, Answer, Gather, Seal,
         Publish, Exit, Raise, Kill, At
<1>r. Reported(block, at) /\ (block \in Mains => Said(block, at) /\ FilesSound(block, at))
  BY <1>n, ResultInvParts, FilesInvParts
<1>m. block \in Mains => block \notin Excuses /\ ~Borrows(block)
  BY MainOrExcuse, MainsDoNotBorrow
<1>b. block \in BlockNames /\ (block \notin Mains => block \in Excuses)
  BY MainOrExcuse DEF TypeOK
<1>q. result.status = "succeeded" => Here.op \in Quiets
  BY <1>r DEF Reported, QuietFrom, Here
<1>h. handlers # << >> => Head(handlers) \in Excuses /\ ~Borrows(Head(handlers))
  BY HandlersTyped DEF Innocent
<1>s. result.status \in {"succeeded", "failed"} /\ result.text \in Contents
  BY DEF TypeOK
\* A statement that passes, says nothing, and neither runs a tool nor breaks a whole file.
<1>p. ASSUME Pass, result' = result, Here.op \notin {"answer", "publish", "seal", "exit", "call"},
             Here.op \in Quiets => rc' = rc /\ \A f \in Files : files[f] = "whole" => files'[f] = "whole",
             block \in Excuses => rc' = rc
      PROVE  ResultInv'
  <2>1. block' = block /\ at' = at + 1 /\ exit' = exit
    BY <1>p DEF Pass
  <2>2. Reported(block, at)'
    <3>1. Backed'
      BY <1>p, <1>q, <1>r DEF Backed, Reported, TypeOK
    <3>2. result'.status = "succeeded" => QuietFrom(block', at')
      BY <1>p, <1>r, <2>1 DEF Reported, QuietFrom
    <3>3. Borrows(block) => rc' # 0
      BY <1>p, <1>m, <1>b, <1>r DEF Reported
    <3> QED
      BY <1>p, <1>r, <2>1, <3>1, <3>2, <3>3 DEF Reported
  <2>3. block \in Mains => Said(block, at)'
    BY <1>p, <1>r, <2>1, SaidKept
  <2> QED
    BY <2>1, <2>2, <2>3, ResultInvParts
\* A failed look, or an exception, leads to an excuse.
<1>g. ASSUME NEW b \in Excuses, GoTo(b), result' = result, rc' = rc, files' = files \/ Here.op \notin Quiets,
             Borrows(b) => rc # 0
      PROVE  ResultInv'
  <2>1. block' = b /\ at' = 1
    BY <1>g DEF GoTo
  <2>2. Reported(block, at)'
    <3>1. QuietFrom(b, 1)
      BY ExcusesAreQuiet
    <3> QED
      BY <1>g, <1>q, <1>r, <2>1, <3>1 DEF Reported, Backed
  <2>3. block' \notin Mains
    BY <2>1, MainOrExcuse
  <2> QED
    BY <2>2, <2>3, ResultInvParts
\* The end of the process, or of a tool, changes nothing that was said.
<1>x. ASSUME exit' # NoExit, block' = block, at' = at, result' = result, rc' = rc,
             files' = files \/ Here.op \notin Quiets
      PROVE  ResultInv'
  <2>1. Reported(block, at)'
    BY <1>x, <1>q, <1>r DEF Reported, Backed
  <2> QED
    BY <1>x, <2>1, ResultInvParts
<1>1. CASE Check
  BY <1>1, <1>p DEF Check, At
<1>2. CASE Open
  <2>1. Here.op = "open" /\ "open" \notin Quiets
    BY <1>2 DEF Open, At, Quiets
  <2> QED
    BY <1>2, <2>1, <1>p DEF Open
<1>3. CASE Supply
  <2>1. Here.op = "supply" /\ "supply" \notin Quiets
    BY <1>3 DEF Supply, At, Quiets
  <2> QED
    BY <1>3, <2>1, <1>p DEF Supply
<1>4. CASE Fill \/ Swap
  <2>1. \A f \in Files : files[f] = "whole" => files'[f] = "whole"
    BY <1>4 DEF Fill, Swap, Overwrite
  <2> QED
    BY <1>4, <2>1, <1>p DEF Fill, Swap, At
<1>5. CASE Tool
  <2>1. Here.op = "tool" /\ Here.op \notin Quiets
    BY <1>5 DEF Tool, At, Quiets
  <2>2. block \notin Excuses
    BY <2>1, OnlyMains, <1>m
  <2> QED
    BY <1>5, <2>1, <2>2, <1>p DEF Tool
<1>6. CASE Work
  <2>1. Here.op = "work" /\ Here.op \notin Quiets
    BY <1>6 DEF Work, At, Quiets
  <2> QED
    BY <1>6, <2>1, <1>p DEF Work
<1>7. CASE Zero
  <2>1. CASE rc = 0
    BY <1>7, <2>1, <1>p DEF Zero, At
  <2>2. CASE rc # 0
    <3>1. Here.to \in Excuses /\ GoTo(Here.to)
      BY <1>7, <2>2, Targets DEF Zero, At
    <3> QED
      BY <1>7, <2>2, <3>1, <1>g DEF Zero
  <2> QED
    BY <2>1, <2>2
<1>8. CASE Need
  <2>1. CASE \A f \in Here.files : files[f] # "none"
    BY <1>8, <2>1, <1>p DEF Need, At
  <2>2. CASE ~\A f \in Here.files : files[f] # "none"
    <3>1. Here.to \in Excuses /\ ~Borrows(Here.to) /\ GoTo(Here.to)
      BY <1>8, <2>2, Targets DEF Need, At, Innocent
    <3> QED
      BY <1>8, <3>1, <1>g DEF Need
  <2> QED
    BY <2>1, <2>2
<1>9. CASE Call
  <2>1. Here.op = "call" /\ Here.op \notin Quiets
    BY <1>9 DEF Call, At, Quiets
  <2>2. block \in Mains /\ Here.to \in Mains
    BY <2>1, OnlyMains, Targets
  <2>3. block' = Here.to /\ at' = 1 /\ result' = result
    BY <1>9 DEF Call, GoTo
  <2>4. result.status = "failed" /\ result.text = "none"
    BY <2>1, <2>2, <1>q, <1>s, <1>m, <1>r DEF Reported
  <2>5. Reported(block, at)'
    BY <2>2, <2>3, <2>4, MainsDoNotBorrow DEF Reported, Backed
  <2>6. Said(block, at)'
    BY <2>3 DEF Said
  <2> QED
    BY <2>5, <2>6, ResultInvParts
\* A main function answers with success, once, and is quiet afterwards.
<1>a. ASSUME block \in Mains, Here.op \in {"answer", "publish"}, Pass, NEW text, Says(text, Here.files),
             Here.op = "publish" => text = "whole", files' = files, rc' = rc
      PROVE  ResultInv'
  <2> DEFINE S == Blocks[block]
  <2>1. /\ Here.status = "succeeded"
        /\ Here.files \subseteq Completed(block, at)
        /\ \A j \in 1..(at-1) : S[j].op = "tool" => Vouched(block, j, at)
        /\ \A k \in (at+1)..Len(S) : S[k].op \in {"seal", "check", "exit"}
    BY <1>a, OrderOfAnswers DEF Here
  <2>2. block' = block /\ at' = at + 1 /\ result'.status = "succeeded" /\ result'.text = text
        /\ result'.lists = Here.files
    BY <1>a, <2>1 DEF Pass, Says
  <2>3. rc = 0
    BY <1>a, <1>r, <2>1 DEF FilesSound, FailureFresh
  <2>4. \A f \in Here.files : files[f] = "whole"
    BY <1>a, <1>r, <2>1 DEF FilesSound, CompletedWhole
  <2>5. QuietFrom(block, at + 1)
    BY <2>1 DEF QuietFrom, Quiets
  <2>6. Reported(block, at)'
    BY <1>a, <1>m, <2>2, <2>3, <2>4, <2>5 DEF Reported, Backed
  <2>7. \A j \in 1..(at-1) : S[j].op \notin {"answer", "publish"}
    <3> SUFFICES ASSUME NEW j \in 1..(at-1), S[j].op \in {"answer", "publish"} PROVE FALSE
      OBVIOUS
    <3>1. j \in DOMAIN S /\ at \in (j+1)..Len(S)
      BY <1>b, StepTyped
    <3>2. S[at].op \in {"seal", "check", "exit"}
      BY <1>a, <3>1, OrderOfAnswers
    <3> QED
      BY <1>a, <3>2 DEF Here
  <2>8. Said(block, at)'
    <3>1. \A j \in 1..at : j = at \/ j \in 1..(at-1)
      OBVIOUS
    <3> QED
      BY <1>a, <2>2, <2>7, <3>1 DEF Said, Here
  <2> QED
    BY <2>6, <2>8, ResultInvParts
\* An excuse answers with failure.
<1>f. ASSUME block \in Excuses, Pass, NEW text, NEW F, Says(text, F), rc' = rc
      PROVE  ResultInv'
  <2>1. Here.status = "failed"
    BY <1>f, ExcuseSteps DEF Here
  <2>2. block' = block /\ result'.status = "failed"
    BY <1>f, <2>1 DEF Pass, Says
  <2>3. Reported(block, at)'
    BY <1>f, <1>r, <2>2 DEF Reported, Backed
  <2> QED
    BY <1>f, <1>m, <2>2, <2>3, ResultInvParts
<1>10. CASE Answer
  BY <1>10, <1>a, <1>f, <1>b DEF Answer, At
<1>11. CASE Gather
  <2>1. block \notin Mains
    BY <1>11, OrderOfAnswers DEF Gather, At, Here
  <2> QED
    BY <1>11, <2>1, <1>f, <1>b DEF Gather
<1>12. CASE Publish
  BY <1>12, <1>a, <1>f, <1>b DEF Publish, At
<1>13. CASE Seal
  <2>1. /\ block' = block /\ at' = at + 1 /\ files' = files /\ rc' = rc /\ result'.text = "whole"
        /\ result'.status = result.status /\ result'.lists = result.lists
    BY <1>13 DEF Seal, Pass, TypeOK
  <2>2. block \in Mains => result.status = "succeeded"
    <3> SUFFICES ASSUME block \in Mains PROVE result.status = "succeeded"
      OBVIOUS
    <3>1. at > 1 /\ Blocks[block][at-1].op = "answer"
      BY <1>13, OrderOfAnswers DEF Seal, At, Here
    <3>2. at - 1 \in 1..(at-1)
      BY <3>1
    <3> QED
      BY <3>1, <3>2, <1>r DEF Said
  <2>3. Reported(block, at)'
    BY <1>r, <1>b, <2>1, <2>2 DEF Reported, Backed, QuietFrom
  <2>4. ASSUME block \in Mains PROVE Said(block, at)'
    <3>1. Here.op = "seal"
      BY <1>13 DEF Seal, At
    <3>2. \A j \in 1..at : Blocks[block][j].op \in {"answer", "publish"} => j \in 1..(at-1)
      BY <3>1 DEF Here
    <3> QED
      BY <2>1, <2>2, <2>4, <3>2 DEF Said
  <2> QED
    BY <2>1, <2>3, <2>4, ResultInvParts
<1>14. CASE Exit
  <2>1. CodeHere \in Int
    BY CodeTyped
  <2>2. exit' # NoExit
    BY <1>14, <2>1 DEF Exit, NoExit
  <2> QED
    BY <1>14, <2>2, <1>x DEF Exit
<1>d. ASSUME files' \in Disturbed PROVE files' = files \/ Here.op \notin Quiets
  <2>1. CASE Here.op \notin {"tool", "work"}
    BY <2>1, <1>d, DisturbedTyped
  <2> QED
    BY <2>1 DEF Quiets
<1>15. CASE Raise
  <2>1. files' = files \/ Here.op \notin Quiets
    BY <1>15, <1>d DEF Raise
  <2>2. CASE exit' = 1 /\ UNCHANGED <<block, at, handlers>>
    BY <1>15, <2>1, <2>2, <1>x DEF Raise, NoExit
  <2>3. CASE handlers # << >> /\ GoTo(Head(handlers))
    <3>1. result' = result /\ rc' = rc
      BY <1>15 DEF Raise
    <3> QED
      BY <2>1, <2>3, <3>1, <1>g, <1>h
  <2> QED
    BY <1>15, <2>2, <2>3 DEF Raise
<1>16. CASE Kill
  <2>1. files' = files \/ Here.op \notin Quiets
    BY <1>16, <1>d DEF Kill
  <2> QED
    BY <1>16, <2>1, <1>x DEF Kill, NoExit, Killed
<1> QED
  BY <1>1, <1>2, <1>3, <1>4, <1>5, <1>6, <1>7, <1>8, <1>9, <1>10, <1>11, <1>12, <1>13, <1>14,
     <1>15, <1>16 DEF Next

\* A process exits with 0 only at the end of a main function that has answered.
LEMMA ZeroStep ==
    ASSUME Disciplined, TypeOK, ResultInv, ZeroExitIsSuccess, Next
    PROVE  ZeroExitIsSuccess'
<1> USE HereTyped
<1>1. exit = NoExit
  BY DEF Next, Check, Open, Supply, Fill, Swap, Tool, Work, Zero, Need, Call, Answer, Gather, Seal,
         Publish, Exit, Raise, Kill, At
<1>2. CASE Exit
  <2> SUFFICES ASSUME exit' = 0 PROVE result.text = "whole" /\ result.status = "succeeded"
    BY <1>2 DEF Exit, ZeroExitIsSuccess
  <2>1. CodeHere % 256 = 0 /\ Here.op = "exit"
    BY <1>2 DEF Exit, At
  <2>2. block \in Mains
    <3> SUFFICES ASSUME block \in Excuses PROVE FALSE
      BY MainOrExcuse DEF TypeOK
    <3>1. Here.code # 0
      BY <2>1, ExcuseSteps DEF Here
    <3>2. CASE Here.code = ToolsOwn
      <4>1. Borrows(block)
        BY <3>2 DEF Borrows, Here
      <4>2. rc # 0 /\ rc \in -255..255
        BY <4>1 DEF ResultInv, TypeOK, Disciplined
      <4>3. rc % 256 # 0
        BY <4>2
      <4> QED
        BY <2>1, <3>2, <4>3 DEF CodeHere
    <3>3. CASE Here.code # ToolsOwn
      <4>1. Here.code \in 1..255
        BY <3>1, <3>3
      <4>2. Here.code % 256 # 0
        BY <4>1
      <4> QED
        BY <2>1, <3>3, <4>2 DEF CodeHere
    <3> QED
      BY <3>2, <3>3
  <2>3. PICK j \in 1..(at-1) :
            Blocks[block][j].op = "publish" \/ (Blocks[block][j].op = "answer" /\ j + 1 < at)
    BY <2>1, <2>2, OrderOfAnswers DEF Here
  <2> QED
    BY <1>1, <2>2, <2>3, ResultInvParts DEF Said
<1>3. CASE ~Exit
  BY <1>1, <1>3 DEF Next, Check, Open, Supply, Fill, Swap, Tool, Work, Zero, Need, Call, Answer, Gather,
     Seal, Publish, Raise, Kill, Pass, GoTo, ZeroExitIsSuccess, NoExit, Killed
<1> QED
  BY <1>2, <1>3

(***************************************************************************)
(* The exit code.  What follows an answer in its block:                    *)
(***************************************************************************)
LEMMA AfterAnswer ==
    ASSUME Disciplined, TypeOK, NEW j \in 1..(at-1), Answers(block, j)
    PROVE  /\ j \in DOMAIN Blocks[block]
           /\ Here.op \in {"seal", "check", "fill", "exit"}
           /\ Here.op = "exit" => Here.code = Blocks[block][j].code
           /\ Blocks[block][j].op = "publish" \/ j + 1 < at \/ Here.op = "seal"
<1>1. at \in DOMAIN Blocks[block] /\ at \in Int /\ block \in BlockNames
  BY HereTyped DEF TypeOK
<1>2. AnswersStand(block)
  BY <1>1 DEF Disciplined
<1>3. j \in DOMAIN Blocks[block] /\ at \in (j+1)..Len(Blocks[block])
  BY <1>1, StepTyped
<1>4. Here.op \in {"seal", "check", "fill"} \/ (Here.op = "exit" /\ Here.code = Blocks[block][j].code)
  BY <1>2, <1>3 DEF AnswersStand, Here
<1>5. Blocks[block][j].op # "publish" => Blocks[block][j+1].op = "seal"
  BY <1>2, <1>3 DEF AnswersStand, Answers
<1>6. j + 1 < at \/ j + 1 = at
  BY <1>1
<1> QED
  BY <1>3, <1>4, <1>5, <1>6 DEF Here

\* What the last answer has said stays in the document.
LEMMA AnswerStep ==
    ASSUME Disciplined, TypeOK, AnswerInv, Next
    PROVE  AnswerInv'
<1>t. at \in Int /\ 1 <= at
  BY HereTyped
\* A statement that answers nothing; a tool never follows an answer.
<1>p. ASSUME Pass, result' = result, ~Answers(block, at), Here.op # "seal",
             Here.op \in {"seal", "check", "fill", "exit"} => rc' = rc
      PROVE  AnswerInv'
  <2> SUFFICES ASSUME NEW j \in 1..at, Answers(block, j)
               PROVE  /\ result.code = (IF Blocks[block][j].code = ToolsOwn THEN rc' ELSE Blocks[block][j].code)
                      /\ result.status = Blocks[block][j].status
                      /\ Blocks[block][j].op = "publish" \/ j + 1 < at + 1 => result.text = "whole"
    BY <1>t, <1>p DEF Pass, AnswerInv, Answers
  <2>1. j \in 1..(at-1)
    BY <1>t, <1>p
  <2>2. rc' = rc /\ (Blocks[block][j].op = "publish" \/ j + 1 < at)
    BY <1>p, <2>1, AfterAnswer
  <2> QED
    BY <2>1, <2>2 DEF AnswerInv
\* A block is entered at its first step.
<1>g. ASSUME at' = 1 PROVE AnswerInv'
  BY <1>g DEF AnswerInv
<1>x. ASSUME UNCHANGED <<block, at, result, rc>> PROVE AnswerInv'
  BY <1>x DEF AnswerInv, Answers
<1>a. ASSUME Pass, Answers(block, at), rc' = rc, NEW text, NEW F, Says(text, F),
             Here.op = "publish" => text = "whole"
      PROVE  AnswerInv'
  <2> SUFFICES ASSUME NEW j \in 1..at, Answers(block, j)
               PROVE  /\ result'.code = (IF Blocks[block][j].code = ToolsOwn THEN rc ELSE Blocks[block][j].code)
                      /\ result'.status = Blocks[block][j].status
                      /\ Blocks[block][j].op = "publish" \/ j + 1 < at + 1 => result'.text = "whole"
    BY <1>t, <1>a DEF Pass, AnswerInv, Answers
  <2>1. j = at
    <3>1. j \in 1..(at-1) => Here.op \in {"seal", "check", "fill", "exit"}
      BY AfterAnswer
    <3> QED
      BY <1>t, <1>a, <3>1 DEF Answers, Here
  <2>2. Blocks[block][j] = Here
    BY <2>1 DEF Here
  <2> QED
    BY <1>t, <1>a, <2>1, <2>2 DEF Says, CodeHere
<1>1. CASE Check \/ Open \/ Supply \/ Fill \/ Swap
  BY <1>1, <1>p DEF Check, Open, Supply, Fill, Swap, At, Here, Answers
<1>2. CASE Tool \/ Work
  BY <1>2, <1>p DEF Tool, Work, At, Here, Answers
<1>3. CASE Zero \/ Need
  <2>1. CASE Pass
    BY <1>3, <2>1, <1>p DEF Zero, Need, At, Here, Answers
  <2>2. CASE GoTo(Here.to)
    BY <2>2, <1>g DEF GoTo
  <2> QED
    BY <1>3, <2>1, <2>2 DEF Zero, Need
<1>4. CASE Call
  BY <1>4, <1>g DEF Call, GoTo
<1>5. CASE Answer
  BY <1>5, <1>a DEF Answer, At, Here, Answers
<1>6. CASE Gather
  BY <1>6, <1>a DEF Gather, At, Here, Answers
<1>7. CASE Publish
  BY <1>7, <1>a DEF Publish, At, Here, Answers
<1>8. CASE Seal
  <2>1. /\ block' = block /\ at' = at + 1 /\ rc' = rc /\ result'.text = "whole"
        /\ result'.status = result.status /\ result'.code = result.code
    BY <1>8 DEF Seal, Pass, TypeOK
  <2>2. ~Answers(block, at)
    BY <1>8 DEF Seal, At, Here, Answers
  <2> SUFFICES ASSUME NEW j \in 1..at, Answers(block, j)
               PROVE  /\ result.code = (IF Blocks[block][j].code = ToolsOwn THEN rc ELSE Blocks[block][j].code)
                      /\ result.status = Blocks[block][j].status
    BY <1>t, <2>1 DEF AnswerInv, Answers
  <2>3. j \in 1..(at-1)
    BY <1>t, <2>2
  <2> QED
    BY <2>3 DEF AnswerInv
<1>9. CASE Exit \/ Kill
  BY <1>9, <1>x DEF Exit, Kill
<1>10. CASE Raise
  <2>1. CASE UNCHANGED <<block, at, handlers>>
    BY <1>10, <2>1, <1>x DEF Raise
  <2>2. CASE GoTo(Head(handlers))
    BY <2>2, <1>g DEF GoTo
  <2> QED
    BY <1>10, <2>1, <2>2 DEF Raise
<1> QED
  BY <1>1, <1>2, <1>3, <1>4, <1>5, <1>6, <1>7, <1>8, <1>9, <1>10 DEF Next

\* A process exits as its last answer says: neither a later statement nor the
\* handler of another block comes between the two.
LEMMA ExitStep ==
    ASSUME Disciplined, TypeOK, ResultInv, AnswerInv, ZeroExitIsSuccess, ZeroExitIsSuccess', Next
    PROVE  ExitAgrees'
<1> USE HereTyped
<1>1. exit = NoExit
  BY DEF Next, Check, Open, Supply, Fill, Swap, Tool, Work, Zero, Need, Call, Answer, Gather, Seal,
         Publish, Exit, Raise, Kill, At
<1>2. CASE Exit
  <2>1. Here.op = "exit" /\ exit' = CodeHere % 256 /\ UNCHANGED <<block, at, result, rc>>
    BY <1>2 DEF Exit, At
  <2>2. PICK j \in 1..(at-1) : Answers(block, j) /\ (Blocks[block][j].op = "publish" \/ j + 1 < at)
    <3>1. AnswersStand(block)
      BY DEF Disciplined, TypeOK
    <3> QED
      BY <2>1, <3>1 DEF AnswersStand, Here
  <2>3. Here.code = Blocks[block][j].code /\ j \in DOMAIN Blocks[block]
    BY <2>1, <2>2, AfterAnswer
  <2>4. result.text = "whole" /\ result.code = CodeHere /\ result.status = Blocks[block][j].status
    BY <2>2, <2>3 DEF AnswerInv, CodeHere
  <2>5. ASSUME result.status = "succeeded" PROVE exit' = 0
    <3>1. block \notin Excuses
      BY <2>3, <2>4, <2>5, ExcuseSteps
    <3>2. block \in Mains
      BY <3>1, MainOrExcuse DEF TypeOK
    <3>3. Here.code = 0
      BY <3>2, OrderOfAnswers DEF Here
    <3> QED
      BY <2>1, <3>3 DEF CodeHere, ToolsOwn
  <2>6. exit' = 0 => result.status = "succeeded"
    BY <2>1 DEF ZeroExitIsSuccess
  <2> QED
    BY <2>1, <2>4, <2>5, <2>6 DEF ExitAgrees, Here
<1>3. CASE Raise /\ exit' = 1 /\ UNCHANGED <<block, at, handlers>>
  <2>1. Here.op # "exit"
    BY <1>3 DEF Raise, MayRaise
  <2> QED
    BY <1>3, <2>1 DEF ExitAgrees, Here
<1>4. CASE Kill
  BY <1>4 DEF Kill, ExitAgrees
<1>5. CASE exit' = exit
  BY <1>1, <1>5 DEF ExitAgrees
<1> QED
  BY <1>2, <1>3, <1>4, <1>5 DEF Next, Check, Open, Supply, Fill, Swap, Tool, Work, Zero, Need, Call,
     Answer, Gather, Seal, Publish, Raise, Pass, GoTo

(***************************************************************************)
(* The evidence of a failed tool.                                          *)
(***************************************************************************)
Around == {handlers[i] : i \in DOMAIN handlers}
Kept(e) == \A f \in EvidenceOf[e] : files[f] = "whole"
OwnHandlers == \A e \in Around : EvidenceOf[e] = {} \/ e \in WaysOut(block)

LEMMA EvidenceInvParts ==
    /\ EvidenceInv <=> /\ block \in Mains => OwnHandlers
                       /\ block \in Excuses /\ rc # 0 => \A e \in {block} \cup Around : Kept(e)
                       /\ EvidenceIsKept
    /\ EvidenceInv' <=> /\ block' \in Mains => OwnHandlers'
                        /\ block' \in Excuses /\ rc' # 0 => \A e \in {block'} \cup Around' : Kept(e)'
                        /\ EvidenceIsKept'
  BY DEF EvidenceInv, OwnHandlers, Kept, Around

\* When a tool has failed, what any way out of its main owes is complete.
LEMMA OwedIsWhole ==
    ASSUME Disciplined, TypeOK, FilesInv, exit = NoExit, block \in Mains, rc # 0,
           NEW e \in WaysOut(block) \ {Raises}
    PROVE  Kept(e)
<1>1. FailureFresh(block, at) /\ CompletedWhole(block, at)
  BY FilesInvParts DEF FilesSound
<1>2. PICK k \in 1..(at-1) : Blocks[block][k].op = "tool"
  BY <1>1 DEF FailureFresh
<1>3. k \in DOMAIN Blocks[block] /\ k \in Int /\ at \in Int /\ k < at
  BY HereTyped, <1>2, CompletedFiles, MainOrExcuse
<1>4. EvidenceOf[e] \subseteq Completed(block, k)
  BY <1>2, <1>3 DEF Disciplined, EvidenceInOrder
<1>5. Completed(block, k) \subseteq Completed(block, at)
  BY <1>3 DEF Completed
<1> QED
  BY <1>1, <1>4, <1>5 DEF Kept, CompletedWhole

\* An exception that leaves a main for one of its handlers disturbs nothing
\* when a tool has failed: the main is past its tools and upstream code.
LEMMA NoToolAfterFailure ==
    ASSUME Disciplined, TypeOK, FilesInv, exit = NoExit, block \in Mains, rc # 0
    PROVE  Here.op \notin {"tool", "work"}
<1>1. FailureFresh(block, at)
  BY FilesInvParts DEF FilesSound
<1>2. PICK k \in 1..(at-1) : Blocks[block][k].op = "tool" /\ ~Vouched(block, k, at)
  BY <1>1 DEF FailureFresh
<1>3. ToolsInOrder(block) /\ at \in DOMAIN Blocks[block]
  BY HereTyped DEF Disciplined
<1>4. Here.op \in {"tool", "work"} => \A j \in 1..(at-1) : Blocks[block][j].op = "tool" => Vouched(block, j, at)
  BY <1>3 DEF ToolsInOrder, Here
<1> QED
  BY <1>2, <1>4

\* The handlers that a step keeps or goes to.
LEMMA AroundStep ==
    ASSUME Disciplined, TypeOK
    PROVE  /\ handlers # << >> => Head(handlers) \in Around
           /\ handlers # << >> => {Tail(handlers)[i] : i \in DOMAIN Tail(handlers)} \subseteq Around
           /\ Around \subseteq Innocent
           /\ \A b \in BlockNames :
                {(HandlersOf[b] \o handlers)[i] : i \in DOMAIN (HandlersOf[b] \o handlers)} \subseteq WaysOut(b) \cup Around
<1>1. handlers \in Seq(Innocent)
  BY HandlersTyped
<1>2. handlers # << >> => Head(handlers) \in Around
  BY <1>1 DEF Around
<1>3. ASSUME handlers # << >>, NEW i \in DOMAIN Tail(handlers) PROVE Tail(handlers)[i] \in Around
  <2>1. i + 1 \in DOMAIN handlers /\ Tail(handlers)[i] = handlers[i + 1]
    BY <1>1, <1>3
  <2> QED
    BY <2>1 DEF Around
<1>4. Around \subseteq Innocent
  BY <1>1 DEF Around
<1>5. ASSUME NEW b \in BlockNames, NEW i \in DOMAIN (HandlersOf[b] \o handlers)
      PROVE  (HandlersOf[b] \o handlers)[i] \in WaysOut(b) \cup Around
  <2>1. HandlersOf[b] \in Seq(Innocent)
    BY DEF Disciplined, Innocent
  <2>2. CASE i \in DOMAIN HandlersOf[b]
    <3>1. (HandlersOf[b] \o handlers)[i] = HandlersOf[b][i]
      BY <1>1, <2>1, <2>2
    <3> QED
      BY <2>2, <3>1 DEF WaysOut
  <2>3. CASE i \notin DOMAIN HandlersOf[b]
    <3>1. i - Len(HandlersOf[b]) \in DOMAIN handlers
      BY <1>1, <2>1, <2>3
    <3>2. (HandlersOf[b] \o handlers)[i] = handlers[i - Len(HandlersOf[b])]
      BY <1>1, <2>1, <2>3
    <3> QED
      BY <3>1, <3>2 DEF Around
  <2> QED
    BY <2>2, <2>3
<1> QED
  BY <1>2, <1>3, <1>4, <1>5

\* A step of an excuse keeps what is complete, and an answer lists what is owed.
LEMMA ExcusePasses ==
    ASSUME Disciplined, TypeOK, EvidenceInv, block \in Excuses, UNCHANGED <<block, handlers, rc>>,
           \A f \in Files : files[f] = "whole" => files'[f] = "whole",
           \/ UNCHANGED <<at, result>>
           \/ at' = at + 1 /\ result'.lists = result.lists /\ ~Answers(block, at)
           \/ at' = at + 1 /\ result'.lists = Here.files /\ Answers(block, at)
           \/ at' = at + 1 /\ result'.lists = Present(Here.files) /\ Answers(block, at)
    PROVE  EvidenceInv'
<1>e. block \in BlockNames /\ EvidenceOf \in [BlockNames -> SUBSET Files] /\ block \notin Mains
  BY MainOrExcuse DEF Disciplined, EvidenceInOrder
<1>1. ASSUME rc # 0, NEW e \in {block} \cup Around PROVE Kept(e)'
  <2>1. e \in BlockNames
    BY <1>e, AroundStep, MainOrExcuse DEF Innocent
  <2>2. Kept(e)
    BY <1>1, EvidenceInvParts
  <2> QED
    BY <1>e, <2>1, <2>2 DEF Kept
<1>2. EvidenceIsKept'
  <2> SUFFICES ASSUME rc # 0, NEW j \in 1..(at'-1), Answers(block, j), NEW f \in EvidenceOf[block]
               PROVE  f \in result'.lists /\ files'[f] = "whole"
    BY DEF EvidenceIsKept, Answers
  <2>1. Kept(block) /\ f \in Files
    BY <1>e, EvidenceInvParts
  <2>2. files[f] = "whole" /\ files'[f] = "whole"
    BY <2>1 DEF Kept
  <2>3. Answers(block, at) => EvidenceOf[block] \subseteq Here.files
    BY HereTyped DEF Disciplined, EvidenceInOrder, Here
  <2>4. at' = at \/ ~Answers(block, at) => j \in 1..(at-1)
    BY HereTyped
  <2>5. j \in 1..(at-1) => f \in result.lists
    BY <2>1 DEF EvidenceInv, EvidenceIsKept
  <2>6. Answers(block, at) => f \in Present(Here.files)
    BY <2>2, <2>3 DEF Present
  <2> QED
    BY <2>2, <2>3, <2>4, <2>5, <2>6
<1> QED
  BY <1>1, <1>2, <1>e, EvidenceInvParts DEF Around

\* Going to an excuse, from a main or from an excuse, when a tool has failed.
LEMMA ExcuseEntered ==
    ASSUME Disciplined, TypeOK, FilesInv, EvidenceInv, exit = NoExit, NEW e \in Excuses,
           block' = e, at' = 1, rc' = rc, files' = files \/ (block \in Mains /\ rc = 0),
           e \in Around \/ (block \in Mains /\ e \in WaysOut(block)),
           Around' \subseteq Around
    PROVE  EvidenceInv'
<1>1. e \notin Mains /\ e # Raises /\ Raises \notin Around
  <2>1. Raises \notin BlockNames
    BY DEF Disciplined
  <2> QED
    BY <2>1, AroundStep, MainOrExcuse DEF Innocent
<1>2. ASSUME rc # 0, NEW h \in {e} \cup Around PROVE Kept(h)
  <2>1. CASE block \in Mains
    <3>1. h \in WaysOut(block) \/ EvidenceOf[h] = {}
      BY <2>1, <1>2, EvidenceInvParts DEF OwnHandlers
    <3> QED
      BY <1>1, <1>2, <2>1, <3>1, OwedIsWhole DEF Kept
  <2>2. CASE block \notin Mains
    <3>1. block \in Excuses
      BY <2>2, MainOrExcuse DEF TypeOK
    <3> QED
      BY <1>2, <2>2, <3>1, EvidenceInvParts
  <2> QED
    BY <2>1, <2>2
<1>3. rc' # 0 => \A h \in {e} \cup Around' : Kept(h)'
  BY <1>2 DEF Kept
<1>4. EvidenceIsKept'
  BY DEF EvidenceIsKept
<1> QED
  BY <1>1, <1>3, <1>4, EvidenceInvParts

LEMMA EvidenceStep ==
    ASSUME Disciplined, TypeOK, FilesInv, ResultInv, EvidenceInv, Next
    PROVE  EvidenceInv'
<1>n. exit = NoExit /\ block \in BlockNames /\ (block \in Mains <=> block \notin Excuses)
  BY MainOrExcuse DEF TypeOK, Next, Check, Open, Supply, Fill, Swap, Tool, Work, Zero, Need, Call, Answer,
     Gather, Seal, Publish, Exit, Raise, Kill, At
\* A main that goes on in its block has the same handlers.
<1>m. ASSUME block \in Mains, UNCHANGED <<block, handlers>> PROVE EvidenceInv'
  BY <1>m, <1>n, EvidenceInvParts DEF OwnHandlers, Around, EvidenceIsKept
<1>x. ASSUME block \in Excuses PROVE Here.op \in Quiets
  BY <1>x, HereTyped, ExcuseSteps DEF Here
<1>1. CASE Check \/ Seal
  <2>1. result'.lists = result.lists
    BY <1>1 DEF Check, Seal, TypeOK
  <2>2. ~Answers(block, at)
    BY <1>1 DEF Check, Seal, At, Here, Answers
  <2> QED
    BY <1>1, <2>1, <2>2, <1>m, <1>n, ExcusePasses DEF Check, Seal, Pass
<1>2. CASE Fill
  <2>1. \A f \in Files : files[f] = "whole" => files'[f] = "whole"
    BY <1>2, OverwriteTyped DEF Fill, TypeOK, Contents
  <2>2. ~Answers(block, at)
    BY <1>2 DEF Fill, At, Here, Answers
  <2> QED
    BY <1>2, <2>1, <2>2, <1>m, <1>n, ExcusePasses DEF Fill, Pass
<1>3. CASE Open \/ Supply \/ Swap \/ Tool \/ Work
  <2>1. block \in Mains
    BY <1>3, <1>n, <1>x DEF Open, Supply, Swap, Tool, Work, At, Quiets
  <2> QED
    BY <1>3, <2>1, <1>m DEF Open, Supply, Swap, Tool, Work, Pass
<1>4. CASE Answer \/ Publish
  <2>1. result'.lists = Here.files /\ Answers(block, at)
    BY <1>4 DEF Answer, Publish, Says, At, Here, Answers
  <2> QED
    BY <1>4, <2>1, <1>m, <1>n, ExcusePasses DEF Answer, Publish, Pass
<1>5. CASE Gather
  <2>1. result'.lists = Present(Here.files) /\ Answers(block, at)
    BY <1>5 DEF Gather, Says, At, Here, Answers
  <2> QED
    BY <1>5, <2>1, <1>m, <1>n, ExcusePasses DEF Gather, Pass
<1>6. CASE Zero \/ Need
  <2>1. block \in Mains
    BY <1>6, <1>n, <1>x DEF Zero, Need, At, Quiets
  <2>2. CASE Pass
    BY <2>1, <2>2, <1>m DEF Pass
  <2>3. CASE Here.to # Raises /\ GoTo(Here.to) /\ UNCHANGED handlers
    <3>1. Here.to \in Excuses
      BY <1>6, <2>3, Targets DEF Zero, Need, At, Innocent
    <3>2. Here.to \in WaysOut(block)
      BY <1>6, HereTyped DEF Zero, Need, At, Here, WaysOut
    <3> QED
      BY <1>6, <2>1, <2>3, <3>1, <3>2, <1>n, ExcuseEntered DEF Zero, Need, GoTo, Around
  <2> QED
    BY <1>6, <2>2, <2>3 DEF Zero, Need
<1>7. CASE Call
  <2>1. block \in Mains /\ Here.to \in Mains
    BY <1>7, <1>n, <1>x, Targets DEF Call, At, Quiets
  <2>2. \A e \in WaysOut(block) \ {Raises} : EvidenceOf[e] = {}
    BY <1>7, <2>1, HereTyped DEF Call, At, Here, Disciplined, EvidenceInOrder
  <2>3. \A e \in Around : EvidenceOf[e] = {}
    <3>1. Raises \notin Around
      BY AroundStep, MainOrExcuse DEF Disciplined, Innocent
    <3> QED
      BY <2>1, <2>2, <3>1, EvidenceInvParts DEF OwnHandlers
  <2>4. Around' \subseteq WaysOut(Here.to) \cup Around
    BY <1>7, <2>1, AroundStep, MainOrExcuse DEF Call, Around
  <2>5. OwnHandlers'
    BY <1>7, <2>3, <2>4 DEF OwnHandlers, Call, GoTo, WaysOut
  <2>6. block' \in Mains /\ block' \notin Excuses
    BY <1>7, <2>1, MainOrExcuse DEF Call, GoTo
  <2> QED
    BY <2>5, <2>6, EvidenceInvParts DEF EvidenceIsKept
<1>8. CASE Exit \/ Raise \/ Kill
  <2>1. CASE UNCHANGED <<block, at, handlers>>
    <3>1. CASE block \in Mains
      BY <2>1, <3>1, <1>m
    <3>2. CASE block \in Excuses
      <4>1. files' = files
        BY <1>8, <3>2, <1>x, DisturbedTyped DEF Exit, Raise, Kill, Quiets
      <4> QED
        BY <1>8, <2>1, <3>2, <4>1, ExcusePasses DEF Exit, Raise, Kill
    <3> QED
      BY <1>n, <3>1, <3>2
  <2>2. CASE handlers # << >> /\ GoTo(Head(handlers)) /\ handlers' = Tail(handlers) /\ Raise
    <3>1. Head(handlers) \in Excuses /\ Head(handlers) \in Around /\ Around' \subseteq Around
      BY <2>2, HandlersTyped, AroundStep DEF Innocent, Around
    <3>2. files' = files \/ (block \in Mains /\ rc = 0)
      <4>1. Here.op \notin {"tool", "work"} => files' = files
        BY <2>2, DisturbedTyped DEF Raise
      <4> QED
        BY <4>1, <1>n, <1>x, NoToolAfterFailure DEF Quiets
    <3> QED
      BY <2>2, <3>1, <3>2, <1>n, ExcuseEntered DEF Raise, GoTo
  <2> QED
    BY <1>8, <2>1, <2>2 DEF Exit, Raise, Kill
<1> QED
  BY <1>1, <1>2, <1>3, <1>4, <1>5, <1>6, <1>7, <1>8 DEF Next

(***************************************************************************)
(* The theorems.                                                           *)
(***************************************************************************)
\* The process starts at the first step of a main function, with nothing done.
LEMMA ToolStarts ==
    ASSUME Disciplined, Init
    PROVE  ToolInv
<1>1. block \in Mains /\ block \in BlockNames
  BY MainOrExcuse DEF Init, Disciplined
<1>2. Blocks[block] \in Seq(Step) /\ Len(Blocks[block]) > 0 /\ HandlersOf[block] \in Seq(Innocent)
  BY <1>1 DEF Disciplined, Innocent
<1>3. TypeOK
  BY <1>1, <1>2 DEF Init, TypeOK, Contents, NoExit, Innocent
<1>4. FilesInv
  <2>1. Completed(block, 1) = {} /\ Vetted(block, 1) = {}
    BY DEF Completed, Vetted
  <2>2. FilesSound(block, at)
    BY <2>1 DEF Init, FilesSound, CompletedWhole, ToolsWhole, VettedWhole, PartsBegun, FailureFresh
  <2> QED
    BY <2>2, FilesInvParts
<1>5. ResultInv
  BY <1>1, MainsDoNotBorrow DEF Init, ResultInv
<1>6. ZeroExitIsSuccess
  BY DEF Init, ZeroExitIsSuccess, NoExit
<1>8. AnswerInv /\ ExitAgrees
  BY DEF Init, AnswerInv, ExitAgrees
<1>7. EvidenceInv
  <2>1. OwnHandlers
    BY <1>2 DEF Init, OwnHandlers, Around, WaysOut
  <2>2. block \notin Excuses
    BY <1>1, MainOrExcuse
  <2> QED
    BY <2>1, <2>2, EvidenceInvParts DEF EvidenceIsKept
<1> QED
  BY <1>3, <1>4, <1>5, <1>6, <1>7, <1>8 DEF ToolInv

LEMMA ToolGoesOn ==
    ASSUME ToolInv, [Next]_vars
    PROVE  ToolInv'
<1>1. CASE Next
  <2>1. TypeOK'
    BY <1>1, TypeStep DEF ToolInv
  <2>2. FilesInv' /\ ResultInv' /\ EvidenceInv' /\ AnswerInv' /\ ZeroExitIsSuccess'
    BY <1>1, <2>1, FilesStep, ResultStep, EvidenceStep, AnswerStep, ZeroStep DEF ToolInv
  <2>3. ExitAgrees'
    BY <1>1, <2>2, ExitStep DEF ToolInv
  <2> QED
    BY <2>1, <2>2, <2>3 DEF ToolInv
<1>2. CASE UNCHANGED vars
  <2>1. (TypeOK /\ FilesInv /\ ResultInv /\ ZeroExitIsSuccess)'
    BY <1>2 DEF vars, ToolInv, TypeOK, FilesInv, ResultInv, ZeroExitIsSuccess, Quiet
  <2>2. EvidenceInv'
    BY <1>2 DEF vars, ToolInv, EvidenceInv, EvidenceIsKept
  <2>3. (AnswerInv /\ ExitAgrees)'
    BY <1>2 DEF vars, ToolInv, AnswerInv, ExitAgrees, Answers, Here
  <2> QED
    BY <2>1, <2>2, <2>3 DEF ToolInv
<1> QED
  BY <1>1, <1>2

\* ToolInv is an invariant of every set of adapters whose blocks are in order.
THEOREM ToolkitInvariant == Disciplined => (Spec => []ToolInv)
<1>1. Disciplined /\ Init => ToolInv
  BY ToolStarts
<1>2. ToolInv /\ [Next]_vars => ToolInv'
  BY ToolGoesOn
<1> QED
  BY <1>1, <1>2, PTL DEF Spec

\* Whatever fails, a document that says "succeeded" lists complete files only
\* and follows tools that all returned 0.
THEOREM SuccessIsBacked == Disciplined => (Spec => []ResultsAreBacked)
<1>1. ToolInv => ResultsAreBacked
  BY DEF ToolInv, ResultInv, ResultsAreBacked
<1> QED
  BY <1>1, ToolkitInvariant, PTL

\* An exit with 0 leaves a complete document that says "succeeded".
THEOREM ZeroIsSuccess == Disciplined => (Spec => []ZeroExitIsSuccess)
<1>1. ToolInv => ZeroExitIsSuccess
  BY DEF ToolInv
<1> QED
  BY <1>1, ToolkitInvariant, PTL

\* A process that comes to an exit has answered, in full, with the code it exits with.
THEOREM ExitsAgree == Disciplined => (Spec => []ExitAgrees)
<1>1. ToolInv => ExitAgrees
  BY DEF ToolInv
<1> QED
  BY <1>1, ToolkitInvariant, PTL

\* An answer for a failed tool lists all the evidence it owes, complete.
THEOREM FailuresKeepEvidence == Disciplined => (Spec => []EvidenceIsKept)
<1>1. ToolInv => EvidenceIsKept
  BY DEF ToolInv, EvidenceInv
<1> QED
  BY <1>1, ToolkitInvariant, PTL

\* No tool starts on a file that is missing or half written.
THEOREM ToolsReadWholeFiles == Disciplined => (Spec => []ToolsSeeWholeFiles)
<1>1. ToolInv => ToolsSeeWholeFiles
  <2> SUFFICES ASSUME ToolInv, exit = NoExit, Here.op \in {"tool", "work"}, NEW f \in Here.uses
               PROVE  files[f] = "whole"
    BY DEF ToolsSeeWholeFiles
  <2>1. block \in Mains
    BY OnlyMains DEF ToolInv, Quiets
  <2>2. f \in Completed(block, at)
    BY <2>1, OrderOfTools DEF ToolInv
  <2> QED
    BY <2>1, <2>2, FilesInvParts DEF ToolInv, FilesSound, CompletedWhole
<1> QED
  BY <1>1, ToolkitInvariant, PTL

\* A document that has said "failed" never says "succeeded".
THEOREM FailureStands == Disciplined => (Spec => VerdictsStand)
<1>1. ToolInv /\ [Next]_vars =>
        [result.text # "none" /\ result.status = "failed" => result'.status = "failed"]_vars
  <2> SUFFICES ASSUME ToolInv, Next, result.text # "none", result.status = "failed"
               PROVE  result'.status = "failed"
    OBVIOUS
  <2>1. block \in Excuses
    BY DEF ToolInv, ResultInv
  <2>2. Here.status = "failed"
    BY <2>1, HereTyped, ExcuseSteps DEF ToolInv, Here
  <2> QED
    BY <2>2 DEF Next, Check, Open, Supply, Fill, Swap, Tool, Work, Zero, Need, Call, Answer, Gather,
       Seal, Publish, Exit, Raise, Kill, Says, ToolInv, TypeOK
<1> QED
  BY <1>1, ToolkitInvariant, PTL DEF Spec, VerdictsStand
=============================================================================
