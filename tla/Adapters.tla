------------------------------ MODULE Adapters ------------------------------
(***************************************************************************)
(* The adapters of src/integrations as blocks of steps for module Toolkit. *)
(* A function that is called in line is a sequence of its own; one that    *)
(* only reads and validates is one check, for it has no effect but its     *)
(* exception.                                                              *)
(***************************************************************************)
EXTENDS Integers, Sequences, TLC

LOCAL A(op, F) == [op |-> op, files |-> F, uses |-> {}, to |-> "raise",
                   status |-> "failed", code |-> 0]
ToolsReturnCode == 1000

Checks      == <<A("check", {})>>
Opens(f)    == <<A("open", {f})>>
Closes(f)    == <<A("fill", {f})>>
Puts(f)     == Opens(f) \o Closes(f)
Supplies(f)  == <<A("supply", {f}), A("fill", {f})>>
Swaps(f)    == <<A("swap", {f})>>
Patches(f)   == Checks \o Puts(f)
RunsTool(F, U) == <<[A("tool", F) EXCEPT !.uses = U]>>
Loads(F, U) == <<[A("work", F) EXCEPT !.uses = U]>>
ZeroElse(b)    == <<[A("zero", {}) EXCEPT !.to = b]>>
NeedElse(F, b) == <<[A("need", F) EXCEPT !.to = b]>>
Delegates(b)    == <<[A("call", {}) EXCEPT !.to = b]>>
Exits(c)        == <<[A("exit", {}) EXCEPT !.code = c]>>
Succeeds(F)     == <<[A("answer", F) EXCEPT !.status = "succeeded"], A("seal", {})>>
Fails(c, F)     == <<[A("answer", F) EXCEPT !.code = c], A("seal", {})>>
FailsWith(c, F) == <<[A("gather", F) EXCEPT !.code = c], A("seal", {})>>
SwapsIn(s, c, F) == <<[A("publish", F) EXCEPT !.status = s, !.code = c]>>

(***************************************************************************)
(* rtl_verify: lint with Verilator, then check with Yosys.  The early      *)
(* return is inside `with log.open`, so the log is closed after the result *)
(* document is written, by which time an exception reaches the handler.    *)
(***************************************************************************)
VerifyLog == "verification.log"
VerifyTool == RunsTool({}, {}) \o ZeroElse("verify_stopped")
\* Mutant: the return code of the second tool is not looked at.
RtlVerifyUnlooked == Checks \o Puts("verified_design.sv") \o Opens(VerifyLog) \o VerifyTool \o RunsTool({}, {})
                     \o Closes(VerifyLog) \o Puts("verification.json")
                     \o Succeeds({"verified_design.sv", "verification.json", VerifyLog}) \o Exits(0)
RtlVerify == Checks \o Puts("verified_design.sv") \o Opens(VerifyLog) \o VerifyTool \o VerifyTool
             \o Closes(VerifyLog) \o Puts("verification.json")
             \o Succeeds({"verified_design.sv", "verification.json", VerifyLog}) \o Exits(0)
\* Mutants: the failure is answered but not returned; answered, and main goes on.
VerifyStoppedQuietly == Fails(ToolsReturnCode, {VerifyLog}) \o Closes(VerifyLog) \o Exits(0)
VerifyGoesOn == Fails(ToolsReturnCode, {VerifyLog}) \o Closes(VerifyLog) \o Succeeds({VerifyLog}) \o Exits(0)
\* Mutant: the document has the return code of the tool, the process another one.
VerifyStoppedOtherwise == Fails(ToolsReturnCode, {VerifyLog}) \o Closes(VerifyLog) \o Exits(3)
VerifyStopped == Fails(ToolsReturnCode, {VerifyLog}) \o Closes(VerifyLog) \o Exits(ToolsReturnCode)
VerifyFailed == Fails(3, {}) \o Exits(3)

(***************************************************************************)
(* rtl_sim: compile the staged design with its testbench, then run it.     *)
(***************************************************************************)
SimLog == "simulation.log"
SimImage == "simulation.bin"
\* Mutant: the compiler's image is not looked for before it is run.
RtlSimBlind == Checks \o Opens(SimLog) \o RunsTool({SimImage}, {}) \o ZeroElse("sim_stopped")
               \o RunsTool({}, {SimImage}) \o ZeroElse("sim_stopped")
               \o Closes(SimLog) \o Puts("simulation.json")
               \o Succeeds({"simulation.json", SimLog}) \o Exits(0)
RtlSim == Checks \o Opens(SimLog)
          \o RunsTool({SimImage}, {}) \o ZeroElse("sim_stopped") \o NeedElse({SimImage}, "sim_imageless")
          \o RunsTool({}, {SimImage}) \o ZeroElse("sim_stopped")
          \o Closes(SimLog) \o Puts("simulation.json")
          \o Succeeds({"simulation.json", SimLog}) \o Exits(0)
SimStopped == Fails(ToolsReturnCode, {SimLog}) \o Closes(SimLog) \o Exits(ToolsReturnCode)
SimImageless == Fails(1, {SimLog}) \o Closes(SimLog) \o Exits(1)
SimFailed == Fails(3, {}) \o Exits(3)

(***************************************************************************)
(* orfs_agent_reproduction: one candidate of the paper through make.       *)
(***************************************************************************)
FlowPatches == {"utils.mk", "write_ref_sdc.tcl", "Makefile", "synth_hier_report.tcl",
                "detail_route.tcl", "final_report.tcl"}
\* Two of the five final files stand for all, which are treated alike.
Physical == {"6_final.odb", "6_final.spef"}
MakeLog == "orfs_agent_native_make.log"
Materialization == "candidate_materialization.json"

Receipts == Checks
PreserveMakeflags == Patches("utils.mk") \o Patches("write_ref_sdc.tcl") \o Patches("Makefile")
                     \o Patches("synth_hier_report.tcl") \o Patches("detail_route.tcl")
                     \o Patches("final_report.tcl")
Materialize == Checks \o Puts("orfs-flow") \o Puts("autotune-configs") \o PreserveMakeflags
               \o NeedElse({"autotune-configs"}, "raise") \o Puts("mapped_config.mk") \o Puts(Materialization)
CopyReport == NeedElse({"6_report.json"}, "raise") \o Checks \o Puts("candidate_metrics.json")
MeasurementIndex == NeedElse({"candidate_metrics.json"}, "raise") \o Puts("candidate_execution_report.json")
PhysicalArtifacts == NeedElse(Physical, "raise")
Make == RunsTool(Physical \cup {"6_report.json"},
                FlowPatches \cup {"orfs-flow", "autotune-configs", "mapped_config.mk"})
        \o Puts(MakeLog) \o ZeroElse("raise")
Reproduction == Checks \o Receipts \o Materialize \o Make \o CopyReport \o MeasurementIndex
                \o PhysicalArtifacts \o Puts("reproduction_provenance.json")
                \o Succeeds(Physical \cup {Materialization, "candidate_metrics.json", MakeLog,
                                          "reproduction_provenance.json", "candidate_execution_report.json"})
                \o Exits(0)
Evidence == {Materialization, MakeLog, "mapped_config.mk"}
\* Mutant: the handler answers as those of the other adapters do.
ReproductionForgets == Fails(2, {}) \o Exits(2)
ReproductionFailed == FailsWith(2, Evidence) \o Exits(2)

(***************************************************************************)
(* The modes of orfs_agent: the bridge hands the request to another main   *)
(* inside its own try statement, or writes its data set.                   *)
(***************************************************************************)
Bridge(mode) == Checks \o Delegates(mode)
BridgeDomain == Checks
Dataset == Checks \o BridgeDomain \o Puts("orfs_agent_output.json") \o Puts("orfs_agent_input_manifest.json")
           \o Puts("orfs_agent_source_lock.json")
           \o Succeeds({"orfs_agent_output.json", "orfs_agent_input_manifest.json",
                       "orfs_agent_source_lock.json"}) \o Exits(0)
AgentFailed == Fails(2, {}) \o Exits(2)

\* Candidates of the workbench, which runs in a temporary directory, held to the domain.
NativeRows == Checks
Native == Checks \o NativeRows \o Loads({}, {}) \o Checks
          \o Puts("orfs_agent_candidates.json") \o Puts("orfs_agent_gpei_trace.json")
          \o Succeeds({"orfs_agent_candidates.json", "orfs_agent_gpei_trace.json"}) \o Exits(0)

\* A patched copy of the upstream initializer is loaded and called.
Initializer == Checks \o Patches("upstream_optimize_compat.py")
               \o Loads({}, {"upstream_optimize_compat.py"}) \o Checks
               \o Puts("initial_candidates.json") \o Puts("initialization_trace.json")
               \o Puts("initialization_source_lock.json")
               \o Succeeds({"initial_candidates.json", "initialization_trace.json",
                           "initialization_source_lock.json"}) \o Exits(0)

\* A model chooses the training rows, then the upstream GP/EI proposes.
TrainingRows == RunsTool({}, {}) \o ZeroElse("raise") \o Checks
PolicyCandidates == TrainingRows \o Puts("constraints.json") \o Loads({}, {"constraints.json"}) \o Checks
PolicySource == Checks
PaperPolicy == Checks \o PolicySource \o BridgeDomain \o Puts("paper_observations.json") \o PolicyCandidates
               \o Puts("paper_candidates.json") \o Puts("paper_policy_trace.json") \o Puts("paper_source_lock.json")
               \o Succeeds({"paper_observations.json", "paper_candidates.json", "paper_policy_trace.json",
                           "paper_source_lock.json"}) \o Exits(0)

(***************************************************************************)
(* a2_orfo: the upstream workflow in a private copy of its sources.        *)
(***************************************************************************)
A2Private == "a2_upstream_private"
A2Trace == "model_provider_trace.json"
A2Artifacts == {"a2_observations.json", "a2_candidates.json", "a2_policy_trace.json", "a2_checkpoint.json",
                "a2_knowledge_retrieval.json", A2Trace, "a2_source_lock.json"}
A2Identity == Checks
A2Domain == Checks
A2Archive == RunsTool({}, {}) \o ZeroElse("raise") \o Checks \o Puts(A2Private)
A2Observations == Puts("points.csv") \o Puts("config.mk") \o Puts("constraint.sdc") \o Puts("run.log")
A2Context == Puts("config.mk") \o Puts("constraint.sdc")
A2Baselines == Patches("opt_config.json")
A2Answer == Supplies(A2Trace) \o Puts("a2_observations.json") \o Puts("a2_candidates.json")
            \o Puts("a2_knowledge_retrieval.json") \o Puts("a2_checkpoint.json") \o Puts("a2_source_lock.json")
            \o Puts("a2_policy_trace.json") \o Succeeds(A2Artifacts) \o Exits(0)
A2Prompts == Patches("prior_prompts.json")
A2Workflow == Loads({"points.csv", A2Trace}, {A2Private, "config.mk", "opt_config.json"})
              \o NeedElse({"points.csv"}, "raise") \o Checks
A2(context, prompts) == Checks \o A2Identity \o A2Domain \o A2Archive \o context \o A2Baselines
                        \o prompts \o A2Workflow \o A2Answer
A2Failed == Fails(2, {}) \o Exits(2)

(***************************************************************************)
(* orassistant and posteda_bench replace their files atomically and print  *)
(* an event after the result document, inside the try statement.           *)
(***************************************************************************)
ORSource == Checks
ORCorpus == Checks
ORStage == Checks \o Puts("corpus") \o Swaps("source_list.json")
ORRetrieve == Loads({}, {"corpus"}) \o Checks
ORAssistant == Checks \o ORSource \o ORCorpus \o ORStage \o ORRetrieve
               \o Swaps("retrieval.json") \o Swaps("explanation.json")
               \o Swaps("corpus_manifest.json") \o Swaps("native_trace.json")
               \o SwapsIn("succeeded", 0, {"retrieval.json", "explanation.json", "corpus_manifest.json",
                                          "native_trace.json"})
               \o Checks \o Exits(0)
PrintingFailed == SwapsIn("failed", 1, {}) \o Checks \o Exits(1)

PostSource == Checks
PublicCase == Puts("drc_error_collection.py") \o Puts("6_drc_count.rpt") \o Checks
              \o RunsTool({}, {"drc_error_collection.py", "6_drc_count.rpt"}) \o ZeroElse("raise") \o Checks
PostEDACase == Checks \o PostSource \o PublicCase \o Swaps("public_case.json") \o Swaps("native_trace.json")
               \o SwapsIn("succeeded", 0, {"public_case.json", "native_trace.json"}) \o Checks \o Exits(0)
Score == Checks
Launcher(main) == Checks \o Delegates(main)
PostEDAScore == Checks \o PostSource \o Score \o Swaps("diagnosis_score.json") \o Swaps("evaluation_trace.json")
                \o SwapsIn("succeeded", 0, {"diagnosis_score.json", "evaluation_trace.json"})
                \o Checks \o Exits(0)

(***************************************************************************)
(* seeded_random_control proposes from a finite domain; the echo example   *)
(* has no try statement.                                                   *)
(***************************************************************************)
\* Mutant: the trace is written after the answer that lists it.
RandomControlEarly == Checks \o Puts("optimizer_candidates.json") \o Puts("optimizer_input_manifest.json")
                      \o Succeeds({"optimizer_candidates.json", "optimizer_input_manifest.json",
                                  "optimizer_trace.json"}) \o Puts("optimizer_trace.json") \o Exits(0)
RandomControl == Checks \o Puts("optimizer_candidates.json") \o Puts("optimizer_input_manifest.json")
                 \o Puts("optimizer_trace.json")
                 \o Succeeds({"optimizer_candidates.json", "optimizer_input_manifest.json",
                             "optimizer_trace.json"}) \o Exits(0)
RandomFailed == Fails(1, {}) \o Exits(1)
Echo == Checks \o Puts("report.json") \o Succeeds({"report.json"}) \o Exits(0)

AdapterBlocks ==
    "rtl_verify" :> RtlVerify @@ "verify_stopped" :> VerifyStopped @@ "verify_failed" :> VerifyFailed @@
    "rtl_sim" :> RtlSim @@ "sim_stopped" :> SimStopped @@ "sim_imageless" :> SimImageless @@
    "sim_failed" :> SimFailed @@
    "reproduction" :> Reproduction @@ "reproduction_failed" :> ReproductionFailed @@
    "bridge_candidate" :> Bridge("reproduction") @@ "bridge_native" :> Bridge("native") @@
    "bridge_initialize" :> Bridge("initializer") @@ "bridge_policy" :> Bridge("paper_policy") @@
    "dataset" :> Dataset @@ "native" :> Native @@ "initializer" :> Initializer @@
    "paper_policy" :> PaperPolicy @@ "agent_failed" :> AgentFailed @@
    "a2_policy" :> A2(A2Observations, << >>) @@ "a2_resumed" :> A2(A2Observations, A2Prompts) @@
    "a2_initialize" :> A2(A2Context, << >>) @@ "a2_initialize_resumed" :> A2(A2Context, A2Prompts) @@
    "a2_failed" :> A2Failed @@
    "orassistant" :> ORAssistant @@ "posteda_case" :> PostEDACase @@ "posteda_score" :> PostEDAScore @@
    "printing_failed" :> PrintingFailed @@
    "launch_orassistant" :> Launcher("orassistant") @@ "launch_case" :> Launcher("posteda_case") @@
    "launch_score" :> Launcher("posteda_score") @@
    "random_control" :> RandomControl @@ "random_failed" :> RandomFailed @@ "echo" :> Echo

AdapterEntries ==
    {"rtl_verify", "rtl_sim", "reproduction", "bridge_candidate", "bridge_native", "bridge_initialize",
     "bridge_policy", "dataset", "a2_policy", "a2_resumed", "a2_initialize", "a2_initialize_resumed",
     "launch_orassistant", "launch_case", "launch_score", "random_control", "echo"}

Catches(b) ==
    CASE b = "rtl_verify" -> <<"verify_failed">>
      [] b = "rtl_sim" -> <<"sim_failed">>
      [] b = "reproduction" -> <<"reproduction_failed">>
      [] b \in {"bridge_candidate", "bridge_native", "bridge_initialize", "bridge_policy", "dataset",
                "native", "initializer", "paper_policy"} -> <<"agent_failed">>
      [] b \in {"a2_policy", "a2_resumed", "a2_initialize", "a2_initialize_resumed"} -> <<"a2_failed">>
      [] b \in {"orassistant", "posteda_case", "posteda_score"} -> <<"printing_failed">>
      [] b = "random_control" -> <<"random_failed">>
      [] OTHER -> << >>

AdapterFiles ==
    UNION {UNION {AdapterBlocks[b][i].files \cup AdapterBlocks[b][i].uses : i \in DOMAIN AdapterBlocks[b]} :
              b \in DOMAIN AdapterBlocks}
=============================================================================
