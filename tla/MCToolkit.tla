----------------------------- MODULE MCToolkit -----------------------------
(* The adapters of the repository, as instances of Toolkit. *)
EXTENDS Toolkit, Adapters

MCBlockNames == DOMAIN AdapterBlocks
MCHandlersOf == [b \in MCBlockNames |-> Catches(b)]
\* Success, an ordinary failure, and a tool that a signal has ended.
MCReturnCodes == {0, 1, -9}

\* A failed flow is evidence too: when make has failed, the document of the
\* candidate owes its materialization and its configuration.
MCEvidence == [b \in MCBlockNames |->
    IF b = "reproduction_failed" THEN {Materialization, "mapped_config.mk"} ELSE {}]
=============================================================================
