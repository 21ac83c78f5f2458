----------------------------- MODULE MCInspector ------------------------------
(***************************************************************************)
(* One inspector with an HTTP call and a gRPC stream, over the deployment  *)
(* of MCPipeline.                                                          *)
(***************************************************************************)
EXTENDS InspectorProps, MCPipeline

CONSTANTS web, stream

MCCalls == {web, stream}
MCTransport == [c \in MCCalls |-> IF c = web THEN "http" ELSE "grpc"]
(* A tool to be pinned and removed, and a result that taints its session:    *)
(* between them they make every store call that writes.                      *)
MCStopRequests ==
    {Hop("tool_definition", s1, t1, "poison"), Hop("tool_result", s1, t1, "poison")}

MCCallOf == [h \in Hops |-> IF h = h1 THEN web ELSE stream]
===============================================================================
