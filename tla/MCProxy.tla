------------------------------ MODULE MCProxy ------------------------------
(***************************************************************************)
(* Bodies below, at and beyond each of the limits, in the encodings the    *)
(* proxy knows and one it does not, compressed well or badly.  The long    *)
(* ones consist of secrets and text only.                                  *)
(***************************************************************************)
EXTENDS Proxy

Encodings == {"identity", "gzip", "br"}
Bodies == SeqOf(Line, 2)
          \cup [1..3 -> {"secret", "text"}]
Wire(encoding) == IF encoding = "gzip" THEN 1..3 ELSE {0}
MCRequests == UNION {[encoding : {e}, wire : Wire(e), body : Bodies] : e \in Encodings}
MCResponses ==
    UNION {[encoding : {e}, wire : Wire(e), stream : BOOLEAN, body : Bodies] : e \in Encodings}
=============================================================================
