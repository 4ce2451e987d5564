---------------------------- MODULE BundleClient ----------------------------
(***************************************************************************)
(* What the two transports make of an answer of the block engine:          *)
(* src/client/json_rpc.rs and src/client/grpc.rs, with the classification  *)
(* of errors in src/error.rs.                                              *)
(*                                                                         *)
(* A call ends in one of the Failures below, or in a well-formed answer.   *)
(*   noResponse  the connection failed, was reset or timed out             *)
(*   httpError   an HTTP status of 400 or more        (JSON-RPC only)      *)
(*   badBody     the body does not decode as a response                    *)
(*   rpcError    the engine answered with an application-level error       *)
(*   noResult    a response with neither result nor error (JSON-RPC only)  *)
(*   notString   sendBundle's result is no string     (JSON-RPC only)      *)
(***************************************************************************)
EXTENDS Naturals

Transports == {"JsonRpc", "Grpc"}

NetworkFailures == {"noResponse", "httpError", "badBody"}

Failures == NetworkFailures \cup {"rpcError", "noResult", "notString"}

Statuses == {"Pending", "Landed", "Dropped", "Rejected"}

\* The ways a call of each transport may fail.
JsonRpcFailures == NetworkFailures \cup {"rpcError", "noResult"}

GrpcFailures == {"noResponse", "badBody", "rpcError"}

CallFailures(transport) == IF transport = "JsonRpc" THEN JsonRpcFailures ELSE GrpcFailures

SendFailures(transport) ==
  IF transport = "JsonRpc" THEN JsonRpcFailures \cup {"notString"} ELSE GrpcFailures

\* reqwest's errors convert to Error::Transport; an error the engine reports
\* and a malformed result are an Error::Rpc.
JsonRpcError(failure) == IF failure \in NetworkFailures THEN "Transport" ELSE "Rpc"

\* Every tonic Status, that of a lost connection included, is an Error::Rpc.
GrpcError(failure) == "Rpc"

ErrorOf(transport, failure) ==
  IF transport = "JsonRpc" THEN JsonRpcError(failure) ELSE GrpcError(failure)

\* A classification that also retries application-level errors.
IsRetriableRpc(error) == error \in {"Transport", "Rpc", "Dropped", "StatusStreamClosed"}

IsRetriable(error) == error \in {"Transport", "Dropped", "StatusStreamClosed"}

IsTerminal(status) == status # "Pending"

-----------------------------------------------------------------------------
(***************************************************************************)
(* getBundleStatuses answers with at most one entry for the bundle.  Only  *)
(* the presence of the entry, of its slot and of its err, and the          *)
(* confirmation level matter.                                              *)
(***************************************************************************)
Entry(found, slot, confirmation, err) ==
  [found |-> found, slot |-> slot, confirmation |-> confirmation, err |-> err]

NoEntry == Entry(FALSE, FALSE, "", FALSE)

\* The match without its guard on the confirmation level and on err.
JsonRpcStatusUnconfirmed(entry) ==
  CASE ~entry.found -> "Pending"
    [] entry.found /\ entry.slot -> "Landed"
    [] entry.found /\ ~entry.slot /\ entry.err -> "Dropped"
    [] OTHER -> "Pending"

JsonRpcStatus(entry) ==
  CASE ~entry.found -> "Pending"
    [] entry.found /\ entry.slot /\ ~entry.err
         /\ entry.confirmation \in {"confirmed", "finalized"} -> "Landed"
    [] entry.found /\ entry.err -> "Dropped"
    [] OTHER -> "Pending"

GrpcState == [Pending |-> 0, Landed |-> 1, Dropped |-> 2, Rejected |-> 3]

\* GetBundleStatusResponse.state is a number: any unknown one reads as pending.
GrpcStatus(state) ==
  CASE state = GrpcState.Landed -> "Landed"
    [] state = GrpcState.Dropped -> "Dropped"
    [] state = GrpcState.Rejected -> "Rejected"
    [] OTHER -> "Pending"

-----------------------------------------------------------------------------
(***************************************************************************)
(* The block engine is not part of the repository.  These are the answers  *)
(* it may give for a bundle in state st, read off what the two transports  *)
(* parse.  A JSON-RPC answer may lag behind: an entry can be missing, and  *)
(* a landed bundle passes through "processed" before it is confirmed.      *)
(***************************************************************************)
JsonRpcAnswers(st) ==
  {NoEntry} \cup
  CASE st = "landed" -> {Entry(TRUE, TRUE, c, FALSE) : c \in {"processed", "confirmed"}}
    [] st \in {"dropped", "rejected"} -> {Entry(TRUE, s, "processed", TRUE) : s \in BOOLEAN}
    [] OTHER -> {Entry(TRUE, FALSE, "", FALSE)}

GrpcAnswers(st) ==
  CASE st = "landed" -> {GrpcState.Landed}
    [] st = "dropped" -> {GrpcState.Dropped}
    [] st = "rejected" -> {GrpcState.Rejected}
    [] OTHER -> {GrpcState.Pending, 4}

\* The statuses bundle_status may return for a bundle in state st.
StatusesOf(transport, st) ==
  IF transport = "JsonRpc" THEN {JsonRpcStatus(e) : e \in JsonRpcAnswers(st)}
                           ELSE {GrpcStatus(s) : s \in GrpcAnswers(st)}

=============================================================================
