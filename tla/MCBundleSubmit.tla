--------------------------- MODULE MCBundleSubmit ---------------------------
(***************************************************************************)
(* Requests for TLC.  With U64Max = 13 the second bump of a tip of 10      *)
(* saturates (10, 12, 13).                                                 *)
(***************************************************************************)
EXTENDS BundleSubmit, TLC

Policy(attempts) ==
  [ max_attempts |-> attempts, initial_backoff |-> 2, max_backoff |-> 3,
    multiplier |-> 200, tip_bump_bps |-> 2000 ]

Request(transport, txs, strategy, policy) ==
  [ transport |-> transport, txs |-> txs, encodable |-> TRUE, strategy |-> strategy, tip |-> 10,
    tip_account_index |-> 9, blockhash |-> 1, policy |-> policy ]

\* Every transport, strategy and early return, with one to three attempts.
SoloRequests ==
  {Request(t, 1, "Fixed", Policy(3)) : t \in Transports}
    \cup {Request("Grpc", 4, "Percentile", Policy(2)),
          Request("JsonRpc", 2, "Dynamic", Policy(1)),
          Request("JsonRpc", 0, "Fixed", Policy(3)),
          Request("JsonRpc", 5, "Fixed", Policy(3)),
          [Request("JsonRpc", 1, "Fixed", Policy(2)) EXCEPT !.encodable = FALSE],
          Request("Grpc", 1, "Fixed", [Policy(3) EXCEPT !.multiplier = 99]),
          Request("Grpc", 1, "Fixed", [Policy(3) EXCEPT !.multiplier = NotFinite])}

\* One request of each transport, for the runs of one attempt or two.
PlainRequests == {Request(t, 1, "Fixed", Policy(2)) : t \in Transports}

\* Two clones of one engine that offer the same tip to the same account with
\* the same blockhash.
PeerRequests == {Request("JsonRpc", 1, "Fixed", Policy(2)), Request("Grpc", 1, "Fixed", Policy(1))}

\* The clones are alike, and no temporal property is checked of them.
PeerSymmetry == Permutations(Workers)

=============================================================================
