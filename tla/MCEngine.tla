------------------------------ MODULE MCEngine ------------------------------
(***************************************************************************)
(* A program for TLC: it builds one engine with region selection, over     *)
(* either transport, and then one for a region of its choice.              *)
(***************************************************************************)
EXTENDS Engine

ThreeRegions == <<11, 22, 33>>

Custom == {44}

AllFeatures == [grpc : {TRUE}, tip_stream : BOOLEAN] \cup {[grpc |-> FALSE, tip_stream |-> TRUE]}

\* Two payers, the first of them generated.
SomePayers == <<200, 7>>

TwoBuilds ==
  << {DefaultBuilder, [DefaultBuilder EXCEPT !.given_oracle = TRUE],
      [DefaultBuilder EXCEPT !.transport = "Grpc"]},
     {[DefaultBuilder EXCEPT !.region = r, !.transport = "Grpc", !.tip_payer = 2,
                             !.given_oracle = TRUE, !.strategy = "engine",
                             !.retry = [max_attempts |-> 2, rest |-> "engine"],
                             !.tip_stream_url = "own"] : r \in {44}} >>

=============================================================================
