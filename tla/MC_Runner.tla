----------------------------- MODULE MC_Runner -----------------------------
(***************************************************************************)
(* An instance of Runner: an entry service with two groups that may meet   *)
(* at one service, where the second has drawn it and not the one that      *)
(* speaks gRPC; with a behaviour id the entry service calls none.  A call  *)
(* carries what the request of its client does: a behaviour id, or nothing.*)
(***************************************************************************)
EXTENDS Runner

CONSTANTS s0, s1, s2, s3, plain, other

MCServices == {s0, s1, s2, s3}
MCCarries == {plain, other}

Group(services, seq_len, optional) ==
    [services |-> services, seq_len |-> seq_len, optional |-> optional]

MCGroups == [target \in MCServices \X MCCarries |->
    CASE target = <<s0, plain>> -> <<Group(<< <<s3, plain>> >>, 1, {s3}),
                                     Group(<< <<s2, plain>> >>, 1, {})>>
      [] target = <<s2, plain>> -> <<Group(<< <<s1, plain>>, <<s3, plain>> >>, 1, {})>>
      [] target = <<s1, plain>> -> <<Group(<< <<s3, plain>> >>, 1, {})>>
      [] OTHER -> <<>>]

MCWorkload == << <<s0, plain>>, <<s0, other>> >>
BothModes == BOOLEAN
MCFaulty == {<<s0, other>>}
MCFlaky == {s0}
MCGrpc == {s1}
=============================================================================
