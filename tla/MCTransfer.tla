----------------------------- MODULE MCTransfer -----------------------------
(* Transfer for TLC: what the two processes do. *)
EXTENDS Transfer

Program(sends, first, async) == [sends |-> sends, first |-> first, async |-> async]

\* A transfer in one direction, or one in each direction with the calls in
\* opposite order; a process may poll when the other one is the first to receive.
OrderedPrograms ==
  { Program(<<N, 0>>, <<"send", "recv">>, {}),
    Program(<<N, 0>>, <<"send", "recv">>, {2}),
    Program(<<2, 2>>, <<"send", "recv">>, {}),
    Program(<<2, 1>>, <<"recv", "recv">>, {2}) }

\* Both processes run send_relrc_async and recv_relrc_async concurrently.
JoinedPrograms == { Program(<<1, 1>>, <<f, g>>, {1, 2}) : f, g \in {"send", "recv"} }

=============================================================================
