---------------------------- MODULE MCLogWriter -----------------------------
(***************************************************************************)
(* Instances of LogWriter for TLC: two requests, or a request and its      *)
(* retry, with errors before and after other messages, with progress       *)
(* messages close together and far apart, and with messages that may take  *)
(* up to three chunks.                                                     *)
(***************************************************************************)
EXTENDS LogWriter

Msg(error, status, current, size) ==
  [error |-> error, status |-> status, current |-> current, total |-> 30, size |-> size]

Step(size)       == Msg(FALSE, "other", 0, size)
Failure(size)    == Msg(TRUE, "other", 0, size)
Pushing(n, size) == Msg(FALSE, "Pushing", n, size)
Buffer(n, size)  == Msg(FALSE, "Buffering to disk", n, size)

MCOutputs == {<<Step(1), Failure(2), Pushing(1, 2)>>,
              <<Failure(3), Step(2)>>,
              <<Step(3), Failure(1)>>,
              <<Pushing(1, 1), Pushing(5, 3), Pushing(30, 2)>>,
              <<Buffer(1, 2), Buffer(2, 1), Buffer(25, 2)>>}

=============================================================================
