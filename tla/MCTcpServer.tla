---------------------------- MODULE MCTcpServer ----------------------------
(***************************************************************************)
(* Small instances of TcpServer for TLC, and what the documents of the     *)
(* repository say of shutdown and of the idle timeout that the code does   *)
(* not keep.  Each of those is checked by a run of its own that expects a  *)
(* violation.                                                              *)
(***************************************************************************)
EXTENDS TcpServer, TLC

Symmetry == Permutations(Conn)

\* docs/architecture/tcp-accept-loop.md: "When a shutdown signal received, the
\* server exits the accept or receive loop and returns successfully."  A signal
\* between the test of the flag and accept, or one that a worker thread gets,
\* leaves the main thread in accept until another client connects.
ShutdownHeeded == stop ~> main = "returned"

\* docs/decisions/0019-tcp-idle-client-timeout.md: the timeout ensures that
\* worker slots are released "without requiring client-side disconnects".  The
\* timeout is looked at in recv only: a client that does not read its responses
\* keeps the worker in sendAll, and its slot, for ever.
SlotReleasedAlways == \A x \in Conn : phase[x] \in Serving ~> phase[x] \notin Serving
=============================================================================
