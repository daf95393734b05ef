--------------------------- MODULE MCWalStorage ----------------------------
(***************************************************************************)
(* Small instances of WalStorage for TLC, and what the documents of the    *)
(* repository say of the log that the code does not keep when a write or   *)
(* an fsync fails.  Each of those is checked by a run of its own that      *)
(* expects a violation.                                                    *)
(***************************************************************************)
EXTENDS WalStorage, TLC

Symmetry == Permutations(Client) \cup Permutations(Value)

\* docs/decisions/0035-asterd-wal-file-recovery.md: state is preserved "across
\* server restarts".  A DEL whose fsync fails and that the client repeats is
\* in the file twice, and replay refuses the second one.
RestartsFromItsOwnLog == mode # "refused"

\* docs/release/known-limitations-v0.3.0.md: "corrupted WAL lines fail
\* startup".  A SET cut at an even number of hex digits parses, and the key
\* comes back with a value nobody wrote.
CorruptedLinesFailStartup == \A k \in Key : storage[k] # Garbled
=============================================================================
