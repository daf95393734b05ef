------------------------------ MODULE KVStore ------------------------------
(***************************************************************************)
(* What the durable storage engine promises to its callers, with no log,  *)
(* no file and no lock: a map that mutations change one at a time, and    *)
(* the set of maps that a power loss may leave behind.                     *)
(*                                                                         *)
(* kv is what GET and EXISTS observe (while the process is down: what the *)
(* next recovery will load).  survivors is what the disk may hold after a *)
(* loss of power.  A mutation is in doubt between the moment it reaches   *)
(* the log and the moment it is acknowledged: a crash in between may keep *)
(* it or lose it, and nothing else.                                        *)
(***************************************************************************)
EXTENDS Integers

CONSTANTS
  Client,      \* threads that execute commands on the storage engine
  Key, Value,  \* keys and values of SET
  NoValue,     \* the key is absent; as the value of a mutation: DEL
  NoMutation,  \* the client has no mutation under way
  Durable      \* TRUE iff an acknowledged mutation must survive power loss

VARIABLES kv, survivors, pending
kvVars == <<kv, survivors, pending>>

Map      == [Key -> Value \cup {NoValue}]
Mutation == [key : Key, value : Value \cup {NoValue}]

Applied(m)  == [kv EXCEPT ![m.key] = m.value]
Nothing     == [c \in Client |-> NoMutation]

KVInit ==
  /\ kv = [k \in Key |-> NoValue]
  /\ survivors = {kv}
  /\ pending = Nothing

Begin(c) ==
  /\ pending[c] = NoMutation
  /\ \E m \in Mutation : pending' = [pending EXCEPT ![c] = m]
  /\ UNCHANGED <<kv, survivors>>

\* The mutation reaches the log: it may survive, nothing that survived is lost.
Persist(c) ==
  /\ pending[c] # NoMutation
  /\ survivors' = survivors \cup {Applied(pending[c])}
  /\ UNCHANGED <<kv, pending>>

\* The log is forced to disk: from here on the mutation survives for certain.
Settle(c) ==
  /\ pending[c] # NoMutation
  /\ Applied(pending[c]) \in survivors
  /\ survivors' = {Applied(pending[c])}
  /\ UNCHANGED <<kv, pending>>

\* The mutation becomes visible and is acknowledged, in one step.
Commit(c) ==
  /\ pending[c] # NoMutation
  /\ kv' = Applied(pending[c])
  /\ kv' \in survivors
  /\ Durable => survivors = {kv'}
  /\ pending' = [pending EXCEPT ![c] = NoMutation]
  /\ UNCHANGED survivors

\* The mutation is answered NotFound or with an error: no visible effect.
Reject(c) ==
  /\ pending[c] # NoMutation
  /\ pending' = [pending EXCEPT ![c] = NoMutation]
  /\ UNCHANGED <<kv, survivors>>

\* Everything that is visible is forced to disk (a graceful shutdown).
SettleAll ==
  /\ pending = Nothing
  /\ survivors' = {kv}
  /\ UNCHANGED <<kv, pending>>

\* The process dies, the machine does not: at most a mutation in flight is kept.
ProcessCrash ==
  /\ kv' = kv \/ \E c \in Client : pending[c] # NoMutation /\ kv' = Applied(pending[c])
  /\ pending' = Nothing
  /\ UNCHANGED survivors

\* The machine dies: the store falls back to one of the survivors.
PowerFailure ==
  /\ kv' \in survivors
  /\ survivors' \in SUBSET survivors
  /\ kv' \in survivors'
  /\ pending' = Nothing

KVNext ==
  \/ \E c \in Client : Begin(c) \/ Persist(c) \/ Settle(c) \/ Commit(c) \/ Reject(c)
  \/ SettleAll \/ ProcessCrash \/ PowerFailure

KVSpec == KVInit /\ [][KVNext]_kvVars
=============================================================================
