--------------------------- MODULE RegistryLedger ---------------------------
(***************************************************************************)
(* What the persistent registry promises to its callers, with no           *)
(* transactions, snapshots, locks or retries in sight: a registry that     *)
(* moves from one complete document to the next, a history that names      *)
(* every document it ever held and no other, and for every scoped          *)
(* idempotency key at most one settled outcome.                            *)
(*                                                                         *)
(* RegistryMutation, the transaction code of the control plane, is shown   *)
(* to implement this module.                                               *)
(***************************************************************************)
EXTENDS Integers, Sequences

CONSTANTS
  Projects,       \* hosted projects that own a partition of the registry
  Platform,       \* the owner of everything that belongs to no project
  Contents,       \* what an owner's slice of the registry may contain
  Empty,          \* the registry tables before anything was imported
  InitialRows,    \* the registry the ledger starts from
  Keys,           \* scoped idempotency keys
  NoKey,          \* a command-line import without an idempotency key
  Requests,       \* the mutation requests clients send
  Operation,      \* request -> "import_replace" or "project_partition_replace"
  IdempotencyKey, \* request -> its scoped key, or NoKey
  Project,        \* request -> the project of its principal
  Incoming        \* request -> the complete registry document it carries

VARIABLES
  registry,       \* the document that is current
  history,        \* the documents on record, in order
  outcome         \* scoped key -> what it was settled with

ledgerVars == <<registry, history, outcome>>

Owners == Projects \cup {Platform}

Registries == [Owners -> Contents]

\* ValidateProjectPartitionMutation accepts exactly the documents that leave
\* every slice but the project's own as it is.
InPartition(current, proposed, project) ==
  \A o \in Owners \ {project} : current[o] = proposed[o]

Unsettled == [settled |-> FALSE, fingerprint |-> Empty, noop |-> FALSE]

Outcomes == [settled : BOOLEAN, fingerprint : Registries \cup {Empty}, noop : BOOLEAN]

\* A key is settled once; a request without a key settles nothing.
Settle(r, noop) ==
  IF IdempotencyKey[r] = NoKey
    THEN outcome' = outcome
    ELSE /\ ~outcome[IdempotencyKey[r]].settled
         /\ outcome' = [outcome EXCEPT ![IdempotencyKey[r]] =
              [settled |-> TRUE, fingerprint |-> Incoming[r], noop |-> noop]]

LedgerInit ==
  /\ registry = InitialRows
  /\ history = <<InitialRows>>
  /\ outcome = [k \in Keys |-> Unsettled]

\* The whole document replaces the current one. A project-scoped request may
\* only do so when the current registry differs from it in no other slice.
Replace(r) ==
  /\ registry # Incoming[r]
  /\ Operation[r] = "project_partition_replace"
       => registry # Empty /\ InPartition(registry, Incoming[r], Project[r])
  /\ registry' = Incoming[r]
  /\ history' = Append(history, Incoming[r])
  /\ Settle(r, FALSE)

\* The document is found to be current already, at some moment of the
\* request, and nothing changes.
Noop(r) ==
  /\ \E i \in 1..Len(history) : history[i] = Incoming[r]
  /\ UNCHANGED <<registry, history>>
  /\ Settle(r, TRUE)

\* An export puts a document on record once more, current still or no longer.
Record ==
  /\ \E i \in 1..Len(history) :
       history[i] # Empty /\ history' = Append(history, history[i])
  /\ UNCHANGED <<registry, outcome>>

LedgerNext == (\E r \in Requests : Replace(r) \/ Noop(r)) \/ Record

LedgerSpec == LedgerInit /\ [][LedgerNext]_ledgerVars

=============================================================================
