------------------------------ MODULE AuditLog ------------------------------
(***************************************************************************)
(* What audit.Writer promises its callers (internal/audit/writer.go, the   *)
(* Writer interface): one log to which whole entries are appended, never   *)
(* changed and never reordered.  A call answered with nil has appended its *)
(* entry exactly once; a call answered with an error has appended it once  *)
(* or not at all.  No transaction, lock, id or hash is mentioned here.     *)
(***************************************************************************)
EXTENDS Sequences

CONSTANTS
    Callers,    \* who calls Write
    Entries     \* what can be logged

VARIABLES
    log,     \* the entries, oldest first
    want,    \* want[c]: the entry of c's last call
    said     \* said[c]: its answer, "pending" until there is one

vars == <<log, want, said>>

Init ==
    /\ log = <<>>
    /\ want \in [Callers -> Entries]
    /\ said = [c \in Callers |-> "none"]

Call(c) ==
    /\ said[c] # "pending"
    /\ want'[c] \in Entries
    /\ want' = [want EXCEPT ![c] = want'[c]]
    /\ said' = [said EXCEPT ![c] = "pending"]
    /\ UNCHANGED log

\* The entry is appended; the answer may be lost and turn into an error.
Record(c) ==
    /\ said[c] = "pending"
    /\ log' = Append(log, want[c])
    /\ \E a \in {"ok", "error"} : said' = [said EXCEPT ![c] = a]
    /\ UNCHANGED want

Refuse(c) ==
    /\ said[c] = "pending"
    /\ said' = [said EXCEPT ![c] = "error"]
    /\ UNCHANGED <<log, want>>

Next == \E c \in Callers : Call(c) \/ Record(c) \/ Refuse(c)

Spec == Init /\ [][Next]_vars
=============================================================================
