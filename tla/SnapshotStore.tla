--------------------------- MODULE SnapshotStore ---------------------------
(***************************************************************************)
(* What a cached repository promises, whatever it caches and however its   *)
(* callers interleave: it keeps whole records, hands out snapshots of them *)
(* that may be old, and writes a record only as one command made of one    *)
(* such snapshot.  It does not promise that the snapshot is the newest:    *)
(* an update may be lost, but two are never mixed into a record that no    *)
(* aggregate ever was.                                                     *)
(***************************************************************************)
CONSTANTS
    Slot,      \* where records are kept
    None,      \* what a slot without a record holds
    Initial,   \* the contents the store may start with
    Fresh,     \* the records a first write may make
    Commands   \* <<before, after>> for every command on a record

VARIABLES
    store,     \* the records
    copies     \* <<slot, record>>: the snapshots that caches and callers have

Current == {<<s, store[s]>> : s \in {t \in Slot : store[t] # None}}

Init ==
    /\ store \in Initial
    /\ copies = {}

(* Snapshots are taken, passed on and dropped *)
Copy ==
    /\ store' = store
    /\ copies' \subseteq copies \cup Current

Write(s) ==
    /\ store' = [store EXCEPT ![s] = store'[s]]
    /\ \/ store[s] = None /\ store'[s] \in Fresh
       \/ \E c \in copies : c[1] = s /\ <<c[2], store'[s]>> \in Commands
    /\ copies' \subseteq copies

Next == Copy \/ \E s \in Slot : Write(s)

Spec == Init /\ [][Next]_<<store, copies>>

(* The stronger promise a caller may expect: a record is written only as one
   command made of the record that is there, so that no update is lost.
   Whoever wants it has to keep the calls apart. *)
AtomicWrite(s) ==
    /\ store' = [store EXCEPT ![s] = store'[s]]
    /\ \/ store[s] = None /\ store'[s] \in Fresh
       \/ store[s] # None /\ <<store[s], store'[s]>> \in Commands

AtomicNext == \E s \in Slot : AtomicWrite(s)

AtomicSpec == store \in Initial /\ [][AtomicNext]_store
=============================================================================
