------------------------------ MODULE RWMutex ------------------------------
(***************************************************************************)
(* The reader/writer lock of Go's sync package, as worker.go's mapLock     *)
(* uses it.  A lock is a record: `readers' holds the processes inside      *)
(* RLock..RUnlock, `writer' the one process that has called Lock and not   *)
(* yet Unlock.  Lock has two steps.  The caller first announces itself,    *)
(* which shuts out new readers, and owns the lock when the readers that    *)
(* were already inside have left.  A writer that waits therefore blocks    *)
(* every later RLock: one reader that never leaves stops the whole map.    *)
(***************************************************************************)
CONSTANT NoOne              \* "no process": the writer of a lock nobody asked for

RWMutexType(Procs) == [writer : Procs \cup {NoOne}, readers : SUBSET Procs]

Unlocked == [writer |-> NoOne, readers |-> {}]

\* No writer holds the lock or waits for it: Lock may announce, RLock may enter.
NoWriter(m) == m.writer = NoOne

Announce(m, p) == [m EXCEPT !.writer = p]

\* Lock has returned to p.
HasWrite(m, p) == m.writer = p /\ m.readers = {}

Unlock(m) == [m EXCEPT !.writer = NoOne]

RLock(m, p) == [m EXCEPT !.readers = @ \cup {p}]

RUnlock(m, p) == [m EXCEPT !.readers = @ \ {p}]
=============================================================================
