----------------------------- MODULE PackageLock -----------------------------
(***************************************************************************)
(* What the package-management lock of the root service promises the        *)
(* sessions (gest/backend/service.py, _reject_if_busy): operations take      *)
(* turns, and an operation gives up its turn by ending, never otherwise.    *)
(***************************************************************************)
CONSTANTS
    LockOps,   \* the package operations
    None       \* nobody holds the lock

VARIABLES
    holder,    \* the operation that holds the lock
    ended      \* the operations that have ended

LockInit == holder = None /\ ended = {}

Acquire(o) ==
    /\ holder = None
    /\ o \notin ended
    /\ holder' = o
    /\ UNCHANGED ended

Release ==
    /\ holder # None
    /\ ended' = ended \cup {holder}
    /\ holder' = None

LockNext == Release \/ \E o \in LockOps : Acquire(o)

LockSpec == LockInit /\ [][LockNext]_<<holder, ended>>
=============================================================================
