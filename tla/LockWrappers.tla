---------------------------- MODULE LockWrappers ----------------------------
(***************************************************************************)
(* The wrappers of ocean_http/lock: sem (POSIX semaphore), locker (POSIX   *)
(* mutex).  A semaphore is its count, a mutex its holder or Unlocked.      *)
(* Blocking calls are guards: wait and lock are enabled only when the call *)
(* would return.  None of the callers looks at the Boolean the wrappers    *)
(* return, and with a valid handle the POSIX calls do not fail.            *)
(***************************************************************************)
EXTENDS Integers

(* A value no thread has. *)
Unlocked == "unlocked"

(* sem::wait: blocks while the count is zero, then takes one unit. *)
SemWait(m_sem, next) == m_sem > 0 /\ next = m_sem - 1

(* sem::post: adds one unit. *)
SemPost(m_sem, next) == next = m_sem + 1

(* locker::lock: blocks while another thread holds the mutex. *)
Lock(m_mutex, next, thread) == m_mutex = Unlocked /\ next = thread

(* locker::unlock *)
Unlock(m_mutex, next) == next = Unlocked
=============================================================================
