----------------------------- MODULE PageAlloc -----------------------------
(***************************************************************************)
(* What the kernel expects of pmm_manager: alloc_pages(n) returns n        *)
(* consecutive free pages and fails only when there are none.  First fit   *)
(* takes the lowest ones, best fit those at the beginning of the lowest of *)
(* the shortest runs of free pages that are long enough.                   *)
(***************************************************************************)
EXTENDS Integers

CONSTANTS
    Pages,      \* the pages page_init hands over
    MaxAlloc,   \* the largest request
    NULL

VARIABLES
    policy,     \* "first" or "best"
    free,       \* the free pages
    ret         \* what the last call returned

pvars == <<policy, free, ret>>

Extent(base, n) == base .. base + n - 1

Init == policy \in {"first", "best"} /\ free = {} /\ ret = NULL

Start ==
    /\ free = {}
    /\ free' = Pages
    /\ ret' = NULL
    /\ UNCHANGED policy

Fits(base, n) == Extent(base, n) \subseteq free

(* The length of the run of free pages that starts at base. *)
RunFrom(base) ==
    LET last == CHOOSE p \in free : p >= base /\ base .. p \subseteq free /\ p + 1 \notin free
    IN  last - base + 1

(* base is a better choice than b, where both fit. *)
Better(base, b) ==
    \/ policy = "first" /\ base <= b
    \/ policy = "best" /\ \/ RunFrom(base) < RunFrom(b)
                          \/ RunFrom(base) = RunFrom(b) /\ base <= b

(* Where a request of n pages may be served: anywhere, or at the beginning of
   a run. *)
Places(n) ==
    {b \in Pages : Fits(b, n) /\ (policy = "best" => b - 1 \notin free)}

Alloc(n) ==
    \/ \E base \in Places(n) :
          /\ \A b \in Places(n) : Better(base, b)
          /\ free' = free \ Extent(base, n)
          /\ ret' = base
          /\ UNCHANGED policy
    \/ /\ Places(n) = {}
       /\ ret' = NULL
       /\ UNCHANGED <<policy, free>>

Free(base, n) ==
    /\ Extent(base, n) \subseteq Pages \ free
    /\ free' = free \cup Extent(base, n)
    /\ ret' = NULL
    /\ UNCHANGED policy

Next ==
    \/ Start
    \/ \E n \in 1 .. MaxAlloc : Alloc(n) \/ \E base \in Pages : Free(base, n)

Spec == Init /\ [][Next]_pvars

============================================================================
