----------------------------- MODULE Allocator -----------------------------
(***************************************************************************)
(* What a client may expect of my_malloc and my_free (projects/project1/   *)
(* README.md): a request gets that many bytes of memory obtained from the  *)
(* operating system which no other live request has, or nothing at all;    *)
(* freeing a pointer gives up that allocation and leaves the others alone. *)
(***************************************************************************)
EXTENDS Naturals

CONSTANT Requests \* the sizes the client asks for

VARIABLES live,  \* live[p]: the size of the request that was answered with p
          mapped \* mapped[r]: the bytes of the region that starts at r

vars == <<live, mapped>>

Init ==
  /\ live = << >>
  /\ mapped = << >>

\* The memory may have grown; what was mapped stays mapped.
Map ==
  /\ DOMAIN mapped \subseteq DOMAIN mapped'
  /\ \A r \in DOMAIN mapped : mapped'[r] = mapped[r]

Allocate(p, size) ==
  /\ p \notin DOMAIN live
  /\ Map
  /\ \E r \in DOMAIN mapped' : r <= p /\ p + size <= r + mapped'[r]
  /\ \A q \in DOMAIN live : p + size <= q \/ q + live[q] <= p
  /\ live' = [q \in DOMAIN live \union {p} |-> IF q = p THEN size ELSE live[q]]

Release(p) ==
  /\ live' = [q \in DOMAIN live \ {p} |-> live[q]]
  /\ UNCHANGED mapped

Next ==
  \/ \E size \in Requests : \E p \in DOMAIN live' : Allocate(p, size)
  \/ \E p \in DOMAIN live : Release(p)

Spec == Init /\ [][Next]_vars
=============================================================================
